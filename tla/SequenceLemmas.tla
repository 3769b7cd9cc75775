--------------------------- MODULE SequenceLemmas ---------------------------
(***************************************************************************)
(* Facts about the sequence operators the models use: chains of nodes that *)
(* are pairwise different, the concatenation of many sequences, recursive  *)
(* functions on the naturals and induction up to a number.                 *)
(***************************************************************************)
EXTENDS Integers, SequencesExt, SequenceTheorems, WellFoundedInduction, TLAPS

\* The order of the naturals as a set of pairs.
NatLt == {ss \in Nat \X Nat : ss[1] < ss[2]}

\* A nonempty set of naturals has a least element: the form of induction
\* used for sequences of every length.
LEMMA LeastNat ==
  ASSUME NEW T \in SUBSET Nat, T # {}
  PROVE  \E x \in T : \A y \in T : x <= y
<1>1. OpToRel(<, Nat) = NatLt
  BY Zenon DEF OpToRel, NatLt
<1>2. IsWellFoundedOn(NatLt, Nat)
  BY <1>1, NatLessThanWellFounded, Zenon
<1>3. PICK x \in T : \A y \in T : ~ (<<y, x>> \in NatLt)
  BY <1>2, WFMin
<1>4. ASSUME NEW y \in T PROVE x <= y
  <2>1. ~ (<<y, x>> \in NatLt)
    BY <1>3
  <2>2. x \in Nat /\ y \in Nat
    OBVIOUS
  <2>3. ~ (y < x)
    BY <2>1, <2>2, Zenon DEF NatLt
  <2> QED
    BY <2>2, <2>3
<1> QED
  BY <1>4

\* Induction over the numbers up to n, with a set for the predicate.
LEMMA UpToInduction ==
  ASSUME NEW n \in Nat, NEW P, 0 \in P, \A i \in 1 .. n : i - 1 \in P => i \in P
  PROVE  \A i \in 0 .. n : i \in P
<1> DEFINE T == (0 .. n) \ P
<1> SUFFICES ASSUME T # {} PROVE FALSE
  OBVIOUS
<1>1. PICK k \in T : \A y \in T : k <= y
  <2>1. T \in SUBSET Nat
    OBVIOUS
  <2> HIDE DEF T
  <2> QED BY <2>1, LeastNat
<1>2. k \in 1 .. n /\ k - 1 \in 0 .. n /\ ~ (k <= k - 1)
  OBVIOUS
<1>3. k - 1 \in P
  BY <1>1, <1>2
<1> QED BY <1>2, <1>3

\* f is b at 0 and F[i] of the value before at i, for i up to n.
IsRec(f, n, b, F) == f[0] = b /\ \A i \in 1 .. n : f[i] = F[i][f[i - 1]]

\* A function is defined by recursion over the numbers up to n.
LEMMA RecursionUpTo ==
  ASSUME NEW n \in Nat, NEW R, NEW b \in R, NEW F, \A i \in 1 .. n : F[i] \in [R -> R]
  PROVE  \E f \in [0 .. n -> R] : IsRec(f, n, b, F)
<1> DEFINE P == {k \in 0 .. n : \E f \in [0 .. k -> R] : IsRec(f, k, b, F)}
<1>1. 0 \in P
  <2> DEFINE f == [i \in 0 .. 0 |-> b]
  <2>1. f \in [0 .. 0 -> R] /\ IsRec(f, 0, b, F)
    BY DEF IsRec
  <2> HIDE DEF f
  <2> QED BY <2>1
<1>2. ASSUME NEW k \in 1 .. n, k - 1 \in P PROVE k \in P
  <2>1. PICK f \in [0 .. k - 1 -> R] : IsRec(f, k - 1, b, F)
    BY <1>2
  <2> DEFINE g == [i \in 0 .. k |-> IF i < k THEN f[i] ELSE F[k][f[k - 1]]]
  <2>2. f[k - 1] \in R /\ F[k][f[k - 1]] \in R
    <3>1. k - 1 \in 0 .. k - 1
      OBVIOUS
    <3> QED BY <3>1
  <2>3. g \in [0 .. k -> R]
    BY <2>2
  <2>4. /\ \A i \in 0 .. k - 1 : g[i] = f[i]
        /\ g[k] = F[k][f[k - 1]]
    OBVIOUS
  <2> HIDE DEF g
  <2>5. g[0] = b
    BY <2>1, <2>4 DEF IsRec
  <2>6. ASSUME NEW i \in 1 .. k PROVE g[i] = F[i][g[i - 1]]
    <3>1. i - 1 \in 0 .. k - 1 /\ (i = k \/ i \in 1 .. k - 1)
      OBVIOUS
    <3> QED BY <2>1, <2>4, <3>1 DEF IsRec
  <2>7. IsRec(g, k, b, F)
    BY <2>5, <2>6 DEF IsRec
  <2> QED BY <2>3, <2>7
<1>3. n \in 0 .. n
  OBVIOUS
<1> HIDE DEF P
<1>4. \A i \in 0 .. n : i \in P
  BY <1>1, <1>2, UpToInduction
<1> QED BY <1>3, <1>4 DEF P

\* Only one function is.
LEMMA RecursionUnique ==
  ASSUME NEW n \in Nat, NEW b, NEW F, NEW f, NEW g,
         IsRec(f, n, b, F), IsRec(g, n, b, F)
  PROVE  \A i \in 0 .. n : f[i] = g[i]
<1> DEFINE P == {i \in 0 .. n : f[i] = g[i]}
<1>1. 0 \in P
  BY DEF IsRec
<1>2. ASSUME NEW i \in 1 .. n, i - 1 \in P PROVE i \in P
  BY <1>2 DEF IsRec
<1> HIDE DEF P
<1>3. \A i \in 0 .. n : i \in P
  BY <1>1, <1>2, UpToInduction
<1> QED BY <1>3 DEF P

\* A function is defined by recursion over all the naturals.
LEMMA RecursionNat ==
  ASSUME NEW R, NEW b \in R, NEW F, \A i \in Nat \ {0} : F[i] \in [R -> R]
  PROVE  \E f \in [Nat -> R] : \A n \in Nat : IsRec(f, n, b, F)
<1> DEFINE G(k) == CHOOSE g \in [0 .. k -> R] : IsRec(g, k, b, F)
           f == [k \in Nat |-> G(k)[k]]
<1>1. ASSUME NEW k \in Nat PROVE G(k) \in [0 .. k -> R] /\ IsRec(G(k), k, b, F)
  <2>1. \A i \in 1 .. k : F[i] \in [R -> R]
    OBVIOUS
  <2>2. \E g \in [0 .. k -> R] : IsRec(g, k, b, F)
    BY <2>1, RecursionUpTo
  <2> QED BY <2>2
<1> HIDE DEF G
<1>2. f \in [Nat -> R]
  <2>1. \A k \in Nat : k \in 0 .. k
    OBVIOUS
  <2> QED BY <1>1, <2>1
<1>3. f[0] = b
  BY <1>1 DEF IsRec
<1>4. ASSUME NEW k \in Nat \ {0} PROVE f[k] = F[k][f[k - 1]]
  <2>1. k - 1 \in Nat /\ k \in 1 .. k /\ k - 1 \in 0 .. k - 1
    OBVIOUS
  <2>2. IsRec(G(k), k - 1, b, F)
    BY <1>1 DEF IsRec
  <2>3. G(k)[k - 1] = G(k - 1)[k - 1]
    BY <1>1, <2>1, <2>2, RecursionUnique
  <2>4. G(k)[k] = F[k][G(k)[k - 1]]
    BY <1>1, <2>1 DEF IsRec
  <2> QED BY <2>1, <2>3, <2>4
<1> HIDE DEF f
<1>5. \A n \in Nat : IsRec(f, n, b, F)
  BY <1>3, <1>4 DEF IsRec
<1> QED BY <1>2, <1>5

-----------------------------------------------------------------------------
(* Cutting a sequence in two. *)

\* A sequence is what its first k elements and the rest make.
LEMMA SplitSeq ==
  ASSUME NEW S, NEW s \in Seq(S), NEW k \in Nat, k <= Len(s)
  PROVE  /\ SubSeq(s, 1, k) \in Seq(S) /\ Len(SubSeq(s, 1, k)) = k
         /\ SubSeq(s, k + 1, Len(s)) \in Seq(S)
         /\ Len(SubSeq(s, k + 1, Len(s))) = Len(s) - k
         /\ s = SubSeq(s, 1, k) \o SubSeq(s, k + 1, Len(s))
<1> DEFINE a == SubSeq(s, 1, k)
           b == SubSeq(s, k + 1, Len(s))
<1>1. a \in Seq(S) /\ Len(a) = k /\ \A i \in 1 .. k : a[i] = s[i]
  OBVIOUS
<1>2. /\ b \in Seq(S) /\ Len(b) = Len(s) - k
      /\ \A i \in 1 .. Len(s) - k : b[i] = s[k + i]
  OBVIOUS
<1> HIDE DEF a, b
<1>3. /\ a \o b \in Seq(S) /\ Len(a \o b) = Len(s)
      /\ \A i \in 1 .. Len(s) : (a \o b)[i] = IF i <= k THEN a[i] ELSE b[i - k]
  BY <1>1, <1>2
<1>4. ASSUME NEW i \in 1 .. Len(s) PROVE (a \o b)[i] = s[i]
  <2>1. CASE i <= k
    BY <1>1, <1>3, <2>1
  <2>2. CASE ~ (i <= k)
    <3>1. i - k \in 1 .. Len(s) - k /\ k + (i - k) = i
      BY <2>2
    <3> QED BY <1>2, <1>3, <2>2, <3>1
  <2> QED BY <2>1, <2>2
<1>5. a \o b = s
  <2> DEFINE c == a \o b
  <2>1. c \in Seq(S) /\ Len(c) = Len(s) /\ \A i \in 1 .. Len(c) : c[i] = s[i]
    BY <1>3, <1>4
  <2> HIDE DEF c
  <2>2. c = s
    BY <2>1, SeqEqual
  <2> QED BY <2>2 DEF c
<1> QED BY <1>1, <1>2, <1>5 DEF a, b

\* Joining three sequences, in either order.
LEMMA ConcatThree ==
  ASSUME NEW S, NEW x \in Seq(S), NEW y \in Seq(S), NEW z \in Seq(S)
  PROVE  x \o (y \o z) = (x \o y) \o z
BY ConcatAssociative, SMTT(30)

\* Appending to the second of two joined sequences.
LEMMA ConcatAppend ==
  ASSUME NEW S, NEW s \in Seq(S), NEW t \in Seq(S), NEW x \in S
  PROVE  s \o Append(t, x) = Append(s \o t, x)
<1>1. Append(t, x) = t \o <<x>> /\ <<x>> \in Seq(S)
  BY AppendIsConcat
<1>2. (s \o t) \o <<x>> = s \o (t \o <<x>>)
  BY <1>1, ConcatAssociative
<1>3. Append(s \o t, x) = (s \o t) \o <<x>>
  <2> DEFINE u == s \o t
  <2>1. u \in Seq(S)
    OBVIOUS
  <2> HIDE DEF u
  <2>2. Append(u, x) = u \o <<x>>
    BY <2>1, AppendIsConcat
  <2> QED BY <2>2 DEF u
<1> QED BY <1>1, <1>2, <1>3

\* Dropping two elements of the first of two joined sequences.
LEMMA DropTwo ==
  ASSUME NEW S, NEW s \in Seq(S), NEW t \in Seq(S), Len(s) >= 2
  PROVE  SubSeq(s, 3, Len(s)) \o t = SubSeq(s \o t, 3, Len(s \o t))
<1> DEFINE c == s \o t
           a == SubSeq(s, 3, Len(s))
           l == a \o t
           r == SubSeq(c, 3, Len(c))
<1>1. /\ Len(s) \in Nat /\ Len(t) \in Nat
      /\ c \in Seq(S) /\ Len(c) = Len(s) + Len(t)
      /\ \A i \in 1 .. Len(c) : c[i] = IF i <= Len(s) THEN s[i] ELSE t[i - Len(s)]
  OBVIOUS
<1> HIDE DEF c
<1>2. /\ a \in Seq(S) /\ Len(a) = Len(s) - 2 /\ \A i \in 1 .. Len(a) : a[i] = s[i + 2]
  <2> DEFINE n == Len(s)
  <2>1. n \in Nat /\ n >= 2 /\ \A i \in 3 .. n : s[i] \in S
    OBVIOUS
  <2> HIDE DEF n
  <2>2. a \in Seq(S) /\ Len(a) = (IF 3 <= n THEN n - 3 + 1 ELSE 0)
        /\ \A i \in 1 .. n - 3 + 1 : a[i] = s[3 + i - 1]
    BY <2>1, SubSeqProperties DEF n
  <2> HIDE DEF a
  <2>3. Len(a) = n - 2
    BY <2>1, <2>2
  <2>4. \A i \in 1 .. Len(a) : i \in 1 .. n - 3 + 1 /\ 3 + i - 1 = i + 2
    BY <2>1, <2>3
  <2>5. \A i \in 1 .. Len(a) : a[i] = s[i + 2]
    BY <2>2, <2>4
  <2> QED BY <2>2, <2>3, <2>5 DEF n
<1>3. /\ r \in Seq(S) /\ Len(r) = Len(c) - 2 /\ \A i \in 1 .. Len(r) : r[i] = c[i + 2]
  <2> DEFINE n == Len(c)
  <2>1. n \in Nat /\ n >= 2 /\ \A i \in 3 .. n : c[i] \in S
    <3>1. n \in Nat /\ n >= 2
      BY <1>1
    <3> QED BY <1>1, <3>1
  <2> HIDE DEF n
  <2>2. r \in Seq(S) /\ Len(r) = (IF 3 <= n THEN n - 3 + 1 ELSE 0)
        /\ \A i \in 1 .. n - 3 + 1 : r[i] = c[3 + i - 1]
    BY <2>1, SubSeqProperties DEF n
  <2> HIDE DEF r
  <2>3. Len(r) = n - 2
    BY <2>1, <2>2
  <2>4. \A i \in 1 .. Len(r) : i \in 1 .. n - 3 + 1 /\ 3 + i - 1 = i + 2
    BY <2>1, <2>3
  <2>5. \A i \in 1 .. Len(r) : r[i] = c[i + 2]
    BY <2>2, <2>4
  <2> QED BY <2>2, <2>3, <2>5 DEF n
<1> HIDE DEF a, r
<1>4. /\ l \in Seq(S) /\ Len(l) = Len(a) + Len(t)
      /\ \A i \in 1 .. Len(a) + Len(t) :
           l[i] = IF i <= Len(a) THEN a[i] ELSE t[i - Len(a)]
  BY <1>2, ConcatProperties
<1> HIDE DEF l
<1>5. ASSUME NEW i \in 1 .. Len(l) PROVE l[i] = r[i]
  <2>1. /\ i + 2 \in 1 .. Len(c) /\ i \in 1 .. Len(r) /\ i \in 1 .. Len(a) + Len(t)
    BY <1>1, <1>2, <1>3, <1>4
  <2>2. r[i] = IF i + 2 <= Len(s) THEN s[i + 2] ELSE t[(i + 2) - Len(s)]
    BY <1>1, <1>3, <2>1
  <2>3. CASE i <= Len(a)
    <3>1. i + 2 <= Len(s) /\ i \in 1 .. Len(a)
      BY <1>1, <1>2, <2>3
    <3> QED BY <1>2, <1>4, <2>1, <2>2, <2>3, <3>1
  <2>4. CASE ~ (i <= Len(a))
    <3>1. ~ (i + 2 <= Len(s)) /\ (i + 2) - Len(s) = i - Len(a)
      BY <1>1, <1>2, <2>4
    <3> QED BY <1>4, <2>1, <2>2, <2>4, <3>1
  <2> QED BY <2>3, <2>4
<1>6. Len(l) = Len(r)
  BY <1>1, <1>2, <1>3, <1>4
<1>7. l = r
  BY <1>3, <1>4, <1>5, <1>6, SeqEqual
<1> QED BY <1>7 DEF l, r, a, c

-----------------------------------------------------------------------------
(* Sequences whose elements are pairwise different. *)

\* The elements of a concatenation, and when they are different.
LEMMA ConcatDistinct ==
  ASSUME NEW S, NEW s \in Seq(S), NEW t \in Seq(S)
  PROVE  /\ s \o t \in Seq(S)
         /\ ToSet(s \o t) = ToSet(s) \cup ToSet(t)
         /\ IsInjective(s) /\ IsInjective(t) /\ ToSet(s) \cap ToSet(t) = {}
              => IsInjective(s \o t)
<1> DEFINE c == s \o t
<1>1. /\ c \in Seq(S) /\ Len(c) = Len(s) + Len(t)
      /\ \A i \in 1 .. Len(s) : c[i] = s[i]
      /\ \A i \in Len(s) + 1 .. Len(c) : c[i] = t[i - Len(s)]
  OBVIOUS
<1>2. /\ DOMAIN c = 1 .. Len(c) /\ DOMAIN s = 1 .. Len(s) /\ DOMAIN t = 1 .. Len(t)
      /\ Len(s) \in Nat /\ Len(t) \in Nat
  BY <1>1
<1> HIDE DEF c
<1>3. \A j \in 1 .. Len(t) : c[Len(s) + j] = t[j]
  BY <1>1, <1>2
<1>4. ToSet(c) = ToSet(s) \cup ToSet(t)
  <2>1. ASSUME NEW x \in ToSet(c) PROVE x \in ToSet(s) \cup ToSet(t)
    <3>1. PICK i \in 1 .. Len(c) : c[i] = x
      BY <1>2 DEF ToSet
    <3>2. CASE i <= Len(s)
      BY <1>1, <1>2, <3>1, <3>2 DEF ToSet
    <3>3. CASE ~ (i <= Len(s))
      <4>1. i - Len(s) \in 1 .. Len(t) /\ c[i] = t[i - Len(s)]
        BY <1>1, <1>2, <3>3
      <4> QED BY <1>2, <3>1, <4>1 DEF ToSet
    <3> QED BY <3>2, <3>3
  <2>2. ASSUME NEW x \in ToSet(s) PROVE x \in ToSet(c)
    BY <1>1, <1>2 DEF ToSet
  <2>3. ASSUME NEW x \in ToSet(t) PROVE x \in ToSet(c)
    <3>1. PICK j \in 1 .. Len(t) : t[j] = x
      BY <1>2 DEF ToSet
    <3>2. Len(s) + j \in 1 .. Len(c) /\ c[Len(s) + j] = x
      BY <1>1, <1>2, <1>3, <3>1
    <3> QED BY <1>2, <3>2 DEF ToSet
  <2> QED BY <2>1, <2>2, <2>3
<1>5. ASSUME IsInjective(s), IsInjective(t), ToSet(s) \cap ToSet(t) = {}
      PROVE  IsInjective(c)
  <2> SUFFICES ASSUME NEW i \in 1 .. Len(c), NEW j \in 1 .. Len(c), c[i] = c[j], i <= j
               PROVE  i = j
    BY <1>1, <1>2 DEF IsInjective
  <2>1. CASE j <= Len(s)
    <3>1. i \in 1 .. Len(s) /\ j \in 1 .. Len(s)
      BY <1>1, <1>2, <2>1
    <3>2. s[i] = s[j]
      BY <1>1, <3>1
    <3> QED BY <1>2, <1>5, <3>1, <3>2 DEF IsInjective
  <2>2. CASE i > Len(s)
    <3>1. /\ i - Len(s) \in 1 .. Len(t) /\ j - Len(s) \in 1 .. Len(t)
          /\ c[i] = t[i - Len(s)] /\ c[j] = t[j - Len(s)]
      BY <1>1, <1>2, <2>2
    <3>2. i - Len(s) = j - Len(s)
      BY <1>2, <1>5, <3>1 DEF IsInjective
    <3> QED BY <1>1, <1>2, <3>2
  <2>3. CASE i <= Len(s) /\ j > Len(s)
    <3>1. c[i] \in ToSet(s)
      <4>1. i \in 1 .. Len(s)
        BY <1>1, <1>2, <2>3
      <4> QED BY <1>1, <1>2, <4>1 DEF ToSet
    <3>2. j - Len(s) \in 1 .. Len(t) /\ c[j] = t[j - Len(s)]
      BY <1>1, <1>2, <2>3
    <3>3. c[j] \in ToSet(t)
      BY <1>2, <3>2 DEF ToSet
    <3> QED BY <1>5, <3>1, <3>3
  <2> QED BY <1>1, <1>2, <2>1, <2>2, <2>3
<1> QED BY <1>1, <1>4, <1>5 DEF c

\* Prepending an element that is not there.
LEMMA ConsDistinct ==
  ASSUME NEW S, NEW s \in Seq(S), NEW x \in S, x \notin ToSet(s), IsInjective(s)
  PROVE  /\ Cons(x, s) \in Seq(S) /\ IsInjective(Cons(x, s))
         /\ ToSet(Cons(x, s)) = ToSet(s) \cup {x}
<1> DEFINE w == <<x>>
<1>1. w \in Seq(S) /\ ToSet(w) = {x} /\ IsInjective(w) /\ Cons(x, s) = w \o s
  BY DEF ToSet, IsInjective, Cons
<1> HIDE DEF w
<1>2. ToSet(w) \cap ToSet(s) = {}
  BY <1>1
<1>3. w \o s \in Seq(S) /\ IsInjective(w \o s) /\ ToSet(w \o s) = ToSet(w) \cup ToSet(s)
  BY <1>1, <1>2, ConcatDistinct
<1> QED BY <1>1, <1>3

\* Taking out one of the elements.
LEMMA RemoveDistinct ==
  ASSUME NEW S, NEW s \in Seq(S), NEW x \in ToSet(s), IsInjective(s)
  PROVE  /\ RemoveFirst(s, x) \in Seq(S) /\ IsInjective(RemoveFirst(s, x))
         /\ ToSet(RemoveFirst(s, x)) = ToSet(s) \ {x}
<1>1. PICK p \in 1 .. Len(s) : s[p] = x
  BY DEF ToSet
<1>2. {i \in 1 .. Len(s) : s[i] = x} = {p}
  BY <1>1 DEF IsInjective
<1>3. SelectInSeq(s, LAMBDA v : v = x) = p
  BY <1>1, <1>2 DEF SelectInSeq, Min
<1>4. RemoveFirst(s, x) = SubSeq(s, 1, p - 1) \o SubSeq(s, p + 1, Len(s))
  BY <1>1, <1>3 DEF RemoveFirst, RemoveAt
<1> DEFINE a == SubSeq(s, 1, p - 1)
           b == SubSeq(s, p + 1, Len(s))
<1>5. /\ a \in Seq(S) /\ Len(a) = p - 1 /\ \A i \in 1 .. p - 1 : a[i] = s[i]
  OBVIOUS
<1>6. /\ b \in Seq(S) /\ Len(b) = Len(s) - p
      /\ \A i \in 1 .. Len(s) - p : b[i] = s[p + i]
  OBVIOUS
<1> HIDE DEF a, b
<1>7. ToSet(a) = {s[i] : i \in 1 .. p - 1}
  BY <1>5, SMTT(30) DEF ToSet
<1>8. ToSet(b) = {s[i] : i \in p + 1 .. Len(s)}
  <2>1. ASSUME NEW y \in ToSet(b) PROVE y \in {s[i] : i \in p + 1 .. Len(s)}
    <3>1. PICK i \in 1 .. Len(s) - p : b[i] = y
      BY <1>6 DEF ToSet
    <3>2. p + i \in p + 1 .. Len(s)
      BY <3>1
    <3> QED BY <1>6, <3>1, <3>2
  <2>2. ASSUME NEW i \in p + 1 .. Len(s) PROVE s[i] \in ToSet(b)
    <3>1. i - p \in 1 .. Len(s) - p /\ p + (i - p) = i
      OBVIOUS
    <3>2. b[i - p] = s[i]
      BY <1>6, <3>1
    <3> QED BY <1>6, <3>1, <3>2 DEF ToSet
  <2> QED BY <2>1, <2>2
<1>9. IsInjective(a) /\ IsInjective(b)
  <2>1. IsInjective(a)
    BY <1>5 DEF IsInjective
  <2>2. ASSUME NEW i \in 1 .. Len(s) - p, NEW j \in 1 .. Len(s) - p, b[i] = b[j]
        PROVE  i = j
    <3>1. p + i \in 1 .. Len(s) /\ p + j \in 1 .. Len(s) /\ s[p + i] = s[p + j]
      BY <1>6, <2>2
    <3>2. p + i = p + j
      BY <3>1 DEF IsInjective
    <3> QED BY <3>2
  <2> QED BY <1>6, <2>1, <2>2 DEF IsInjective
<1>10. ToSet(a) \cap ToSet(b) = {}
  BY <1>7, <1>8 DEF IsInjective
<1>11. ToSet(a) \cup ToSet(b) = ToSet(s) \ {x}
  <2>1. ToSet(s) = {s[i] : i \in 1 .. Len(s)}
    BY DEF ToSet
  <2>2. \A i \in 1 .. Len(s) : i = p <=> s[i] = x
    BY <1>1 DEF IsInjective
  <2>3. 1 .. Len(s) = (1 .. p - 1) \cup {p} \cup (p + 1 .. Len(s))
    OBVIOUS
  <2>4. p \notin 1 .. p - 1 /\ p \notin p + 1 .. Len(s)
    OBVIOUS
  <2>5. ASSUME NEW y \in ToSet(a) \cup ToSet(b) PROVE y \in ToSet(s) \ {x}
    <3>1. PICK i \in (1 .. p - 1) \cup (p + 1 .. Len(s)) : y = s[i]
      BY <1>7, <1>8
    <3> QED BY <2>1, <2>2, <2>3, <2>4, <3>1
  <2>6. ASSUME NEW y \in ToSet(s) \ {x} PROVE y \in ToSet(a) \cup ToSet(b)
    <3>1. PICK i \in 1 .. Len(s) : y = s[i] /\ i # p
      BY <1>1, <2>1
    <3> QED BY <1>7, <1>8, <2>3, <3>1
  <2> QED BY <2>5, <2>6
<1>12. RemoveFirst(s, x) = a \o b
  BY <1>4 DEF a, b
<1>13. /\ a \o b \in Seq(S) /\ IsInjective(a \o b)
       /\ ToSet(a \o b) = ToSet(a) \cup ToSet(b)
  BY <1>5, <1>6, <1>9, <1>10, ConcatDistinct
<1> QED BY <1>11, <1>12, <1>13, Zenon

-----------------------------------------------------------------------------
(* FlattenSeq. *)

\* The equation that the loop of FlattenSeq solves, for the first n of seqs.
IsFlatten(g, seqs, n) ==
  g = [i \in 1 .. n |-> IF i = 1 THEN seqs[i] ELSE g[i - 1] \o seqs[i]]

\* It has a solution for every n.
LEMMA FlattenExists ==
  ASSUME NEW seqs, NEW n \in Nat
  PROVE  \E g : IsFlatten(g, seqs, n)
<1> DEFINE T == {k \in Nat : ~ \E g : IsFlatten(g, seqs, k)}
<1> SUFFICES ASSUME T # {} PROVE FALSE
  OBVIOUS
<1>1. PICK k \in T : \A y \in T : k <= y
  <2>1. T \in SUBSET Nat
    OBVIOUS
  <2> HIDE DEF T
  <2> QED BY <2>1, LeastNat
<1>2. k \in Nat /\ ~ \E g : IsFlatten(g, seqs, k)
  OBVIOUS
<1>3. CASE k = 0
  <2> DEFINE z == [i \in 1 .. 0 |-> <<>>]
  <2>1. IsFlatten(z, seqs, 0)
    BY DEF IsFlatten
  <2> QED BY <1>2, <1>3, <2>1
<1>4. CASE k # 0
  <2>1. k - 1 \in Nat /\ ~ (k <= k - 1)
    BY <1>2, <1>4
  <2>2. k - 1 \notin T
    BY <1>1, <2>1
  <2>3. PICK g : IsFlatten(g, seqs, k - 1)
    BY <2>1, <2>2
  <2> DEFINE h == [i \in 1 .. k |-> IF i < k THEN g[i]
                    ELSE IF i = 1 THEN seqs[i] ELSE g[i - 1] \o seqs[i]]
  <2>4. ASSUME NEW i \in 1 .. k
        PROVE  h[i] = IF i = 1 THEN seqs[i] ELSE h[i - 1] \o seqs[i]
    <3>1. CASE i < k
      <4>1. i \in 1 .. k - 1
        BY <1>2, <3>1
      <4>2. g[i] = IF i = 1 THEN seqs[i] ELSE g[i - 1] \o seqs[i]
        BY <2>3, <4>1 DEF IsFlatten
      <4>3. i # 1 => h[i - 1] = g[i - 1]
        BY <1>2, <3>1
      <4> QED BY <3>1, <4>2, <4>3
    <3>2. CASE i = k
      <4>1. i # 1 => h[i - 1] = g[i - 1]
        BY <1>2, <3>2
      <4> QED BY <1>2, <3>2, <4>1
    <3> QED BY <1>2, <3>1, <3>2
  <2>5. h = [i \in 1 .. k |-> IF i = 1 THEN seqs[i] ELSE h[i - 1] \o seqs[i]]
    <3>1. h = [i \in 1 .. k |-> h[i]]
      OBVIOUS
    <3> HIDE DEF h
    <3> QED BY <2>4, <3>1
  <2> HIDE DEF h
  <2>6. IsFlatten(h, seqs, k)
    BY <2>5 DEF IsFlatten
  <2> QED BY <1>2, <2>6
<1> QED BY <1>3, <1>4

\* So FlattenSeq is the last value of a solution.
LEMMA FlattenValue ==
  ASSUME NEW S, NEW seqs \in Seq(S), Len(seqs) # 0
  PROVE  \E g : IsFlatten(g, seqs, Len(seqs)) /\ FlattenSeq(seqs) = g[Len(seqs)]
<1> DEFINE f == CHOOSE g : g = [i \in 1 .. Len(seqs) |->
                    IF i = 1 THEN seqs[i] ELSE g[i - 1] \o seqs[i]]
<1>1. Len(seqs) \in Nat
  OBVIOUS
<1>2. \E g : g = [i \in 1 .. Len(seqs) |->
                    IF i = 1 THEN seqs[i] ELSE g[i - 1] \o seqs[i]]
  BY <1>1, FlattenExists, Zenon DEF IsFlatten
<1>3. IsFlatten(f, seqs, Len(seqs))
  BY <1>2, Zenon DEF IsFlatten
<1>4. FlattenSeq(seqs) = f[Len(seqs)]
  BY Zenon DEF FlattenSeq
<1> QED BY <1>3, <1>4

\* The elements of a flattened sequence, which are different if those of its
\* parts are and the parts have none in common.
LEMMA FlattenDistinct ==
  ASSUME NEW S, NEW seqs \in Seq(Seq(S)),
         \A i \in 1 .. Len(seqs) : IsInjective(seqs[i]),
         \A i, j \in 1 .. Len(seqs) : i # j => ToSet(seqs[i]) \cap ToSet(seqs[j]) = {}
  PROVE  /\ FlattenSeq(seqs) \in Seq(S) /\ IsInjective(FlattenSeq(seqs))
         /\ ToSet(FlattenSeq(seqs)) = UNION {ToSet(seqs[i]) : i \in 1 .. Len(seqs)}
<1>1. CASE Len(seqs) = 0
  <2>1. seqs = <<>> /\ FlattenSeq(seqs) = <<>>
    <3>1. seqs = <<>>
      BY <1>1
    <3>2. FlattenSeq(seqs) = seqs
      BY <1>1 DEF FlattenSeq
    <3> QED BY <3>1, <3>2
  <2>2. ToSet(<<>>) = {} /\ IsInjective(<<>>) /\ <<>> \in Seq(S)
    BY DEF ToSet, IsInjective
  <2>3. 1 .. Len(seqs) = {}
    BY <1>1
  <2> QED BY <2>1, <2>2, <2>3
<1>2. CASE Len(seqs) # 0
  <2>1. PICK g : IsFlatten(g, seqs, Len(seqs)) /\ FlattenSeq(seqs) = g[Len(seqs)]
    BY <1>2, FlattenValue
  <2> DEFINE n == Len(seqs)
             U(k) == UNION {ToSet(seqs[i]) : i \in 1 .. k}
             P(k) == g[k] \in Seq(S) /\ IsInjective(g[k]) /\ ToSet(g[k]) = U(k)
             T == {k \in 1 .. n : ~ P(k)}
  <2>2. n \in Nat /\ n \in 1 .. n
    BY <1>2
  <2>3. \A k \in 1 .. n : g[k] = IF k = 1 THEN seqs[k] ELSE g[k - 1] \o seqs[k]
    BY <2>1 DEF IsFlatten
  <2>4. \A k \in 1 .. n : seqs[k] \in Seq(S) /\ IsInjective(seqs[k])
    OBVIOUS
  <2>5. T = {}
    <3> SUFFICES ASSUME T # {} PROVE FALSE
      OBVIOUS
    <3>1. PICK k \in T : \A y \in T : k <= y
      <4>1. T \in SUBSET Nat
        BY <2>2
      <4> HIDE DEF T
      <4> QED BY <4>1, LeastNat
    <3>2. k \in 1 .. n /\ ~ P(k)
      OBVIOUS
    <3>3. CASE k = 1
      <4>1. g[k] = seqs[1] /\ U(1) = ToSet(seqs[1])
        <5>1. 1 .. 1 = {1}
          OBVIOUS
        <5> QED BY <2>3, <3>2, <3>3, <5>1
      <4> QED BY <2>4, <3>2, <3>3, <4>1
    <3>4. CASE k # 1
      <4> HIDE DEF P
      <4>1. k - 1 \in 1 .. n /\ ~ (k <= k - 1)
        BY <2>2, <3>2, <3>4
      <4> USE DEF P
      <4>2. P(k - 1)
        BY <3>1, <4>1
      <4>3. g[k] = g[k - 1] \o seqs[k]
        BY <2>3, <3>2, <3>4
      <4>4. ToSet(g[k - 1]) \cap ToSet(seqs[k]) = {}
        <5>1. \A i \in 1 .. k - 1 : i \in 1 .. n /\ i # k
          BY <3>2, SMTT(30)
        <5>2. U(k - 1) \cap ToSet(seqs[k]) = {}
          BY <3>2, <5>1
        <5> QED BY <4>2, <5>2
      <4>5. /\ g[k] \in Seq(S) /\ IsInjective(g[k])
            /\ ToSet(g[k]) = ToSet(g[k - 1]) \cup ToSet(seqs[k])
        <5>1. /\ g[k - 1] \in Seq(S) /\ IsInjective(g[k - 1])
              /\ seqs[k] \in Seq(S) /\ IsInjective(seqs[k])
          BY <2>4, <3>2, <4>2
        <5> DEFINE a == g[k - 1]
                   b == seqs[k]
        <5>2. a \in Seq(S) /\ b \in Seq(S) /\ IsInjective(a) /\ IsInjective(b)
                /\ ToSet(a) \cap ToSet(b) = {}
          BY <4>4, <5>1
        <5> HIDE DEF a, b
        <5>3. /\ a \o b \in Seq(S) /\ IsInjective(a \o b)
              /\ ToSet(a \o b) = ToSet(a) \cup ToSet(b)
          BY <5>2, ConcatDistinct
        <5>4. g[k] = a \o b
          BY <4>3 DEF a, b
        <5> QED BY <5>3, <5>4 DEF a, b
      <4>6. U(k) = U(k - 1) \cup ToSet(seqs[k])
        <5>1. 1 .. k = (1 .. k - 1) \cup {k}
          BY <3>2
        <5> QED BY <5>1
      <4> QED BY <3>2, <4>2, <4>5, <4>6
    <3> QED BY <3>3, <3>4
  <2>6. P(n)
    BY <2>2, <2>5
  <2> QED BY <2>1, <2>6
<1> QED BY <1>1, <1>2

\* f[i] is the concatenation of the first i of seqs.
Flattens(f, seqs) ==
  f[0] = <<>> /\ \A i \in 1 .. Len(seqs) : f[i] = f[i - 1] \o seqs[i]

\* FlattenSeq is the last of these.
LEMMA FlattenByParts ==
  ASSUME NEW S, NEW seqs \in Seq(Seq(S))
  PROVE  \E f \in [0 .. Len(seqs) -> Seq(S)] :
           Flattens(f, seqs) /\ FlattenSeq(seqs) = f[Len(seqs)]
<1> DEFINE n == Len(seqs)
<1>1. n \in Nat /\ \A i \in 1 .. n : seqs[i] \in Seq(S)
  OBVIOUS
<1>2. CASE n = 0
  <2> DEFINE f == [i \in 0 .. 0 |-> <<>>]
  <2>1. f \in [0 .. n -> Seq(S)] /\ Flattens(f, seqs) /\ f[n] = <<>>
    BY <1>2 DEF Flattens
  <2>2. FlattenSeq(seqs) = <<>>
    <3>1. seqs = <<>>
      BY <1>2
    <3> QED BY <1>2, <3>1 DEF FlattenSeq
  <2> HIDE DEF f
  <2> QED BY <2>1, <2>2
<1>3. CASE n # 0
  <2>1. PICK g : IsFlatten(g, seqs, n) /\ FlattenSeq(seqs) = g[n]
    BY <1>3, FlattenValue
  <2> DEFINE f == [i \in 0 .. n |-> IF i = 0 THEN <<>> ELSE g[i]]
  <2>2. \A i \in 1 .. n : g[i] = IF i = 1 THEN seqs[i] ELSE g[i - 1] \o seqs[i]
    BY <2>1 DEF IsFlatten
  <2> HIDE DEF n
  <2>3. f[0] = <<>> /\ \A i \in 1 .. n : f[i] = g[i]
    BY <1>1
  <2>4. ASSUME NEW i \in 1 .. n PROVE f[i] = f[i - 1] \o seqs[i]
    <3>1. CASE i = 1
      <4> DEFINE s == seqs[1]
      <4>1. s \in Seq(S) /\ f[i] = s /\ f[i - 1] = <<>> /\ seqs[i] = s
        BY <1>1, <2>2, <2>3, <3>1
      <4> HIDE DEF s, f
      <4>2. s = <<>> \o s
        BY <4>1
      <4> QED BY <4>1, <4>2
    <3>2. CASE i # 1
      <4>1. i - 1 \in 1 .. n
        BY <1>1, <3>2
      <4> QED BY <2>2, <2>3, <3>2, <4>1
    <3> QED BY <3>1, <3>2
  <2> DEFINE P == {i \in 0 .. n : f[i] \in Seq(S)}
  <2>5. f = [i \in 0 .. n |-> f[i]]
    OBVIOUS
  <2> HIDE DEF f
  <2>6. \A i \in 0 .. n : i \in P
    <3>1. 0 \in P
      <4>1. <<>> \in Seq(S) /\ 0 \in 0 .. n
        BY <1>1
      <4> QED BY <2>3, <4>1
    <3>2. ASSUME NEW i \in 1 .. n, i - 1 \in P PROVE i \in P
      <4>1. f[i - 1] \in Seq(S) /\ seqs[i] \in Seq(S)
        BY <1>1, <3>2
      <4>2. f[i - 1] \o seqs[i] \in Seq(S)
        BY <4>1
      <4>3. f[i] \in Seq(S)
        BY <2>4, <4>2, Zenon
      <4> QED BY <1>1, <4>3
    <3> HIDE DEF P
    <3> QED BY <1>1, <3>1, <3>2, UpToInduction
  <2>7. f \in [0 .. n -> Seq(S)]
    BY <2>5, <2>6
  <2>8. Flattens(f, seqs)
    BY <2>3, <2>4 DEF Flattens, n
  <2>9. FlattenSeq(seqs) = f[n]
    <3>1. n \in 1 .. n
      BY <1>1, <1>3
    <3> QED BY <2>1, <2>3, <3>1
  <2> QED BY <2>7, <2>8, <2>9 DEF n
<1> QED BY <1>2, <1>3

\* And nothing else is.
LEMMA FlattenIs ==
  ASSUME NEW S, NEW seqs \in Seq(Seq(S)), NEW f, Flattens(f, seqs)
  PROVE  FlattenSeq(seqs) = f[Len(seqs)] /\ FlattenSeq(seqs) \in Seq(S)
<1> DEFINE n == Len(seqs)
<1>1. PICK g \in [0 .. n -> Seq(S)] : Flattens(g, seqs) /\ FlattenSeq(seqs) = g[n]
  BY FlattenByParts
<1>2. n \in Nat /\ n \in 0 .. n
  OBVIOUS
<1> DEFINE P == {i \in 0 .. n : f[i] = g[i]}
<1>3. 0 \in P
  BY <1>1, <1>2 DEF Flattens
<1>4. ASSUME NEW i \in 1 .. n, i - 1 \in P PROVE i \in P
  <2>1. f[i - 1] = g[i - 1] /\ i \in 0 .. n
    BY <1>2, <1>4
  <2>2. f[i] = f[i - 1] \o seqs[i] /\ g[i] = g[i - 1] \o seqs[i]
    BY <1>1 DEF Flattens
  <2>3. f[i] = g[i]
    BY <2>1, <2>2
  <2> QED BY <2>1, <2>3
<1> HIDE DEF P, n
<1>5. \A i \in 0 .. n : i \in P
  BY <1>2, <1>3, <1>4, UpToInduction
<1>6. f[n] = g[n]
  BY <1>2, <1>5 DEF P
<1> QED BY <1>1, <1>2, <1>6 DEF n

\* One more sequence at the end.
LEMMA FlattenAppend ==
  ASSUME NEW S, NEW seqs \in Seq(Seq(S)), NEW x \in Seq(S)
  PROVE  FlattenSeq(Append(seqs, x)) = FlattenSeq(seqs) \o x
<1> DEFINE n == Len(seqs)
           a == Append(seqs, x)
<1>1. PICK f \in [0 .. n -> Seq(S)] : Flattens(f, seqs) /\ FlattenSeq(seqs) = f[n]
  BY FlattenByParts
<1>2. /\ n \in Nat /\ a \in Seq(Seq(S)) /\ Len(a) = n + 1
      /\ \A i \in 1 .. n : a[i] = seqs[i]
  OBVIOUS
<1>3. a[n + 1] = x
  OBVIOUS
<1> DEFINE g == [i \in 0 .. n + 1 |-> IF i <= n THEN f[i] ELSE f[n] \o x]
<1> HIDE DEF a
<1>4. g[n + 1] = f[n] \o x /\ \A i \in 0 .. n : g[i] = f[i]
  BY <1>2
<1> HIDE DEF g
<1>5. Flattens(g, a)
  <2>1. g[0] = <<>>
    BY <1>1, <1>2, <1>4 DEF Flattens
  <2>2. ASSUME NEW i \in 1 .. n + 1 PROVE g[i] = g[i - 1] \o a[i]
    <3>1. CASE i = n + 1
      <4>1. i - 1 = n /\ n \in 0 .. n
        BY <1>2, <3>1
      <4> QED BY <1>3, <1>4, <3>1, <4>1
    <3>2. CASE i # n + 1
      <4>1. i \in 1 .. n /\ i \in 0 .. n /\ i - 1 \in 0 .. n
        BY <1>2, <3>2
      <4> QED BY <1>1, <1>2, <1>4, <4>1 DEF Flattens
    <3> QED BY <3>1, <3>2
  <2> QED BY <1>2, <2>1, <2>2 DEF Flattens
<1>6. FlattenSeq(a) = g[n + 1]
  BY <1>2, <1>5, FlattenIs
<1> QED BY <1>1, <1>4, <1>6 DEF a

\* The items of a sequence without its first.
LEMMA TailItems ==
  ASSUME NEW S, NEW s \in Seq(S), Len(s) # 0
  PROVE  LET t == SubSeq(s, 2, Len(s))
         IN  /\ t \in Seq(S) /\ Len(t) = Len(s) - 1
             /\ \A i \in 1 .. Len(s) - 1 : t[i] = s[i + 1]
<1> DEFINE t == SubSeq(s, 2, Len(s))
<1>1. Len(s) \in Nat /\ \A i \in 2 .. Len(s) : s[i] \in S
  OBVIOUS
<1>2. /\ t \in Seq(S) /\ Len(t) = IF 2 <= Len(s) THEN Len(s) - 2 + 1 ELSE 0
      /\ \A i \in 1 .. Len(s) - 2 + 1 : t[i] = s[2 + i - 1]
  BY <1>1, SubSeqProperties
<1> HIDE DEF t
<1>3. Len(t) = Len(s) - 1
  <2> DEFINE n == Len(s)
  <2>1. n \in Nat /\ n # 0 /\ Len(t) = IF 2 <= n THEN n - 2 + 1 ELSE 0
    BY <1>1, <1>2
  <2> HIDE DEF n
  <2>2. Len(t) = n - 1
    BY <2>1
  <2> QED BY <2>2 DEF n
<1>4. \A i \in 1 .. Len(s) - 1 : t[i] = s[i + 1]
  <2> TAKE i \in 1 .. Len(s) - 1
  <2>1. i \in 1 .. Len(s) - 2 + 1 /\ 2 + i - 1 = i + 1
    BY <1>1
  <2> QED BY <1>2, <2>1
<1> QED BY <1>2, <1>3, <1>4 DEF t

\* One more sequence at the front.
LEMMA FlattenCons ==
  ASSUME NEW S, NEW seqs \in Seq(Seq(S)), Len(seqs) # 0
  PROVE  FlattenSeq(seqs) = seqs[1] \o FlattenSeq(SubSeq(seqs, 2, Len(seqs)))
<1> DEFINE n == Len(seqs)
           t == SubSeq(seqs, 2, n)
           x == seqs[1]
<1>1. /\ n \in Nat /\ t \in Seq(Seq(S)) /\ Len(t) = n - 1 /\ x \in Seq(S)
      /\ \A i \in 1 .. n : seqs[i] \in Seq(S)
  <2>1. t \in Seq(Seq(S)) /\ Len(t) = n - 1
    BY TailItems
  <2>2. n \in Nat /\ x \in Seq(S) /\ \A i \in 1 .. n : seqs[i] \in Seq(S)
    OBVIOUS
  <2> QED BY <2>1, <2>2
<1>2. \A i \in 1 .. n - 1 : t[i] = seqs[i + 1]
  BY TailItems
<1> HIDE DEF t, x
<1>3. PICK f \in [0 .. n - 1 -> Seq(S)] : Flattens(f, t) /\ FlattenSeq(t) = f[n - 1]
  BY <1>1, FlattenByParts
<1> DEFINE g == [i \in 0 .. n |-> IF i = 0 THEN <<>> ELSE x \o f[i - 1]]
<1>4. g[0] = <<>> /\ \A i \in 1 .. n : g[i] = x \o f[i - 1]
  BY <1>1
<1> HIDE DEF g, x, n
<1>5. ASSUME NEW i \in 1 .. n PROVE g[i] = g[i - 1] \o seqs[i]
  <2>1. CASE i = 1
    <3>1. f[0] = <<>> /\ g[0] = <<>> /\ i - 1 = 0
      BY <1>3, <1>4, <2>1 DEF Flattens
    <3>2. seqs[i] = x
      BY <2>1 DEF x
    <3>3. g[i] = x \o f[i - 1]
      BY <1>4
    <3>4. x \o <<>> = x /\ <<>> \o x = x
      <4>1. x \in Seq(S)
        BY <1>1
      <4> QED BY <4>1
    <3> QED BY <3>1, <3>2, <3>3, <3>4
  <2>2. CASE i # 1
    <3>1. i - 1 \in 1 .. n - 1 /\ i - 1 \in 1 .. n /\ i - 2 \in 0 .. n - 1
            /\ i - 1 + 1 = i /\ i - 1 - 1 = i - 2
      BY <1>1, <2>2
    <3> DEFINE y == f[i - 2]
               z == seqs[i]
    <3>2. y \in Seq(S) /\ z \in Seq(S)
      BY <1>1, <3>1
    <3>3. f[i - 1] = y \o z
      BY <1>1, <1>2, <1>3, <3>1 DEF Flattens
    <3>4. g[i] = x \o f[i - 1] /\ g[i - 1] = x \o y
      BY <1>4, <3>1
    <3> HIDE DEF y, z
    <3>5. x \o (y \o z) = (x \o y) \o z
      <4>1. x \in Seq(S)
        BY <1>1
      <4>2. y \in Seq(S) /\ z \in Seq(S)
        BY <3>2
      <4> QED BY ONLY <4>1, <4>2, ConcatThree, SMTT(30)
    <3>6. g[i] = g[i - 1] \o z
      BY <3>3, <3>4, <3>5
    <3> QED BY <3>6 DEF z
  <2> QED BY <2>1, <2>2
<1>6. Flattens(g, seqs)
  BY <1>4, <1>5 DEF Flattens, n
<1>7. FlattenSeq(seqs) = g[n]
  BY <1>6, FlattenIs DEF n
<1>8. g[n] = x \o f[n - 1]
  <2>1. n \in 1 .. n
    BY <1>1 DEF n
  <2> QED BY <1>4, <2>1
<1> QED BY <1>3, <1>7, <1>8 DEF x, t, n

\* What is flattened begins with each of its first parts.
LEMMA FlattenSplit ==
  ASSUME NEW S, NEW seqs \in Seq(Seq(S)), NEW h \in [0 .. Len(seqs) -> Seq(S)],
         Flattens(h, seqs), NEW i \in 0 .. Len(seqs)
  PROVE  \E z \in Seq(S) : h[Len(seqs)] = h[i] \o z
<1> DEFINE n == Len(seqs)
           P == {m \in 0 .. n - i : \E z \in Seq(S) : h[i + m] = h[i] \o z}
<1>1. n \in Nat /\ n - i \in Nat /\ h[i] \in Seq(S) /\ i + (n - i) = n /\ i + 0 = i
  OBVIOUS
<1> HIDE DEF n
<1>2. 0 \in P
  <2> DEFINE x == h[i]
  <2>1. x \in Seq(S)
    BY <1>1
  <2> HIDE DEF x
  <2>2. x = x \o <<>> /\ <<>> \in Seq(S)
    BY <2>1
  <2>3. 0 \in 0 .. n - i /\ h[i + 0] = h[i]
    BY <1>1
  <2> QED BY <2>2, <2>3 DEF x
<1>3. ASSUME NEW m \in 1 .. n - i, m - 1 \in P PROVE m \in P
  <2>1. PICK z \in Seq(S) : h[i + (m - 1)] = h[i] \o z
    BY <1>3
  <2>2. i + m \in 1 .. n /\ i + m - 1 = i + (m - 1) /\ m \in 0 .. n - i
    BY <1>1
  <2>3. \A k \in 1 .. n : h[k] = h[k - 1] \o seqs[k] /\ seqs[k] \in Seq(S)
    <3>1. \A k \in 1 .. n : h[k] = h[k - 1] \o seqs[k]
      BY Zenon DEF Flattens, n
    <3>2. \A k \in 1 .. n : seqs[k] \in Seq(S)
      BY DEF n
    <3> QED BY <3>1, <3>2, Zenon
  <2> HIDE DEF P
  <2>4. PICK k \in 1 .. n : k = i + m /\ k - 1 = i + (m - 1)
    BY <2>2
  <2> DEFINE x == h[i]
             y == seqs[k]
  <2>5. h[k] = (x \o z) \o y /\ y \in Seq(S) /\ x \in Seq(S)
    BY <1>1, <2>1, <2>3, <2>4
  <2> HIDE DEF x, y
  <2>6. h[k] = x \o (z \o y)
    <3>1. x \in Seq(S) /\ z \in Seq(S) /\ y \in Seq(S)
      BY <2>3, <2>5
    <3>2. x \o (z \o y) = (x \o z) \o y
      BY ONLY <3>1, ConcatThree, SMTT(30)
    <3> QED BY ONLY <2>5, <3>2
  <2>7. z \o y \in Seq(S)
    BY <2>5
  <2> QED BY <2>2, <2>4, <2>6, <2>7 DEF x, P
<1> HIDE DEF P
<1>4. \A m \in 0 .. n - i : m \in P
  BY <1>1, <1>2, <1>3, UpToInduction
<1>5. n - i \in P
  BY <1>1, <1>4
<1>6. \E z \in Seq(S) : h[n] = h[i] \o z
  BY <1>1, <1>5 DEF P
<1> QED BY <1>6 DEF n

\* The items of two joined sequences.
LEMMA ConcatItems ==
  ASSUME NEW S, NEW a \in Seq(S), NEW b \in Seq(S)
  PROVE  /\ Len(a \o b) = Len(a) + Len(b) /\ \A i \in 1 .. Len(a) : (a \o b)[i] = a[i]
         /\ \A i \in 1 .. Len(b) : (a \o b)[Len(a) + i] = b[i]
OBVIOUS

\* Two ways to join c, cut at the same place.
LEMMA SameParts ==
  ASSUME NEW S, NEW a \in Seq(S), NEW b \in Seq(S), NEW x \in Seq(S), NEW y \in Seq(S),
         NEW c, c = a \o b, c = x \o y, Len(a) = Len(x)
  PROVE  a = x /\ b = y
<1>1. /\ Len(c) = Len(a) + Len(b) /\ \A i \in 1 .. Len(a) : c[i] = a[i]
      /\ \A i \in 1 .. Len(b) : c[Len(a) + i] = b[i]
  <2>1. c = a \o b
    OBVIOUS
  <2> QED BY ONLY <2>1, a \in Seq(S), b \in Seq(S), ConcatItems
<1>2. /\ Len(c) = Len(x) + Len(y) /\ \A i \in 1 .. Len(x) : c[i] = x[i]
      /\ \A i \in 1 .. Len(y) : c[Len(x) + i] = y[i]
  <2>1. c = x \o y
    OBVIOUS
  <2> QED BY ONLY <2>1, x \in Seq(S), y \in Seq(S), ConcatItems
<1>3. Len(a) \in Nat /\ Len(b) \in Nat /\ Len(y) \in Nat
  OBVIOUS
<1>4. Len(b) = Len(y)
  BY <1>1, <1>2, <1>3
<1>5. a = x
  <2>1. \A i \in 1 .. Len(a) : a[i] = x[i]
    BY <1>1, <1>2
  <2> QED BY <2>1, SeqEqual
<1>6. b = y
  <2>1. \A i \in 1 .. Len(b) : b[i] = y[i]
    BY <1>1, <1>2, <1>4
  <2> QED BY <1>4, <2>1, SeqEqual
<1> QED BY <1>5, <1>6

\* The same without a name for what is joined.
LEMMA ConcatCancel ==
  ASSUME NEW S, NEW a \in Seq(S), NEW b \in Seq(S), NEW x \in Seq(S), NEW y \in Seq(S),
         a \o b = x \o y, Len(a) = Len(x)
  PROVE  a = x /\ b = y
<1> DEFINE c == a \o b
<1>1. c = a \o b /\ c = x \o y
  OBVIOUS
<1> HIDE DEF c
<1> QED BY ONLY <1>1, Len(a) = Len(x), a \in Seq(S), b \in Seq(S), x \in Seq(S),
               y \in Seq(S), SameParts, ZenonT(30)
=============================================================================
