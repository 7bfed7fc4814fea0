----------------------------- MODULE DataLemmas -----------------------------
(***************************************************************************)
(* Facts about numbers, sequences and linked lists that the proofs about   *)
(* several modules rest on.                                                *)
(***************************************************************************)
EXTENDS Lists, SequencesExt, FiniteSetTheorems, SequenceTheorems, WellFoundedInduction,
        TLAPS

-----------------------------------------------------------------------------
(***************************************************************************)
(* Induction.  The theorems of the library that take a predicate as their  *)
(* parameter cannot be used here; LeastOf, with the set of the numbers for *)
(* which a claim fails, does the same.                                     *)
(***************************************************************************)

\* A set of numbers that is not empty has a least element: there is a lowest free
\* descriptor, and a claim that fails fails for a first time.
LEMMA LeastOf ==
  ASSUME NEW T, T \subseteq Nat, T # {}
  PROVE  \E n \in T : \A m \in T : n <= m
<1> DEFINE D == FiniteSubsetsOf(Nat)
           R == StrictSubsetOrdering(Nat)
           W == {0 .. n : n \in T}
<1>1. IsWellFoundedOn(R, D)
  BY FS_StrictSubsetOrderingWellFounded
<1>2. W \subseteq D /\ W # {}
  <2>1. ASSUME NEW n \in T PROVE 0 .. n \in D
    <3>1. IsFiniteSet(0 .. n)
      BY FS_Interval
    <3>2. 0 .. n \in SUBSET Nat
      OBVIOUS
    <3> QED  BY <3>1, <3>2 DEF FiniteSubsetsOf
  <2> QED  BY <2>1
<1>3. \E x \in W : \A y \in W : ~ (<<y, x>> \in R)
  <2> HIDE DEF R, D, W
  <2> QED  BY <1>1, <1>2, WFMin
<1>4. PICK n \in T : \A m \in T : ~ (<<0 .. m, 0 .. n>> \in R)
  BY <1>3
<1>5. ASSUME NEW m \in T, m < n PROVE FALSE
  <2>1. 0 .. m \subseteq 0 .. n /\ n \notin 0 .. m /\ n \in 0 .. n
    BY <1>5
  <2>2. 0 .. m \in SUBSET Nat /\ 0 .. n \in SUBSET Nat /\ 0 .. m # 0 .. n
    BY <2>1
  <2>3. <<0 .. m, 0 .. n>> \in R
    BY <2>1, <2>2 DEF StrictSubsetOrdering
  <2> QED  BY <2>3, <1>4
<1> QED  BY <1>5

\* What holds of 0, and of n + 1 if it holds of n, holds up to any number.
LEMMA UpTo ==
  ASSUME NEW n \in Nat, NEW G,
         0 \in G, \A m \in 0 .. n - 1 : m \in G => m + 1 \in G
  PROVE  \A m \in 0 .. n : m \in G
<1> DEFINE B == {m \in 0 .. n : m \notin G}
<1>1. SUFFICES ASSUME B # {} PROVE FALSE
  OBVIOUS
<1>2. PICK m \in B : \A k \in B : m <= k
  <2>1. B \subseteq Nat
    OBVIOUS
  <2> HIDE DEF B
  <2> QED  BY <1>1, <2>1, LeastOf
<1>3. m # 0 /\ m - 1 \in 0 .. n - 1 /\ m - 1 \notin B
  BY <1>2
<1>4. m - 1 \in G /\ (m - 1) + 1 = m
  BY <1>3
<1> QED  BY <1>3, <1>4

-----------------------------------------------------------------------------
(***************************************************************************)
(* Multiples of a size.                                                    *)
(***************************************************************************)

\* Words and the bytes that are left make up the whole.
LEMMA WordsAndRest ==
  ASSUME NEW n \in Int, NEW w \in Nat \ {0}
  PROVE  /\ n \div w \in Int /\ n % w \in 0 .. w - 1
         /\ n = (n \div w) * w + (n % w)
<1>1. n = (n \div w) * w + (n % w)
  BY Z3
<1> QED  BY <1>1

\* So many words are none if there are no bytes, and never a negative number.
LEMMA WordCount ==
  ASSUME NEW n \in Nat, NEW w \in Nat \ {0}
  PROVE  n \div w \in Nat /\ (n = 0 => n \div w = 0)
OBVIOUS

\* One word less.
LEMMA OneWordLess ==
  ASSUME NEW k \in Int, NEW w \in Nat \ {0}
  PROVE  (k - 1) * w = k * w - w /\ (k >= 1 => k * w >= w)
<1>1. (k - 1) * w = k * w - w
  OBVIOUS
<1>2. k >= 1 => (k - 1) * w >= 0
  OBVIOUS
<1>3. k * w \in Int /\ (k - 1) * w \in Int
  OBVIOUS
<1> QED  BY <1>1, <1>2, <1>3

\* A word further on or back an aligned address is aligned again.
LEMMA WordApart ==
  ASSUME NEW x \in Int, NEW w \in Nat \ {0}, x % w = 0
  PROVE  (x + w) % w = 0 /\ (x - w) % w = 0
<1> DEFINE q == x \div w
<1>1. q \in Int /\ x = q * w
  BY WordsAndRest
<1> HIDE DEF q
<1>2. x + w = w * (q + 1) /\ x - w = w * (q - 1)
  BY <1>1
<1>3. \A p \in Int : (w * p) % w = 0
  OBVIOUS
<1> QED  BY <1>1, <1>2, <1>3

\* The next boundary up and the one below.
LEMMA Boundaries ==
  ASSUME NEW x \in Int, NEW w \in Nat \ {0}
  PROVE  (x + (w - (x % w))) % w = 0 /\ (x - (x % w)) % w = 0
<1> DEFINE q == x \div w
           r == x % w
<1>1. q \in Int /\ r \in Int /\ x = q * w + r
  BY WordsAndRest
<1> HIDE DEF q, r
<1>2. x + (w - r) = w * (q + 1) /\ x - r = w * q
  BY <1>1
<1>3. \A p \in Int : (w * p) % w = 0
  OBVIOUS
<1>4. (x + (w - r)) % w = 0 /\ (x - r) % w = 0
  BY <1>1, <1>2, <1>3
<1> QED  BY <1>4 DEF r

\* As many of a size as fit in n, at least one if n is not smaller.
LEMMA WholeMultiples ==
  ASSUME NEW n \in Nat, NEW w \in Nat \ {0}
  PROVE  /\ n \div w \in Nat /\ (n \div w) * w <= n
         /\ w <= n => n \div w # 0
<1> DEFINE q == n \div w
           r == n % w
<1>1. q \in Nat /\ r \in 0 .. w - 1 /\ n = q * w + r
  <2>1. n \in Int
    OBVIOUS
  <2>2. n \div w \in Int /\ n % w \in 0 .. w - 1 /\ n = (n \div w) * w + (n % w)
    BY <2>1, WordsAndRest
  <2>3. n \div w \in Nat
    BY WordCount
  <2> QED  BY <2>2, <2>3
<1> HIDE DEF q, r
<1>2. ASSUME w <= n PROVE q # 0
  <2> SUFFICES ASSUME q = 0 PROVE FALSE
    OBVIOUS
  <2>1. q * w = 0
    OBVIOUS
  <2> QED  BY <1>1, <1>2, <2>1
<1>3. q * w \in Nat
  BY <1>1
<1> QED  BY <1>1, <1>2, <1>3 DEF q

\* Multiples of a size lie apart.
LEMMA MultiplesApart ==
  ASSUME NEW k \in Int, NEW m \in Int, NEW size \in Nat, k < m
  PROVE  k * size + size <= m * size
<1>1. PICK d \in Nat : m = k + 1 + d
  <2>1. m - k - 1 \in Nat /\ m = k + 1 + (m - k - 1)
    OBVIOUS
  <2> QED  BY <2>1
<1>2. m * size = k * size + size + d * size
  BY <1>1
<1>3. d * size >= 0 /\ d * size \in Int /\ k * size \in Int
  OBVIOUS
<1> QED  BY <1>2, <1>3

\* How many of a size fit in n is no less than any number of them that does.
LEMMA MostMultiples ==
  ASSUME NEW n \in Nat, NEW w \in Nat \ {0}, NEW k \in Nat, k * w <= n
  PROVE  k <= n \div w
<1> DEFINE q == n \div w
           r == n % w
<1>1. q \in Nat /\ r \in 0 .. w - 1 /\ n = q * w + r
  <2>1. n \in Int
    OBVIOUS
  <2>2. n \div w \in Int /\ n % w \in 0 .. w - 1 /\ n = (n \div w) * w + (n % w)
    BY <2>1, WordsAndRest
  <2>3. n \div w \in Nat
    BY WordCount
  <2> QED  BY <2>2, <2>3
<1> HIDE DEF q, r
<1>2. q * w \in Nat /\ k * w \in Nat
  BY <1>1
<1>3. ASSUME q < k PROVE FALSE
  <2>1. q * w + w <= k * w
    BY <1>1, <1>3, MultiplesApart
  <2> QED  BY <2>1, <1>1, <1>2
<1> QED  BY <1>1, <1>3 DEF q

\* What is left of a number does not change with multiples of w.
LEMMA MultiplesKeepRest ==
  ASSUME NEW x \in Int, NEW y \in Int, NEW k \in Int, NEW w \in Nat \ {0}, y % w = 0
  PROVE  (x + k * y) % w = x % w
<1> DEFINE q == x \div w
           p == y \div w
           r == x % w
           z == x + k * y
           s == z % w
           m == z \div w
<1>1. /\ q \in Int /\ r \in 0 .. w - 1 /\ x = q * w + r
      /\ p \in Int /\ y = p * w
  BY WordsAndRest
<1>2. k * y \in Int /\ z \in Int
  OBVIOUS
<1>3. m \in Int /\ s \in 0 .. w - 1 /\ z = m * w + s
  BY <1>2, WordsAndRest
<1>4. z = x + k * y
  OBVIOUS
<1> HIDE DEF q, p, r, z, s, m
<1> DEFINE n == q + k * p
<1>5. n \in Int /\ z = n * w + r
  <2>1. k * p \in Int /\ k * y = (k * p) * w
    BY <1>1
  <2>2. \A i \in Int : (q + i) * w = q * w + i * w
    BY <1>1
  <2>3. q * w \in Int /\ (k * p) * w \in Int
    BY <1>1, <2>1
  <2>4. n * w = q * w + (k * p) * w
    BY <2>1, <2>2
  <2> QED  BY <1>1, <1>4, <2>1, <2>3, <2>4
<1> HIDE DEF n
<1>6. n * w \in Int /\ m * w \in Int
  BY <1>3, <1>5
<1>7. CASE n < m
  <2>1. n * w + w <= m * w
    BY <1>3, <1>5, <1>7, MultiplesApart
  <2> QED  BY <1>1, <1>3, <1>5, <1>6, <2>1
<1>8. CASE m < n
  <2>1. m * w + w <= n * w
    BY <1>3, <1>5, <1>8, MultiplesApart
  <2> QED  BY <1>1, <1>3, <1>5, <1>6, <2>1
<1>9. CASE n = m
  BY <1>1, <1>3, <1>5, <1>6, <1>9 DEF r, s, z
<1> QED  BY <1>3, <1>5, <1>7, <1>8, <1>9

-----------------------------------------------------------------------------
(***************************************************************************)
(* Sequences.                                                              *)
(***************************************************************************)

\* RemoveAt, the unlinking of the k-th client in session_close and the shift of
\* first_clp, leaves out position k and keeps the order of the others.
LEMMA RemoveAtProperties ==
  ASSUME NEW S, NEW s \in Seq(S), NEW k \in 1 .. Len(s)
  PROVE  /\ RemoveAt(s, k) \in Seq(S)
         /\ Len(RemoveAt(s, k)) = Len(s) - 1
         /\ \A i \in 1 .. Len(s) - 1 :
              RemoveAt(s, k)[i] = IF i < k THEN s[i] ELSE s[i + 1]
<1> DEFINE a == SubSeq(s, 1, k - 1)
           b == SubSeq(s, k + 1, Len(s))
<1>0. Len(s) \in Nat /\ \A i \in 1 .. Len(s) : s[i] \in S
  BY LenProperties, ElementOfSeq
<1>1. /\ a \in Seq(S)
      /\ Len(a) = k - 1
      /\ \A i \in 1 .. k - 1 : a[i] = s[i]
  <2>1. \A i \in 1 .. k - 1 : s[i] \in S
    BY <1>0
  <2>2. /\ SubSeq(s, 1, k - 1) \in Seq(S)
        /\ Len(SubSeq(s, 1, k - 1)) = IF 1 <= k - 1 THEN (k - 1) - 1 + 1 ELSE 0
        /\ \A i \in 1 .. (k - 1) - 1 + 1 : SubSeq(s, 1, k - 1)[i] = s[1 + i - 1]
    BY <2>1, <1>0, SubSeqProperties
  <2> QED  BY <2>2, <1>0
<1>2. /\ b \in Seq(S)
      /\ Len(b) = Len(s) - k
      /\ \A i \in 1 .. Len(s) - k : b[i] = s[k + i]
  <2>1. \A i \in k + 1 .. Len(s) : s[i] \in S
    BY <1>0
  <2>2. /\ b \in Seq(S)
        /\ Len(b) = IF k + 1 <= Len(s) THEN Len(s) - (k + 1) + 1 ELSE 0
        /\ \A i \in 1 .. Len(s) - (k + 1) + 1 : b[i] = s[(k + 1) + i - 1]
    BY <2>1, <1>0, SubSeqProperties
  <2> QED  BY <2>2, <1>0
<1>3. /\ a \o b \in Seq(S)
      /\ Len(a \o b) = Len(a) + Len(b)
      /\ \A i \in 1 .. Len(a) + Len(b) :
           (a \o b)[i] = IF i <= Len(a) THEN a[i] ELSE b[i - Len(a)]
  BY <1>1, <1>2, ConcatProperties
<1>4. RemoveAt(s, k) = a \o b
  BY DEF RemoveAt
<1> HIDE DEF a, b
<1> QED
  <2>1. Len(a \o b) = Len(s) - 1
    BY <1>0, <1>1, <1>2, <1>3
  <2>2. ASSUME NEW i \in 1 .. Len(s) - 1
        PROVE  (a \o b)[i] = IF i < k THEN s[i] ELSE s[i + 1]
    <3>1. CASE i < k
      BY <3>1, <1>0, <1>1, <1>2, <1>3
    <3>2. CASE ~ (i < k)
      <4>1. i - Len(a) \in 1 .. Len(s) - k /\ k + (i - Len(a)) = i + 1
        BY <3>2, <1>0, <1>1
      <4>2. (a \o b)[i] = b[i - Len(a)]
        BY <3>2, <1>0, <1>1, <1>2, <1>3
      <4> QED  BY <4>1, <4>2, <3>2, <1>2
    <3> QED  BY <3>1, <3>2
  <2> QED  BY <2>1, <2>2, <1>3, <1>4

\* Putting c in front, as session_new does with a client and pool_put with a
\* free chunk.
LEMMA PushProperties ==
  ASSUME NEW S, NEW s \in Seq(S), NEW c \in S
  PROVE  /\ <<c>> \o s \in Seq(S)
         /\ Len(<<c>> \o s) = Len(s) + 1
         /\ \A i \in 1 .. Len(s) + 1 :
              (<<c>> \o s)[i] = IF i = 1 THEN c ELSE s[i - 1]
<1>1. <<c>> \in Seq(S) /\ Len(<<c>>) = 1 /\ <<c>>[1] = c
  OBVIOUS
<1>2. Len(s) \in Nat
  BY LenProperties
<1>3. /\ <<c>> \o s \in Seq(S)
      /\ Len(<<c>> \o s) = Len(<<c>>) + Len(s)
      /\ \A i \in 1 .. Len(<<c>>) + Len(s) :
           (<<c>> \o s)[i] = IF i <= Len(<<c>>) THEN <<c>>[i] ELSE s[i - Len(<<c>>)]
  BY <1>1, ConcatProperties
<1> QED  BY <1>1, <1>2, <1>3

\* Moving the head of the free list to the head of the client list keeps every
\* chunk in one place (pool_get and session_new).
LEMMA TakeKeepsEachOnce ==
  ASSUME NEW S, NEW f \in Seq(S), NEW u \in Seq(S), Len(f) > 0, EachOnce(f, u)
  PROVE  /\ Head(f) \in S
         /\ Tail(f) \in Seq(S) /\ Len(Tail(f)) = Len(f) - 1
         /\ <<Head(f)>> \o u \in Seq(S) /\ Len(<<Head(f)>> \o u) = Len(u) + 1
         /\ EachOnce(Tail(f), <<Head(f)>> \o u)
<1> DEFINE t == Tail(f)
           v == <<Head(f)>> \o u
<1>0. Len(f) \in Nat /\ Len(u) \in Nat /\ f # <<>>
  BY LenProperties, EmptySeq
<1>1. /\ Head(f) \in S /\ Head(f) = f[1]
      /\ t \in Seq(S) /\ Len(t) = Len(f) - 1
      /\ \A i \in 1 .. Len(t) : t[i] = f[i + 1]
  BY <1>0, HeadTailProperties
<1>2. /\ v \in Seq(S) /\ Len(v) = Len(u) + 1
      /\ \A i \in 1 .. Len(u) + 1 : v[i] = IF i = 1 THEN f[1] ELSE u[i - 1]
  BY <1>1, PushProperties
<1> HIDE DEF t, v
<1>3. NoDuplicates(t)
  BY <1>0, <1>1 DEF EachOnce, NoDuplicates
<1>4. NoDuplicates(v)
  <2>1. \A j \in 1 .. Len(u) : f[1] # u[j]
    BY <1>0 DEF EachOnce, NothingShared
  <2>2. \A i, j \in 1 .. Len(u) : u[i] = u[j] => i = j
    BY DEF EachOnce, NoDuplicates
  <2>3. ASSUME NEW i \in 1 .. Len(v), NEW j \in 1 .. Len(v), v[i] = v[j]
        PROVE  i = j
    <3>0. \A n \in 1 .. Len(v) : n # 1 => n - 1 \in 1 .. Len(u) /\ v[n] = u[n - 1]
      BY <1>0, <1>2
    <3>1. CASE i = 1 \/ j = 1
      BY <3>0, <3>1, <2>1, <2>3, <1>0, <1>2
    <3>2. CASE i # 1 /\ j # 1
      <4>1. i - 1 \in 1 .. Len(u) /\ j - 1 \in 1 .. Len(u)
        BY <3>2, <1>0, <1>2
      <4>2. u[i - 1] = u[j - 1]
        BY <3>2, <2>3, <1>0, <1>2
      <4> QED  BY <4>1, <4>2, <2>2
    <3> QED  BY <3>1, <3>2
  <2> QED  BY <2>3 DEF NoDuplicates
<1>5. NothingShared(t, v)
  <2> SUFFICES ASSUME NEW i \in 1 .. Len(t), NEW j \in 1 .. Len(v)
               PROVE  t[i] # v[j]
    BY DEF NothingShared
  <2>1. t[i] = f[i + 1] /\ i + 1 \in 1 .. Len(f) /\ 1 \in 1 .. Len(f) /\ i + 1 # 1
    BY <1>0, <1>1
  <2>2. CASE j = 1
    BY <2>1, <2>2, <1>0, <1>2 DEF EachOnce, NoDuplicates
  <2>3. CASE j # 1
    <3>1. v[j] = u[j - 1] /\ j - 1 \in 1 .. Len(u)
      BY <2>3, <1>0, <1>2
    <3> QED  BY <3>1, <2>1 DEF EachOnce, NothingShared
  <2> QED  BY <2>2, <2>3
<1> QED  BY <1>1, <1>2, <1>3, <1>4, <1>5 DEF t, v, EachOnce

\* Moving the k-th client to the head of the free list keeps every chunk in one
\* place (session_close and pool_put).
LEMMA GiveKeepsEachOnce ==
  ASSUME NEW S, NEW f \in Seq(S), NEW u \in Seq(S), NEW k \in 1 .. Len(u),
         EachOnce(f, u)
  PROVE  /\ RemoveAt(u, k) \in Seq(S) /\ Len(RemoveAt(u, k)) = Len(u) - 1
         /\ <<u[k]>> \o f \in Seq(S) /\ Len(<<u[k]>> \o f) = Len(f) + 1
         /\ EachOnce(<<u[k]>> \o f, RemoveAt(u, k))
<1> DEFINE g == <<u[k]>> \o f
           v == RemoveAt(u, k)
<1>0. Len(f) \in Nat /\ Len(u) \in Nat /\ u[k] \in S
  BY LenProperties, ElementOfSeq
<1>1. /\ v \in Seq(S) /\ Len(v) = Len(u) - 1
      /\ \A i \in 1 .. Len(u) - 1 : v[i] = IF i < k THEN u[i] ELSE u[i + 1]
  BY RemoveAtProperties
<1>2. /\ g \in Seq(S) /\ Len(g) = Len(f) + 1
      /\ \A i \in 1 .. Len(f) + 1 : g[i] = IF i = 1 THEN u[k] ELSE f[i - 1]
  BY <1>0, PushProperties
<1> HIDE DEF g, v
<1>3. NoDuplicates(v)
  BY <1>0, <1>1 DEF EachOnce, NoDuplicates
<1>4. NoDuplicates(g)
  <2>1. \A j \in 1 .. Len(f) : f[j] # u[k]
    BY DEF EachOnce, NothingShared
  <2>2. \A i, j \in 1 .. Len(f) : f[i] = f[j] => i = j
    BY DEF EachOnce, NoDuplicates
  <2>3. ASSUME NEW i \in 1 .. Len(g), NEW j \in 1 .. Len(g), g[i] = g[j]
        PROVE  i = j
    <3>0. \A n \in 1 .. Len(g) : n # 1 => n - 1 \in 1 .. Len(f) /\ g[n] = f[n - 1]
      BY <1>0, <1>2
    <3>1. CASE i = 1 \/ j = 1
      BY <3>0, <3>1, <2>1, <2>3, <1>0, <1>2
    <3>2. CASE i # 1 /\ j # 1
      <4>1. i - 1 \in 1 .. Len(f) /\ j - 1 \in 1 .. Len(f)
        BY <3>2, <1>0, <1>2
      <4>2. f[i - 1] = f[j - 1]
        BY <3>2, <2>3, <1>0, <1>2
      <4> QED  BY <4>1, <4>2, <2>2
    <3> QED  BY <3>1, <3>2
  <2> QED  BY <2>3 DEF NoDuplicates
<1>5. NothingShared(g, v)
  <2> SUFFICES ASSUME NEW i \in 1 .. Len(g), NEW j \in 1 .. Len(v)
               PROVE  g[i] # v[j]
    BY DEF NothingShared
  <2>1. PICK m \in 1 .. Len(u) : m # k /\ v[j] = u[m]
    <3>1. CASE j < k
      BY <3>1, <1>0, <1>1
    <3>2. CASE ~ (j < k)
      <4>1. j + 1 \in 1 .. Len(u) /\ j + 1 # k /\ v[j] = u[j + 1]
        BY <3>2, <1>0, <1>1
      <4> QED  BY <4>1
    <3> QED  BY <3>1, <3>2
  <2>2. CASE i = 1
    BY <2>1, <2>2, <1>0, <1>2 DEF EachOnce, NoDuplicates
  <2>3. CASE i # 1
    <3>1. g[i] = f[i - 1] /\ i - 1 \in 1 .. Len(f)
      BY <2>3, <1>0, <1>2
    <3> QED  BY <3>1, <2>1 DEF EachOnce, NothingShared
  <2> QED  BY <2>2, <2>3
<1> QED  BY <1>1, <1>2, <1>3, <1>4, <1>5 DEF g, v, EachOnce

-----------------------------------------------------------------------------
(***************************************************************************)
(* Linked lists.                                                           *)
(***************************************************************************)

\* The words of memory next link the nodes of list, from first to the word end.
Links(first, next, list, end) ==
  /\ list \in Seq(DOMAIN next)
  /\ first = IF list = <<>> THEN end ELSE list[1]
  /\ \A i \in 1 .. Len(list) : next[list[i]] = IF i = Len(list) THEN end ELSE list[i + 1]

\* Read link by link, memory gives the list that is linked, and no other.
LEMMA ReadsLinks ==
  ASSUME NEW first, NEW next, NEW most \in Nat, NEW list, NEW end,
         Links(first, next, list, end), end \notin DOMAIN next, Len(list) <= most
  PROVE  ListFrom(first, next, most) = list
<1> DEFINE N == Len(list)
           D == DOMAIN next
           Step(a) == IF a \in D THEN next[a] ELSE a
           Body(f, n) == IF n = 0 THEN first ELSE Step(f[n - 1])
           seen == [n \in 0 .. most |-> IF n < N THEN list[n + 1] ELSE end]
<1>0. list \in Seq(D)
  BY DEF Links
<1>1. N \in 0 .. most /\ N \in Nat /\ most \in Nat
  BY <1>0, LenProperties
<1>2. /\ end \notin D /\ Step(end) = end
      /\ \A i \in 1 .. N : list[i] \in D
  BY <1>0, ElementOfSeq
<1>3. first = IF N = 0 THEN end ELSE list[1]
  BY <1>0, EmptySeq DEF Links
<1>4. \A i \in 1 .. N : Step(list[i]) = IF i = N THEN end ELSE list[i + 1]
  BY <1>2 DEF Links
<1> HIDE DEF N, Step, D
<1>5. \A n \in 0 .. most : seen[n] = IF n < N THEN list[n + 1] ELSE end
  OBVIOUS
<1>6. \E f : f = [n \in 0 .. most |-> Body(f, n)]
  <2>1. seen = [n \in 0 .. most |-> seen[n]]
    OBVIOUS
  <2> HIDE DEF seen
  <2>2. seen[0] = first
    BY <1>1, <1>3, <1>5
  <2>3. ASSUME NEW n \in 1 .. most PROVE seen[n] = Step(seen[n - 1])
    <3>1. n \in 0 .. most /\ n - 1 \in 0 .. most /\ (n - 1) + 1 = n /\ n \in Nat
      BY <1>1
    <3>2. CASE n < N
      <4>1. seen[n] = list[n + 1] /\ seen[n - 1] = list[n] /\ n \in 1 .. N /\ n # N
        BY <1>1, <1>5, <3>1, <3>2
      <4> QED  BY <4>1, <1>4
    <3>3. CASE n = N
      <4>1. seen[n] = end /\ seen[n - 1] = list[n] /\ n \in 1 .. N
        BY <1>1, <1>5, <3>1, <3>3
      <4> QED  BY <4>1, <1>4, <3>3
    <3>4. CASE n > N
      <4>1. seen[n] = end /\ seen[n - 1] = end
        BY <1>1, <1>5, <3>1, <3>4
      <4> QED  BY <4>1, <1>2
    <3> QED  BY <1>1, <3>1, <3>2, <3>3, <3>4
  <2>4. \A n \in 0 .. most : n = 0 \/ n \in 1 .. most
    BY <1>1
  <2>5. \A n \in 0 .. most : seen[n] = Body(seen, n)
    BY <1>1, <2>2, <2>3, <2>4
  <2> QED  BY <2>1, <2>5
<1> DEFINE node == CHOOSE f : f = [n \in 0 .. most |-> Body(f, n)]
           Ends(n) == /\ \A i \in 0 .. n - 1 : node[i] \in D
                      /\ n = most + 1 \/ node[n] \notin D
<1>7. node = [n \in 0 .. most |-> Body(node, n)]
  BY <1>6
<1>8. ListFrom(first, next, most)
        = [n \in 1 .. (CHOOSE n \in 0 .. most + 1 : Ends(n)) |-> node[n - 1]]
  BY DEF ListFrom, Step, D
<1> HIDE DEF node
<1>9. \A n \in 0 .. most : node[n] = IF n < N THEN list[n + 1] ELSE end
  <2> DEFINE G == {n \in 0 .. most : node[n] = IF n < N THEN list[n + 1] ELSE end}
  <2>1. node[0] = first /\ \A n \in 1 .. most : node[n] = Step(node[n - 1])
    <3>1. \A n \in 0 .. most : node[n] = Body(node, n)
      BY <1>7
    <3>2. 0 \in 0 .. most /\ \A n \in 1 .. most : n \in 0 .. most /\ n # 0
      BY <1>1
    <3> QED  BY <3>1, <3>2
  <2>2. 0 \in G
    BY <2>1, <1>3, <1>1
  <2>3. ASSUME NEW m \in 0 .. most - 1, m \in G PROVE m + 1 \in G
    <3>1. m + 1 \in 1 .. most /\ m + 1 \in 0 .. most /\ (m + 1) - 1 = m /\ m \in Nat
      BY <1>1
    <3>2. node[m + 1] = Step(node[m])
      BY <2>1, <3>1
    <3>3. node[m] = IF m < N THEN list[m + 1] ELSE end
      BY <2>3
    <3>4. CASE m < N
      <4>1. m + 1 \in 1 .. N /\ node[m] = list[m + 1]
        BY <1>1, <3>1, <3>3, <3>4
      <4>2. node[m + 1] = IF m + 1 = N THEN end ELSE list[(m + 1) + 1]
        BY <4>1, <3>2, <1>4
      <4> QED  BY <1>1, <3>1, <4>1, <4>2
    <3>5. CASE ~ m < N
      <4>1. node[m + 1] = end /\ ~ (m + 1 < N)
        BY <1>1, <1>2, <3>1, <3>2, <3>3, <3>5
      <4> QED  BY <3>1, <4>1
    <3> QED  BY <3>4, <3>5
  <2>4. \A m \in 0 .. most - 1 : m \in G => m + 1 \in G
    BY <2>3
  <2> HIDE DEF G
  <2>5. \A n \in 0 .. most : n \in G
    BY <1>1, <2>2, <2>4, UpTo
  <2> QED  BY <2>5 DEF G
<1>10. /\ Ends(N)
       /\ \A n \in 0 .. most + 1 : Ends(n) => n = N
  <2>1. \A i \in 0 .. N - 1 : i \in 0 .. most /\ i < N /\ i + 1 \in 1 .. N
    BY <1>1
  <2>2. /\ \A i \in 0 .. N - 1 : node[i] \in D
        /\ node[N] \notin D
    <3>1. ASSUME NEW i \in 0 .. N - 1 PROVE node[i] \in D
      <4>1. node[i] = list[i + 1]
        BY <1>9, <2>1
      <4> QED  BY <4>1, <2>1, <1>2
    <3>2. node[N] = end
      BY <1>1, <1>9
    <3> QED  BY <3>1, <3>2, <1>2
  <2>3. ASSUME NEW n \in 0 .. most + 1, Ends(n) PROVE n = N
    <3>1. CASE n < N
      BY <1>1, <2>2, <2>3, <3>1
    <3>2. CASE n > N
      BY <1>1, <2>2, <2>3, <3>2
    <3> QED  BY <1>1, <3>1, <3>2
  <2> QED  BY <2>2, <2>3
<1>11. (CHOOSE n \in 0 .. most + 1 : Ends(n)) = N
  <2>1. N \in 0 .. most + 1
    BY <1>1
  <2> HIDE DEF Ends
  <2> QED  BY <1>10, <2>1
<1>12. \A n \in 1 .. N : node[n - 1] = list[n]
  <2>1. \A n \in 1 .. N : n - 1 \in 0 .. most /\ n - 1 < N /\ (n - 1) + 1 = n
    BY <1>1
  <2> QED  BY <1>9, <2>1
<1>13. list = [n \in 1 .. N |-> list[n]]
  BY <1>0, LenProperties DEF N
<1> QED  BY <1>8, <1>11, <1>12, <1>13
=============================================================================
