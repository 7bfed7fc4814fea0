-------------------------- MODULE AllocatorsProofs --------------------------
(***************************************************************************)
(* Proofs about the allocators of the library, Pool, Arena and             *)
(* GlobalArena, for every buffer, sizes, alignments and requests: what is  *)
(* handed out does not overlap, and the free list of a pool, read link by  *)
(* link from memory, is the stack of FreeList.                             *)
(***************************************************************************)
EXTENDS Pool, Arena, GlobalArena, DataLemmas, FunctionTheorems

-----------------------------------------------------------------------------
(***************************************************************************)
(* The chunks of a pool.                                                   *)
(***************************************************************************)

\* What pool_init leaves behind for good.
Made ==
  /\ asked \in Requests /\ buf = asked[1]
  /\ chunk_size = ChunkSize(asked) /\ node_size <= chunk_size
  /\ buf_len \in Nat /\ chunk_size <= buf_len /\ buf + buf_len <= asked[1] + asked[2]

Slot(k) == buf + k * chunk_size
count == chunkc(buf_len, chunk_size)
Slots == {Slot(k) : k \in 0 .. count - 1}

\* A sum that is an uint64 is not wrapped; one that is wrapped is a number.
LEMMA NotWrapped ==
  ASSUME NEW x \in Nat
  PROVE  Wrapped(x) \in Nat /\ (x < WordValues => Wrapped(x) = x)
BY WordAssumption DEF Wrapped

\* align_forward goes forward, to a multiple, and not by a whole alignment.
LEMMA AlignsForward ==
  ASSUME NEW ptr \in Nat, NEW align \in Nat \ {0}, ptr + align < WordValues
  PROVE  /\ align_forward(ptr, align) \in Nat /\ align_forward(ptr, align) >= ptr
         /\ align_forward(ptr, align) < ptr + align
         /\ align_forward(ptr, align) % align = 0
<1> DEFINE modulo == ptr % align
<1>1. modulo \in 0 .. align - 1 /\ modulo = ptr % align
  OBVIOUS
<1>2. (ptr + (align - modulo)) % align = 0
  BY Boundaries
<1> HIDE DEF modulo
<1>3. CASE modulo # 0
  <2>1. ptr + (align - modulo) \in Nat /\ ptr + (align - modulo) < WordValues
    BY <1>1, <1>3, WordAssumption
  <2>2. align_forward(ptr, align) = ptr + (align - modulo)
    BY <1>1, <1>3, <2>1, NotWrapped DEF align_forward
  <2> QED  BY <1>1, <1>2, <1>3, <2>2
<1>4. CASE modulo = 0
  BY <1>1, <1>4 DEF align_forward
<1> QED  BY <1>3, <1>4

\* The sizes a pool may be given make no sum that wraps.
LEMMA RequestSizes ==
  ASSUME NEW r \in Requests
  PROVE  /\ r[1] \in Nat /\ r[2] \in Nat /\ r[3] \in Nat \ {0} /\ r[4] \in Nat \ {0}
         /\ r[1] + r[2] <= Memory
         /\ r[1] + r[4] < WordValues /\ r[3] + r[4] < WordValues
<1>1. r \in Nat \X Nat \X (Nat \ {0}) \X (Nat \ {0})
  BY PoolAssumption
<1>2. r[1] \in Nat /\ r[2] \in Nat /\ r[3] \in Nat \ {0} /\ r[4] \in Nat \ {0}
  BY <1>1
<1>3. /\ Memory \in Nat /\ WordValues \in Nat /\ Memory < WordValues
      /\ r[1] + r[2] <= Memory /\ r[2] >= r[3] + 2 * r[4]
  BY PoolAssumption, WordAssumption
<1> QED  BY <1>2, <1>3

\* What was asked for, in numbers.
LEMMA AskedSizes ==
  ASSUME Made
  PROVE  /\ asked[1] \in Nat /\ asked[2] \in Nat
         /\ asked[3] \in Nat \ {0} /\ asked[4] \in Nat \ {0}
         /\ asked[1] + asked[2] <= Memory
         /\ chunk_size \in Nat \ {0} /\ asked[3] <= chunk_size
         /\ buf \in Nat /\ node_size \in Nat \ {0} /\ Memory \in Nat
<1>1. asked \in Requests
  BY DEF Made
<1>2. /\ asked[1] \in Nat /\ asked[2] \in Nat
      /\ asked[3] \in Nat \ {0} /\ asked[4] \in Nat \ {0}
      /\ asked[1] + asked[2] <= Memory /\ asked[3] + asked[4] < WordValues
  BY <1>1, RequestSizes
<1>3. chunk_size \in Nat /\ chunk_size >= asked[3]
  BY <1>2, AlignsForward DEF Made, ChunkSize
<1> QED  BY <1>2, <1>3, PoolAssumption, WordAssumption DEF Made

\* So many chunks fit.
LEMMA CountFits ==
  ASSUME Made
  PROVE  count \in Nat \ {0} /\ count * chunk_size <= buf_len
<1>1. buf_len \in Nat /\ chunk_size \in Nat \ {0} /\ chunk_size <= buf_len
  BY AskedSizes DEF Made
<1> QED  BY <1>1, WholeMultiples DEF count, chunkc

\* Every slot lies in the buffer with all of its chunk, and none shares a byte with another.
LEMMA SlotsApart ==
  ASSUME Made
  PROVE  /\ \A a \in Slots : /\ a \in Nat /\ a \in Address
                             /\ asked[1] <= a /\ a + chunk_size <= buf + buf_len
         /\ \A a, b \in Slots : a # b => a + chunk_size <= b \/ b + chunk_size <= a
<1>1. /\ count \in Nat /\ count * chunk_size <= buf_len
      /\ chunk_size \in Nat \ {0} /\ buf \in Nat /\ buf_len \in Nat
      /\ buf = asked[1] /\ buf + buf_len <= Memory /\ Memory \in Nat
  BY CountFits, AskedSizes DEF Made
<1>2. ASSUME NEW a \in Slots
      PROVE  /\ a \in Nat /\ a \in Address
             /\ asked[1] <= a /\ a + chunk_size <= buf + buf_len
  <2>1. PICK k \in 0 .. count - 1 : a = buf + k * chunk_size
    BY DEF Slots, Slot
  <2>2. k * chunk_size + chunk_size <= count * chunk_size
    BY <1>1, MultiplesApart
  <2>3. k * chunk_size \in Nat /\ count * chunk_size \in Nat
    BY <1>1
  <2> QED  BY <1>1, <2>1, <2>2, <2>3 DEF Address
<1>3. ASSUME NEW a \in Slots, NEW b \in Slots, a # b
      PROVE  a + chunk_size <= b \/ b + chunk_size <= a
  <2>1. PICK k \in 0 .. count - 1 : a = buf + k * chunk_size
    BY DEF Slots, Slot
  <2>2. PICK m \in 0 .. count - 1 : b = buf + m * chunk_size
    BY DEF Slots, Slot
  <2>3. k < m \/ m < k
    BY <1>1, <1>3, <2>1, <2>2
  <2>4. k * chunk_size \in Nat /\ m * chunk_size \in Nat
    BY <1>1
  <2>5. CASE k < m
    <3>1. k * chunk_size + chunk_size <= m * chunk_size
      BY <1>1, <2>5, MultiplesApart
    <3> QED  BY <1>1, <2>1, <2>2, <2>4, <3>1
  <2>6. CASE m < k
    <3>1. m * chunk_size + chunk_size <= k * chunk_size
      BY <1>1, <2>6, MultiplesApart
    <3> QED  BY <1>1, <2>1, <2>2, <2>4, <3>1
  <2> QED  BY <2>3, <2>5, <2>6
<1> QED  BY <1>2, <1>3


-----------------------------------------------------------------------------
(***************************************************************************)
(* The free list.  Linked is what makes the words of memory a list; read   *)
(* from p->head, link by link, they give this list and no other.           *)
(***************************************************************************)

Linked(list) ==
  /\ list \in Seq(Slots) /\ IsInjective(list)
  /\ head = IF list = <<>> THEN nil ELSE list[1]
  /\ \A i \in 1 .. Len(list) : word[list[i]] = IF i = Len(list) THEN nil ELSE list[i + 1]

\* A list that has no slot twice is no longer than memory has room for.
LEMMA ListFits ==
  ASSUME Made, NEW list \in Seq(Slots), IsInjective(list)
  PROVE  most \in Nat /\ Len(list) \in 0 .. most
<1>1. /\ count \in Nat /\ count * chunk_size <= buf_len /\ buf_len \in Nat
      /\ chunk_size \in Nat \ {0} /\ node_size \in Nat \ {0} /\ node_size <= chunk_size
      /\ buf \in Nat /\ buf + buf_len <= Memory /\ Memory \in Nat
  BY CountFits, AskedSizes DEF Made
<1>2. most \in Nat /\ count <= most
  <2>1. PICK d \in Nat : chunk_size = node_size + d
    <3>1. chunk_size - node_size \in Nat /\ chunk_size = node_size + (chunk_size - node_size)
      BY <1>1
    <3> QED  BY <3>1
  <2>2. count * chunk_size = count * node_size + count * d
    BY <1>1, <2>1
  <2>3. count * d \in Nat /\ count * node_size \in Nat
    BY <1>1, <2>1
  <2>4. count * node_size <= Memory
    BY <1>1, <2>2, <2>3
  <2> QED  BY <1>1, <2>4, MostMultiples, WholeMultiples DEF most
<1>3. IsFiniteSet(Slots) /\ Cardinality(Slots) <= count
  <2> DEFINE slot == [i \in 1 .. count |-> Slot(i - 1)]
  <2>1. \A i \in 1 .. count : i - 1 \in 0 .. count - 1
    BY <1>1
  <2>2. \A k \in 0 .. count - 1 : k + 1 \in 1 .. count /\ (k + 1) - 1 = k
    BY <1>1
  <2>3. slot \in [1 .. count -> Slots]
    BY <2>1 DEF Slots
  <2>4. \A a \in Slots : \E i \in 1 .. count : slot[i] = a
    <3> SUFFICES ASSUME NEW k \in 0 .. count - 1
                 PROVE  \E i \in 1 .. count : slot[i] = Slot(k)
      BY DEF Slots
    <3>1. k + 1 \in 1 .. count /\ slot[k + 1] = Slot(k)
      BY <2>2
    <3> QED  BY <3>1
  <2> HIDE DEF slot
  <2>5. slot \in Surjection(1 .. count, Slots)
    BY <2>3, <2>4, Fun_IsSurj
  <2>6. IsFiniteSet(1 .. count) /\ Cardinality(1 .. count) = count
    BY <1>1, FS_Interval
  <2> QED  BY <2>5, <2>6, FS_Surjection
<1>4. Len(list) \in Nat /\ list \in Injection(1 .. Len(list), Slots)
  BY LenProperties DEF Injection
<1>5. IsFiniteSet(1 .. Len(list)) /\ Cardinality(1 .. Len(list)) = Len(list)
  <2>1. \A n \in Nat : IsFiniteSet(1 .. n) /\ Cardinality(1 .. n) = n
    BY FS_Interval
  <2> QED  BY <1>4, <2>1
<1>6. Len(list) <= Cardinality(Slots) /\ Cardinality(Slots) \in Nat
  BY <1>3, <1>4, <1>5, FS_Injection, FS_CardinalityType
<1> QED  BY <1>1, <1>2, <1>3, <1>4, <1>6

\* Reading the links from p->head gives the list that is linked.
LEMMA ReadsLinked ==
  ASSUME Made, NEW list, Linked(list), DOMAIN word = Address
  PROVE  FreeNodes = list
<1>1. most \in Nat /\ Len(list) <= most /\ list \in Seq(Slots)
  BY ListFits DEF Linked
<1>2. list \in Seq(DOMAIN word)
  <2>1. Slots \subseteq Address
    BY SlotsApart
  <2> QED  BY <1>1, <2>1
<1>3. Links(head, word, list, nil) /\ nil \notin DOMAIN word
  BY <1>2, PoolAssumption DEF Links, Linked, Address
<1> QED  BY <1>1, <1>3, ReadsLinks DEF FreeNodes

-----------------------------------------------------------------------------
(***************************************************************************)
(* The inductive invariant, and the steps.                                 *)
(***************************************************************************)

\* Nobody holds a chunk that is on the list.
AllFree(list) == Linked(list) /\ \A i \in 1 .. Len(list) : list[i] \notin held

PoolInv ==
  /\ Made /\ held \subseteq Slots
  /\ DOMAIN word = Address
  /\ \E list : AllFree(list)

\* The pool stays what pool_init made it.
LEMMA MadeSame ==
  ASSUME Made, UNCHANGED <<buf, buf_len, chunk_size, asked>>
  PROVE  Made' /\ Slots' = Slots
BY DEF Made, Slots, Slot, count

\* What is written into a chunk leaves the words of the others.
LEMMA WrittenApart ==
  ASSUME Made, NEW a \in Slots, NEW n \in Nat, n <= chunk_size, NEW x \in Slots, x # a
  PROVE  Overwritten(a, n)[x] = word[x]
<1>1. /\ a \in Nat /\ x \in Nat /\ x \in Address
      /\ a + chunk_size <= x \/ x + chunk_size <= a
  BY SlotsApart
<1>2. node_size \in Nat /\ node_size <= chunk_size /\ chunk_size \in Nat
  BY AskedSizes DEF Made
<1>3. ~ (x < a + n /\ a < x + node_size)
  BY <1>1, <1>2
<1> QED  BY <1>1, <1>3 DEF Overwritten

\* pool_get takes the first chunk off the list.
LEMMA GetTakes ==
  ASSUME Made, NEW list, AllFree(list), pool_get
  PROVE  /\ list # <<>> /\ head = Head(list) /\ head \in Slots
         /\ AllFree(Tail(list))'
<1>1. /\ list \in Seq(Slots) /\ head = IF list = <<>> THEN nil ELSE list[1]
      /\ head # nil /\ head' = word[head] /\ held' = held \cup {head} /\ word' = word
      /\ Slots' = Slots
  BY MadeSame DEF AllFree, Linked, pool_get
<1>2. list # <<>> /\ head = list[1]
  BY <1>1
<1> DEFINE rest == Tail(list)
<1>3. /\ rest \in Seq(Slots) /\ Len(rest) = Len(list) - 1 /\ Len(list) \in Nat
      /\ \A i \in 1 .. Len(rest) : rest[i] = list[i + 1]
      /\ Head(list) = list[1] /\ Head(list) \in Slots
  BY <1>1, <1>2, HeadTailProperties, LenProperties
<1>4. /\ Len(rest) \in Nat /\ Len(list) >= 1
      /\ DOMAIN rest = 1 .. Len(rest) /\ DOMAIN list = 1 .. Len(list)
      /\ \A i \in 1 .. Len(rest) : i + 1 \in 1 .. Len(list)
  BY <1>1, <1>2, <1>3, LenProperties, EmptySeq
<1> HIDE DEF rest
<1>5. \A i, j \in 1 .. Len(list) : list[i] = list[j] => i = j
  BY <1>4 DEF AllFree, Linked, IsInjective
<1>6. IsInjective(rest)
  BY <1>3, <1>4, <1>5 DEF IsInjective
<1>7. \A i \in 1 .. Len(list) : word[list[i]] = IF i = Len(list) THEN nil ELSE list[i + 1]
  BY DEF AllFree, Linked
<1>8. head' = IF rest = <<>> THEN nil ELSE rest[1]
  <2>1. head' = IF 1 = Len(list) THEN nil ELSE list[2]
    <3>1. 1 \in 1 .. Len(list) /\ 1 + 1 = 2
      BY <1>3, <1>4
    <3>2. word[list[1]] = IF 1 = Len(list) THEN nil ELSE list[1 + 1]
      BY <1>7, <3>1
    <3> QED  BY <1>1, <1>2, <3>1, <3>2
  <2>2. CASE rest = <<>>
    BY <1>3, <1>4, <2>1, <2>2, EmptySeq
  <2>3. CASE rest # <<>>
    <3>1. Len(rest) # 0
      BY <1>3, <2>3, EmptySeq
    <3>2. rest[1] = list[2]
      BY <1>3, <1>4, <3>1
    <3> QED  BY <1>3, <1>4, <2>1, <2>3, <3>1, <3>2
  <2> QED  BY <2>2, <2>3
<1>9. ASSUME NEW i \in 1 .. Len(rest)
      PROVE  /\ word'[rest[i]] = IF i = Len(rest) THEN nil ELSE rest[i + 1]
             /\ rest[i] \notin held'
  <2>1. /\ rest[i] = list[i + 1] /\ i + 1 \in 1 .. Len(list)
        /\ i # Len(rest) => rest[i + 1] = list[(i + 1) + 1]
        /\ (i = Len(rest)) = (i + 1 = Len(list))
    BY <1>3, <1>4
  <2>2. word'[rest[i]] = IF i = Len(rest) THEN nil ELSE rest[i + 1]
    BY <1>1, <1>7, <2>1
  <2>3. rest[i] \notin held
    BY <2>1 DEF AllFree
  <2>4. rest[i] # head
    <3>1. 1 \in 1 .. Len(list) /\ i + 1 # 1
      BY <1>3, <1>4
    <3> QED  BY <1>2, <1>5, <2>1, <3>1
  <2> QED  BY <1>1, <2>2, <2>3, <2>4
<1>10. Linked(rest)'
  BY <1>1, <1>3, <1>6, <1>8, <1>9 DEF Linked
<1> QED  BY <1>2, <1>3, <1>9, <1>10 DEF AllFree, rest

\* pool_put links the chunk in front of the list, over what its holder wrote.
LEMMA PutLinks ==
  ASSUME Made, held \subseteq Slots, NEW list, AllFree(list), NEW c \in held, pool_put(c)
  PROVE  held' = held \ {c} /\ AllFree(<<c>> \o list)'
<1>1. c \in Slots /\ list \in Seq(Slots) /\ Len(list) \in Nat
  BY LenProperties DEF AllFree, Linked
<1>2. c \in Address /\ ~ OutOfBounds(c)
  BY <1>1, SlotsApart, AskedSizes DEF OutOfBounds, Made
<1>3. /\ word' = [Overwritten(c, node_size) EXCEPT ![c] = head] /\ head' = c
      /\ held' = held \ {c} /\ Slots' = Slots
  BY <1>2, MadeSame DEF pool_put, Push
<1> DEFINE more == <<c>> \o list
<1>4. /\ more \in Seq(Slots) /\ Len(more) = Len(list) + 1 /\ more[1] = c
      /\ \A i \in 1 .. Len(list) : more[i + 1] = list[i]
  <2>1. <<c>> \in Seq(Slots) /\ Len(<<c>>) = 1 /\ <<c>>[1] = c
    BY <1>1
  <2>2. /\ more \in Seq(Slots) /\ Len(more) = Len(<<c>>) + Len(list)
        /\ \A i \in 1 .. Len(<<c>>) + Len(list) :
             more[i] = IF i <= Len(<<c>>) THEN <<c>>[i] ELSE list[i - Len(<<c>>)]
    BY <1>1, <2>1, ConcatProperties
  <2> HIDE DEF more
  <2>3. \A i \in 1 .. Len(list) : i + 1 \in 1 .. 1 + Len(list) /\ ~ (i + 1 <= 1) /\ (i + 1) - 1 = i
    BY <1>1
  <2> QED  BY <1>1, <2>1, <2>2, <2>3
<1>5. more # <<>> /\ DOMAIN more = 1 .. Len(more) /\ Len(more) \in Nat
  BY <1>1, <1>4, EmptySeq, LenProperties
<1> HIDE DEF more
<1>6. \A i \in 1 .. Len(list) : list[i] \in Slots /\ list[i] # c
  BY <1>1, ElementOfSeq DEF AllFree
<1>7. ASSUME NEW i \in 1 .. Len(more), i # 1
      PROVE  i - 1 \in 1 .. Len(list) /\ more[i] = list[i - 1]
  <2>1. i - 1 \in 1 .. Len(list) /\ (i - 1) + 1 = i
    BY <1>1, <1>4, <1>7
  <2> QED  BY <1>4, <2>1
<1>8. IsInjective(more)
  <2>1. \A i, j \in 1 .. Len(list) : list[i] = list[j] => i = j
    BY <1>1, LenProperties DEF AllFree, Linked, IsInjective
  <2>2. ASSUME NEW i \in 1 .. Len(more), NEW j \in 1 .. Len(more), more[i] = more[j]
        PROVE  i = j
    <3>1. CASE i = 1 /\ j = 1
      BY <3>1
    <3>2. CASE i = 1 /\ j # 1
      BY <1>4, <1>6, <1>7, <2>2, <3>2
    <3>3. CASE i # 1 /\ j = 1
      BY <1>4, <1>6, <1>7, <2>2, <3>3
    <3>4. CASE i # 1 /\ j # 1
      <4>1. i - 1 = j - 1
        BY <1>7, <2>1, <2>2, <3>4
      <4> QED  BY <1>5, <4>1
    <3> QED  BY <3>1, <3>2, <3>3, <3>4
  <2> QED  BY <1>5, <2>2 DEF IsInjective
<1>9. word'[c] = head /\ \A x \in Slots : x # c => word'[x] = word[x]
  <2>1. word'[c] = head /\ \A x \in Slots : x # c => word'[x] = Overwritten(c, node_size)[x]
    BY <1>2, <1>3 DEF Overwritten
  <2>2. node_size \in Nat /\ node_size <= chunk_size
    BY AskedSizes DEF Made
  <2> QED  BY <1>1, <2>1, <2>2, WrittenApart
<1>10. ASSUME NEW i \in 1 .. Len(more)
       PROVE  word'[more[i]] = IF i = Len(more) THEN nil ELSE more[i + 1]
  <2>1. head = IF Len(list) = 0 THEN nil ELSE list[1]
    BY <1>1, EmptySeq DEF AllFree, Linked
  <2>2. CASE i = 1
    <3>1. word'[more[i]] = head /\ (i = Len(more)) = (Len(list) = 0)
      BY <1>1, <1>4, <1>9, <2>2
    <3>2. Len(list) # 0 => more[i + 1] = list[1]
      BY <1>1, <1>4, <2>2
    <3> QED  BY <2>1, <3>1, <3>2
  <2>3. CASE i # 1
    <3>1. i - 1 \in 1 .. Len(list) /\ more[i] = list[i - 1]
      BY <1>7, <2>3
    <3>2. word'[more[i]] = word[list[i - 1]]
      BY <1>6, <1>9, <3>1
    <3>3. word[list[i - 1]] = IF i - 1 = Len(list) THEN nil ELSE list[(i - 1) + 1]
      BY <3>1 DEF AllFree, Linked
    <3>4. /\ (i - 1 = Len(list)) = (i = Len(more)) /\ (i - 1) + 1 = i
          /\ i # Len(more) => i \in 1 .. Len(list)
      BY <1>1, <1>4, <2>3
    <3>5. i # Len(more) => more[i + 1] = list[i]
      BY <1>4, <3>4
    <3> QED  BY <3>2, <3>3, <3>4, <3>5
  <2> QED  BY <2>2, <2>3
<1>11. \A i \in 1 .. Len(more) : more[i] \notin held'
  BY <1>3, <1>4, <1>7 DEF AllFree
<1>12. Linked(more)'
  BY <1>3, <1>4, <1>5, <1>8, <1>10 DEF Linked
<1> QED  BY <1>3, <1>11, <1>12 DEF AllFree, more

\* What a holder writes into its chunk touches no link.
LEMMA UseKeepsList ==
  ASSUME Made, held \subseteq Slots, NEW list, AllFree(list), NEW c \in held, Use(c)
  PROVE  AllFree(list)'
<1>1. /\ word' = Overwritten(c, asked[3]) /\ UNCHANGED <<head, held>> /\ Slots' = Slots
      /\ c \in Slots /\ list \in Seq(Slots)
  BY MadeSame DEF Use, AllFree, Linked
<1>2. asked[3] \in Nat /\ asked[3] <= chunk_size
  BY AskedSizes
<1>3. \A i \in 1 .. Len(list) : word'[list[i]] = word[list[i]]
  BY <1>1, <1>2, WrittenApart, ElementOfSeq DEF AllFree
<1> QED  BY <1>1, <1>3 DEF AllFree, Linked


\* pool_free_all links all chunks, the last one first.
LEMMA InitPool == PoolInit => PoolInv
<1> SUFFICES ASSUME PoolInit PROVE PoolInv
  OBVIOUS
<1>1. Made
  <2>1. /\ asked \in Requests /\ buf = asked[1] /\ chunk_size = ChunkSize(asked)
        /\ node_size <= chunk_size /\ chunk_size <= buf_len
        /\ buf_len = asked[2] - (align_forward(asked[1], asked[4]) - asked[1])
    BY DEF PoolInit, pool_init
  <2>3. /\ asked[1] \in Nat /\ asked[2] \in Nat
        /\ asked[3] \in Nat \ {0} /\ asked[4] \in Nat \ {0}
        /\ asked[1] + asked[4] < WordValues /\ asked[3] + asked[4] < WordValues
    BY <2>1, RequestSizes
  <2>4. /\ align_forward(asked[1], asked[4]) \in Nat
        /\ align_forward(asked[1], asked[4]) >= asked[1]
        /\ chunk_size \in Nat
    BY <2>1, <2>3, AlignsForward DEF ChunkSize
  <2> QED  BY <2>1, <2>3, <2>4 DEF Made
<1>2. /\ count \in Nat \ {0} /\ chunk_size \in Nat \ {0} /\ buf \in Nat
  BY <1>1, CountFits, AskedSizes
<1>3. /\ head = Slot(count - 1) /\ held = {}
      /\ \A x \in Address : word[x] =
           IF \E i \in 0 .. count - 1 : x = Slot(i)
           THEN IF x = buf THEN nil ELSE x - chunk_size
           ELSE "data"
  BY DEF PoolInit, pool_init, FreeAll, count, Slot
<1>4. \A k \in 0 .. count - 1 : Slot(k) \in Slots /\ Slot(k) \in Address
  BY <1>1, SlotsApart DEF Slots
<1>5. \A k, m \in 0 .. count - 1 : Slot(k) = Slot(m) => k = m
  <2>1. ASSUME NEW k \in 0 .. count - 1, NEW m \in 0 .. count - 1, k < m
        PROVE  Slot(k) # Slot(m)
    <3>1. k * chunk_size + chunk_size <= m * chunk_size
      BY <1>2, <2>1, MultiplesApart
    <3>2. k * chunk_size \in Nat /\ m * chunk_size \in Nat
      BY <1>2
    <3> QED  BY <1>2, <3>1, <3>2 DEF Slot
  <2> QED  BY <1>2, <2>1
<1>6. ASSUME NEW k \in 0 .. count - 1
      PROVE  word[Slot(k)] = IF k = 0 THEN nil ELSE Slot(k - 1)
  <2>1. word[Slot(k)] = IF Slot(k) = buf THEN nil ELSE Slot(k) - chunk_size
    BY <1>3, <1>4
  <2>2. Slot(0) = buf /\ 0 \in 0 .. count - 1
    BY <1>2 DEF Slot
  <2>3. (Slot(k) = buf) = (k = 0)
    BY <1>5, <2>2
  <2>4. Slot(k) - chunk_size = Slot(k - 1)
    <3>1. (k - 1) * chunk_size = k * chunk_size - chunk_size /\ k * chunk_size \in Int
      BY <1>2, OneWordLess
    <3> QED  BY <1>2, <3>1 DEF Slot
  <2> QED  BY <2>1, <2>3, <2>4
<1> DEFINE list == [i \in 1 .. count |-> Slot(count - i)]
<1>7. list \in Seq(Slots) /\ Len(list) = count /\ list # <<>>
  <2>1. \A i \in 1 .. count : count - i \in 0 .. count - 1
    BY <1>2
  <2>2. \A i \in 1 .. count : Slot(count - i) \in Slots
    BY <1>4, <2>1
  <2>3. list \in Seq(Slots) /\ Len(list) = count
    BY <1>2, <2>2
  <2> QED  BY <1>2, <2>3
<1>8. \A i \in 1 .. count : list[i] = Slot(count - i) /\ count - i \in 0 .. count - 1
  BY <1>2
<1>9. DOMAIN list = 1 .. count
  OBVIOUS
<1> HIDE DEF list
<1>10. IsInjective(list)
  <2>1. ASSUME NEW i \in 1 .. count, NEW j \in 1 .. count, list[i] = list[j] PROVE i = j
    <3>1. count - i = count - j
      BY <1>5, <1>8, <2>1
    <3> QED  BY <1>2, <3>1
  <2> QED  BY <1>9, <2>1 DEF IsInjective
<1>11. head = list[1]
  BY <1>2, <1>3, <1>8
<1>12. ASSUME NEW i \in 1 .. count
       PROVE  word[list[i]] = IF i = count THEN nil ELSE list[i + 1]
  <2>1. word[list[i]] = IF count - i = 0 THEN nil ELSE Slot((count - i) - 1)
    BY <1>6, <1>8
  <2>2. /\ (count - i = 0) = (i = count)
        /\ i # count => i + 1 \in 1 .. count /\ (count - i) - 1 = count - (i + 1)
    BY <1>2
  <2> QED  BY <1>8, <2>1, <2>2
<1>13. AllFree(list)
  BY <1>3, <1>7, <1>10, <1>11, <1>12 DEF AllFree, Linked
<1>14. DOMAIN word = Address
  BY DEF PoolInit, pool_init, FreeAll
<1> QED  BY <1>1, <1>3, <1>13, <1>14 DEF PoolInv

\* Every step of a program that puts back what it was given keeps the pool in order.
LEMMA NextPool ==
  ASSUME Strangers = {}, PoolInv, [PoolNext]_poolVars
  PROVE  PoolInv'
<1>1. PICK list : AllFree(list)
  BY DEF PoolInv
<1>2. Made /\ held \subseteq Slots /\ DOMAIN word = Address
  BY DEF PoolInv
<1>3. CASE pool_get
  <2>1. head \in Slots /\ AllFree(Tail(list))'
    BY <1>1, <1>2, <1>3, GetTakes
  <2>2. Made' /\ Slots' = Slots /\ held' = held \cup {head} /\ word' = word
    BY <1>2, <1>3, MadeSame DEF pool_get
  <2> QED  BY <1>2, <2>1, <2>2 DEF PoolInv
<1>4. ASSUME NEW c \in held, pool_put(c) PROVE PoolInv'
  <2>1. held' = held \ {c} /\ AllFree(<<c>> \o list)'
    BY <1>1, <1>2, <1>4, PutLinks
  <2>2. Made' /\ Slots' = Slots
    BY <1>2, <1>4, MadeSame DEF pool_put
  <2>3. DOMAIN word' = Address
    BY <1>2, <1>4 DEF pool_put, Push, Overwritten
  <2> QED  BY <1>2, <2>1, <2>2, <2>3 DEF PoolInv
<1>5. ASSUME NEW c \in held, Use(c) PROVE PoolInv'
  <2>1. AllFree(list)'
    BY <1>1, <1>2, <1>5, UseKeepsList
  <2>2. Made' /\ Slots' = Slots /\ held' = held
    BY <1>2, <1>5, MadeSame DEF Use
  <2>3. DOMAIN word' = Address
    BY <1>5 DEF Use, Overwritten
  <2> QED  BY <1>2, <2>1, <2>2, <2>3 DEF PoolInv
<1>6. CASE UNCHANGED poolVars
  <2>1. Made' /\ Slots' = Slots /\ UNCHANGED <<head, word, held>>
    BY <1>2, <1>6, MadeSame DEF poolVars
  <2>2. AllFree(list)'
    BY <1>1, <2>1 DEF AllFree, Linked
  <2> QED  BY <1>2, <2>1, <2>2 DEF PoolInv
<1> QED  BY <1>3, <1>4, <1>5, <1>6 DEF PoolNext, pool_get_nil


-----------------------------------------------------------------------------
(***************************************************************************)
(* The theorems about pools.  A program that puts back what it was given   *)
(* is one without Strangers.                                               *)
(***************************************************************************)

\* Memory has one list, whoever reads it.
ListRead == \A list : AllFree(list) => FreeNodes = list
PoolRead == PoolInv /\ ListRead

LEMMA PoolReadOnce == PoolInv => PoolRead
BY ReadsLinked DEF PoolInv, PoolRead, ListRead, AllFree

\* In every reachable state of a pool.
LEMMA PoolInvariant == ASSUME Strangers = {} PROVE PoolSpec => []PoolRead
<1>1. PoolInv /\ [PoolNext]_poolVars => PoolInv'
  BY NextPool
<1> QED  BY <1>1, InitPool, PoolReadOnce, PTL DEF PoolSpec

\* All chunks, free or held, are slots.
LEMMA ChunksAreSlots == PoolRead => Chunks \subseteq Slots
<1> SUFFICES ASSUME PoolRead PROVE Chunks \subseteq Slots
  OBVIOUS
<1>1. PICK list : AllFree(list)
  BY DEF PoolRead, PoolInv
<1>2. FreeNodes = list /\ list \in Seq(Slots) /\ held \subseteq Slots
  BY <1>1 DEF PoolRead, PoolInv, ListRead, AllFree, Linked
<1>3. ToSet(list) \subseteq Slots
  <2>1. DOMAIN list = 1 .. Len(list)
    BY <1>2, LenProperties
  <2> QED  BY <1>2, <2>1, ElementOfSeq DEF ToSet
<1> QED  BY <1>2, <1>3 DEF Chunks

\* ChunksInBuffer: whatever buffer, chunk size and alignment pool_init is given, no chunk
\* passes the end of the buffer or shares a byte with another.
THEOREM ChunksFit == ASSUME Strangers = {} PROVE PoolSpec => []ChunksInBuffer
<1>1. PoolRead => ChunksInBuffer
  <2> SUFFICES ASSUME PoolRead PROVE ChunksInBuffer
    OBVIOUS
  <2>1. Made /\ Chunks \subseteq Slots
    BY ChunksAreSlots DEF PoolRead, PoolInv
  <2>2. /\ asked[1] \in Nat /\ asked[2] \in Nat /\ asked[3] \in Nat /\ chunk_size \in Nat
        /\ asked[3] <= chunk_size /\ buf \in Nat /\ buf_len \in Nat
        /\ buf + buf_len <= asked[1] + asked[2]
    BY <2>1, AskedSizes DEF Made
  <2>3. ASSUME NEW c \in Chunks
        PROVE  asked[1] <= c /\ c + asked[3] <= asked[1] + asked[2]
    <3>1. c \in Nat /\ asked[1] <= c /\ c + chunk_size <= buf + buf_len
      BY <2>1, SlotsApart
    <3> QED  BY <2>2, <3>1
  <2>4. ASSUME NEW c \in Chunks, NEW d \in Chunks, c < d PROVE c + asked[3] <= d
    <3>1. c \in Nat /\ d \in Nat
      BY <2>1, SlotsApart
    <3>2. c + chunk_size <= d \/ d + chunk_size <= c
      BY <2>1, <2>4, <3>1, SlotsApart
    <3> QED  BY <2>2, <2>4, <3>1, <3>2
  <2> QED  BY <2>3, <2>4 DEF ChunksInBuffer
<1> QED  BY <1>1, PoolInvariant, PTL

\* ChunksLikeBuffer: whatever buffer, chunk size and alignment pool_init is given, each
\* chunk, free or held, lies as far from an aligned address as the buffer does.
THEOREM ChunksLieLikeBuffer == ASSUME Strangers = {} PROVE PoolSpec => []ChunksLikeBuffer
<1>1. PoolRead => ChunksLikeBuffer
  <2> SUFFICES ASSUME PoolRead, NEW c \in Chunks PROVE c % asked[4] = asked[1] % asked[4]
    BY DEF ChunksLikeBuffer
  <2>1. Made /\ c \in Slots /\ asked \in Requests
    BY ChunksAreSlots DEF PoolRead, PoolInv, Made
  <2>2. /\ asked[3] \in Nat /\ asked[4] \in Nat \ {0} /\ buf \in Nat /\ chunk_size \in Nat
        /\ asked[3] + asked[4] < WordValues
        /\ buf = asked[1] /\ chunk_size = align_forward(asked[3], asked[4])
    BY <2>1, AskedSizes, RequestSizes DEF Made, ChunkSize
  <2>3. chunk_size % asked[4] = 0
    BY <2>2, AlignsForward
  <2>4. PICK k \in 0 .. count - 1 : c = buf + k * chunk_size
    BY <2>1 DEF Slots, Slot
  <2>5. k \in Int /\ buf \in Int /\ chunk_size \in Int
    BY <2>2
  <2>6. (buf + k * chunk_size) % asked[4] = buf % asked[4]
    BY <2>2, <2>3, <2>5, MultiplesKeepRest
  <2> QED  BY <2>2, <2>4, <2>6
<1> QED  BY <1>1, PoolInvariant, PTL

\* The free list is a stack: pool_get and pool_put are steps of FreeList.
LEMMA InitStack == PoolInit /\ PoolRead => Stack!Init
<1> SUFFICES ASSUME PoolInit, PoolRead PROVE Stack!Init
  OBVIOUS
<1>1. PICK list : AllFree(list)
  BY DEF PoolRead, PoolInv
<1>2. FreeNodes = list /\ list \in Seq(Slots) /\ IsInjective(list) /\ held = {}
  BY <1>1 DEF PoolRead, PoolInv, ListRead, AllFree, Linked, PoolInit
<1>3. list \in Seq(Address)
  <2>1. Slots \subseteq Address
    BY SlotsApart DEF PoolRead, PoolInv
  <2> QED  BY <1>2, <2>1, SeqMonotonic
<1>4. FreeNodes \in Seq(Address) /\ IsInjective(FreeNodes)
  BY <1>2, <1>3
<1> QED  BY <1>2, <1>4 DEF Stack!Init, Stack!IsInjective, IsInjective

LEMMA NextStack ==
  ASSUME Strangers = {}, PoolRead, PoolRead', [PoolNext]_poolVars
  PROVE  [Stack!Next]_<<FreeNodes, held>>
<1>1. PICK list : AllFree(list)
  BY DEF PoolRead, PoolInv
<1>2. Made /\ held \subseteq Slots /\ FreeNodes = list
  BY <1>1 DEF PoolRead, PoolInv, ListRead
<1>3. ASSUME NEW after, AllFree(after)' PROVE FreeNodes' = after
  BY <1>3 DEF PoolRead, ListRead
<1>4. CASE pool_get
  <2>1. list # <<>> /\ head = Head(list) /\ AllFree(Tail(list))'
    BY <1>1, <1>2, <1>4, GetTakes
  <2>2. FreeNodes' = Tail(list) /\ held' = held \cup {Head(list)}
    BY <1>3, <1>4, <2>1 DEF pool_get
  <2> QED  BY <1>2, <2>1, <2>2 DEF Stack!Next, Stack!Get
<1>5. ASSUME NEW c \in held, pool_put(c) PROVE Stack!Next
  <2>1. held' = held \ {c} /\ AllFree(<<c>> \o list)'
    BY <1>1, <1>2, <1>5, PutLinks
  <2>2. FreeNodes' = <<c>> \o list
    BY <1>3, <2>1
  <2> QED  BY <1>2, <2>1, <2>2 DEF Stack!Next, Stack!Put
<1>6. ASSUME NEW c \in held, Use(c) PROVE UNCHANGED <<FreeNodes, held>>
  <2>1. AllFree(list)' /\ held' = held
    BY <1>1, <1>2, <1>6, UseKeepsList DEF Use
  <2> QED  BY <1>2, <1>3, <2>1
<1>7. CASE UNCHANGED poolVars
  <2>1. AllFree(list)' /\ held' = held
    BY <1>1, <1>2, <1>7, MadeSame DEF poolVars, AllFree, Linked
  <2> QED  BY <1>2, <1>3, <2>1
<1> QED  BY <1>4, <1>5, <1>6, <1>7 DEF PoolNext, pool_get_nil

\* Read from memory link by link, whatever programs write into the chunks they hold, the
\* free list is a stack of chunks that nobody holds.
THEOREM PoolIsStack == ASSUME Strangers = {} PROVE PoolSpec => StackSpec
<1>1. PoolRead /\ PoolRead' /\ [PoolNext]_poolVars => [Stack!Next]_<<FreeNodes, held>>
  BY NextStack
<1> QED  BY <1>1, InitStack, PoolInvariant, PTL DEF PoolSpec, StackSpec, Stack!Spec

-----------------------------------------------------------------------------
(***************************************************************************)
(* Arena.  The inductive invariant: every block but those at prev_off ends *)
(* before prev_off, so that enlarging the block there in place reaches no  *)
(* other; curr_off passes the buffer by one size at most, so that no sum   *)
(* wraps; and what temp_arena_recover goes back to is laid out so too.     *)
(***************************************************************************)

\* Blocks bs laid out in an arena with these offsets.
Apart(bs) == \A b, c \in bs : b # c => b.at + b.size <= c.at \/ c.at + c.size <= b.at
Laid(prev, curr, bs) ==
  /\ prev \in Nat /\ curr \in Nat /\ prev <= curr
  /\ prev <= Length /\ (curr <= Length \/ \E size \in Sizes : curr <= Length + size)
  /\ \A b \in bs :
       /\ b = Block(b.at, b.size)
       /\ b.at \in Nat /\ b.size \in Nat /\ Base <= b.at
       /\ b.at + b.size <= Base + curr
       /\ b.at + b.size <= Base + prev \/ b.at = Base + prev
  /\ Apart(bs)

ArenaInv ==
  /\ Laid(prev_off, curr_off, blocks)
  /\ temp # none => Laid(temp.prev_off, temp.curr_off, temp.blocks)

-----------------------------------------------------------------------------
(***************************************************************************)
(* The steps.                                                              *)
(***************************************************************************)

\* Where a block is cut, without a sum that wraps.
LEMMA PlaceOfCut ==
  ASSUME SumsFit, Laid(prev_off, curr_off, blocks),
         NEW size \in Sizes, NEW align \in Alignments
  PROVE  /\ Offset(align) \in Nat /\ Offset(align) >= curr_off
         /\ Wrapped(Offset(align) + size) = Offset(align) + size
         /\ Wrapped(Base + Offset(align)) = Base + Offset(align)
<1>1. /\ Base \in Nat /\ Length \in Nat /\ size \in Nat /\ align \in Nat \ {0}
      /\ curr_off \in Nat /\ WordValues \in Nat /\ Sizes \subseteq Nat
  BY ArenaAssumption, WordAssumption DEF Laid
<1>2. Base + curr_off + align + size < WordValues
  <2>1. CASE curr_off <= Length
    <3>1. Base + Length + size + align + size < WordValues
      BY DEF SumsFit
    <3> QED  BY <1>1, <2>1, <3>1
  <2>2. ASSUME NEW other \in Sizes, curr_off <= Length + other
        PROVE  Base + curr_off + align + size < WordValues
    <3>1. Base + Length + other + align + size < WordValues /\ other \in Nat
      BY <1>1 DEF SumsFit
    <3> QED  BY <1>1, <2>2, <3>1
  <2> QED  BY <2>1, <2>2 DEF Laid
<1> DEFINE at == align_forward(Base + curr_off, align)
<1>3. Base + curr_off \in Nat /\ Base + curr_off + align < WordValues
  BY <1>1, <1>2
<1>4. at \in Nat /\ at >= Base + curr_off /\ at < Base + curr_off + align
  BY <1>1, <1>3, AlignsForward
<1>5. Wrapped(Base + curr_off) = Base + curr_off
  BY <1>1, <1>3, NotWrapped
<1>6. Offset(align) = Wrapped(at - Base)
  BY <1>5 DEF Offset
<1> HIDE DEF at
<1>7. at - Base \in Nat /\ at - Base < WordValues
  BY <1>1, <1>3, <1>4
<1>8. Offset(align) = at - Base
  BY <1>6, <1>7, NotWrapped
<1>9. /\ (at - Base) + size \in Nat /\ (at - Base) + size < WordValues
      /\ Base + (at - Base) \in Nat /\ Base + (at - Base) < WordValues
      /\ at - Base >= curr_off
  BY <1>1, <1>2, <1>4
<1> QED  BY <1>7, <1>8, <1>9, NotWrapped

\* A block that is cut lies behind all others.
LEMMA CutLaid ==
  ASSUME SumsFit, Laid(prev_off, curr_off, blocks),
         NEW size \in Sizes, NEW align \in Alignments,
         Fits(size, align), Cut(size, align), NEW bs, bs \subseteq blocks,
         blocks' = bs \cup {NewBlock(size, align)}
  PROVE  Laid(prev_off, curr_off, blocks)'
<1> DEFINE off == Offset(align)
           new == NewBlock(size, align)
<1>1. /\ Base \in Nat /\ Length \in Nat /\ prev_off \in Nat /\ curr_off \in Nat
      /\ prev_off <= curr_off /\ size \in Nat
  BY ArenaAssumption DEF Laid
<1>2. off \in Nat /\ off >= curr_off
  BY PlaceOfCut
<1>3. /\ new.at = Base + off /\ new.size = size
      /\ new = Block(new.at, new.size)
  BY PlaceOfCut DEF NewBlock, Block
<1>4. /\ off + size <= Length /\ prev_off' = off /\ curr_off' = off + size
  BY PlaceOfCut DEF Fits, Cut
<1> HIDE DEF off, new
<1>5. \A b \in bs :
        /\ b = Block(b.at, b.size)
        /\ b.at \in Nat /\ b.size \in Nat /\ Base <= b.at
        /\ b.at + b.size <= Base + curr_off
  BY DEF Laid
<1>6. \A b \in bs : b.at + b.size <= Base + off
  BY <1>1, <1>2, <1>5
<1>7. blocks' = bs \cup {new}
  BY DEF new
<1>8. ASSUME NEW b \in blocks'
      PROVE  /\ b = Block(b.at, b.size)
             /\ b.at \in Nat /\ b.size \in Nat /\ Base <= b.at
             /\ b.at + b.size <= Base + curr_off'
             /\ b.at + b.size <= Base + prev_off' \/ b.at = Base + prev_off'
  <2>1. CASE b = new
    BY <1>1, <1>2, <1>3, <1>4, <2>1
  <2>2. CASE b \in bs
    BY <1>1, <1>2, <1>4, <1>5, <1>6, <2>2
  <2> QED  BY <1>7, <2>1, <2>2
<1>9. Apart(blocks')
  <2>1. Apart(bs)
    BY DEF Laid, Apart
  <2>2. \A b \in bs : b.at + b.size <= new.at
    BY <1>3, <1>6
  <2> QED  BY <1>7, <2>1, <2>2 DEF Apart
<1>10. /\ prev_off' \in Nat /\ curr_off' \in Nat /\ prev_off' <= curr_off'
       /\ prev_off' <= Length /\ curr_off' <= Length
  BY <1>1, <1>2, <1>4
<1> QED  BY <1>8, <1>9, <1>10 DEF Laid

\* The block cut last is the only one of any length at prev_off: it may grow and shrink
\* there.
LEMMA ResizeLaid ==
  ASSUME SumsFit, Laid(prev_off, curr_off, blocks), NEW b \in blocks,
         NEW size \in Sizes, NEW align \in Alignments, arena_resize_in_place(b, size)
  PROVE  Laid(prev_off, curr_off, blocks)'
<1> DEFINE new == Block(b.at, size)
<1>1. /\ Base \in Nat /\ Length \in Nat /\ prev_off \in Nat /\ prev_off <= Length
      /\ size \in Nat /\ align \in Nat /\ WordValues \in Nat
      /\ b.at \in Nat /\ b.size \in Nat /\ b.size # 0
      /\ b.at = Wrapped(Base + prev_off) /\ curr_off' = Wrapped(prev_off + size)
  BY ArenaAssumption, WordAssumption DEF Laid, arena_resize_in_place, IsLast
<1>2. b.at = Base + prev_off /\ curr_off' = prev_off + size
  <2>1. Base + Length + size + align + size < WordValues
    BY DEF SumsFit
  <2>2. /\ Base + prev_off \in Nat /\ Base + prev_off < WordValues
        /\ prev_off + size \in Nat /\ prev_off + size < WordValues
    BY <1>1, <2>1
  <2> QED  BY <1>1, <2>2, NotWrapped
<1>3. prev_off' = prev_off /\ blocks' = (blocks \ {b}) \cup {new}
  BY DEF arena_resize_in_place
<1>4. new.at = b.at /\ new.size = size /\ new = Block(new.at, new.size)
  BY DEF Block
<1> HIDE DEF new
<1>5. ASSUME NEW c \in blocks, c # b
      PROVE  /\ c = Block(c.at, c.size)
             /\ c.at \in Nat /\ c.size \in Nat /\ Base <= c.at
             /\ c.at + c.size <= Base + prev_off
  <2>1. /\ c = Block(c.at, c.size)
        /\ c.at \in Nat /\ c.size \in Nat /\ Base <= c.at
        /\ c.at + c.size <= Base + prev_off \/ c.at = Base + prev_off
    BY DEF Laid
  <2>2. b.at + b.size <= c.at \/ c.at + c.size <= b.at
    BY <1>5 DEF Laid, Apart
  <2> QED  BY <1>1, <1>2, <2>1, <2>2
<1>6. ASSUME NEW c \in blocks'
      PROVE  /\ c = Block(c.at, c.size)
             /\ c.at \in Nat /\ c.size \in Nat /\ Base <= c.at
             /\ c.at + c.size <= Base + curr_off'
             /\ c.at + c.size <= Base + prev_off' \/ c.at = Base + prev_off'
  <2>1. CASE c = new
    BY <1>1, <1>2, <1>3, <1>4, <2>1
  <2>2. CASE c \in blocks /\ c # b
    BY <1>1, <1>2, <1>3, <1>5, <2>2
  <2> QED  BY <1>3, <2>1, <2>2
<1>7. Apart(blocks')
  <2>1. Apart(blocks)
    BY DEF Laid
  <2>2. \A c \in blocks \ {b} : c.at + c.size <= new.at
    BY <1>2, <1>4, <1>5
  <2> QED  BY <1>3, <2>1, <2>2 DEF Apart
<1>8. /\ prev_off' \in Nat /\ curr_off' \in Nat /\ prev_off' <= curr_off'
      /\ prev_off' <= Length /\ curr_off' <= Length + size
  BY <1>1, <1>2, <1>3
<1> QED  BY <1>6, <1>7, <1>8 DEF Laid

\* What temp_arena_create notes is what temp_arena_recover finds.
LEMMA TempSame ==
  ASSUME ArenaInv, UNCHANGED temp
  PROVE  (temp # none => Laid(temp.prev_off, temp.curr_off, temp.blocks))'
BY DEF ArenaInv, Laid, Apart

\* Cutting a block, or finding no room for it.
LEMMA AllocStep ==
  ASSUME SumsFit, ArenaInv, NEW size \in Sizes, NEW align \in Alignments,
         arena_alloc_align(size, align)
  PROVE  ArenaInv'
<1>2. Laid(prev_off, curr_off, blocks) /\ UNCHANGED temp
  BY DEF ArenaInv, arena_alloc_align
<1>3. CASE Fits(size, align) /\ Cut(size, align) /\ blocks' = blocks \cup {NewBlock(size, align)}
  BY <1>2, <1>3, CutLaid, TempSame DEF ArenaInv
<1>4. CASE UNCHANGED <<prev_off, curr_off, blocks>>
  <2>1. Laid(prev_off, curr_off, blocks)'
    BY <1>2, <1>4 DEF Laid, Apart
  <2> QED  BY <1>2, <2>1, TempSame DEF ArenaInv
<1> QED  BY <1>3, <1>4 DEF arena_alloc_align

\* Resizing, whichever way.
LEMMA ResizeStep ==
  ASSUME SumsFit, ArenaInv, NEW size \in Sizes, NEW align \in Alignments, NEW b \in blocks,
         \/ arena_resize_fresh(b, size, align)
         \/ arena_resize_in_place(b, size)
         \/ arena_resize_move(b, size, align)
  PROVE  ArenaInv'
<1>1. Laid(prev_off, curr_off, blocks)
  BY DEF ArenaInv
<1>2. CASE arena_resize_fresh(b, size, align)
  BY <1>2, AllocStep DEF arena_resize_fresh
<1>3. CASE arena_resize_in_place(b, size)
  <2>1. UNCHANGED temp
    BY <1>3 DEF arena_resize_in_place
  <2> QED  BY <1>1, <1>3, <2>1, ResizeLaid, TempSame DEF ArenaInv
<1>4. CASE arena_resize_move(b, size, align)
  <2>1. UNCHANGED temp
    BY <1>4 DEF arena_resize_move
  <2>2. Laid(prev_off, curr_off, blocks)'
    <3>1. CASE /\ Fits(size, align) /\ Cut(size, align)
               /\ blocks' = (blocks \ {b}) \cup {NewBlock(size, align)}
      <4>1. blocks \ {b} \subseteq blocks
        OBVIOUS
      <4> QED  BY <1>1, <3>1, <4>1, CutLaid
    <3>2. CASE UNCHANGED <<prev_off, curr_off, blocks>>
      BY <1>1, <3>2 DEF Laid, Apart
    <3> QED  BY <1>4, <3>1, <3>2 DEF arena_resize_move
  <2> QED  BY <2>1, <2>2, TempSame DEF ArenaInv
<1> QED  BY <1>2, <1>3, <1>4

\* Giving up all blocks, noting those there are, and giving up those that came after.
LEMMA GiveUpStep ==
  ASSUME ArenaInv, arena_free_all \/ temp_arena_create \/ temp_arena_recover
  PROVE  ArenaInv'
<1>1. CASE arena_free_all
  <2>1. prev_off' = 0 /\ curr_off' = 0 /\ blocks' = {} /\ UNCHANGED temp
    BY <1>1 DEF arena_free_all
  <2>2. Laid(prev_off, curr_off, blocks)'
    BY <2>1, ArenaAssumption DEF Laid, Apart
  <2> QED  BY <2>1, <2>2, TempSame DEF ArenaInv
<1>2. CASE temp_arena_create
  <2>1. /\ temp'.prev_off = prev_off /\ temp'.curr_off = curr_off /\ temp'.blocks = blocks
        /\ UNCHANGED <<prev_off, curr_off, blocks>>
    BY <1>2 DEF temp_arena_create
  <2>2. Laid(prev_off, curr_off, blocks)
    BY DEF ArenaInv
  <2> QED  BY <2>1, <2>2 DEF ArenaInv, Laid, Apart
<1>3. CASE temp_arena_recover
  <2>1. /\ temp # none /\ UNCHANGED temp
        /\ prev_off' = temp.prev_off /\ curr_off' = temp.curr_off
        /\ blocks' \subseteq temp.blocks
    BY <1>3 DEF temp_arena_recover
  <2>2. Laid(temp.prev_off, temp.curr_off, temp.blocks)
    BY <2>1 DEF ArenaInv
  <2>3. Laid(prev_off, curr_off, blocks)'
    BY <2>1, <2>2 DEF Laid, Apart
  <2> QED  BY <2>1, <2>3, TempSame DEF ArenaInv
<1> QED  BY <1>1, <1>2, <1>3

\* An arena is empty at first.
LEMMA InitArena == ArenaInit => ArenaInv
BY ArenaAssumption DEF ArenaInit, ArenaInv, Laid, Apart

\* Every step keeps the blocks laid out.
LEMMA NextArena == ASSUME SumsFit PROVE ArenaInv /\ [ArenaNext]_arenaVars => ArenaInv'
<1>1. ArenaInv /\ UNCHANGED arenaVars => ArenaInv'
  BY DEF arenaVars, ArenaInv, Laid, Apart
<1> QED  BY <1>1, AllocStep, ResizeStep, GiveUpStep DEF ArenaNext

\* BlocksDisjoint: two blocks in use share no byte, in whatever order blocks are cut,
\* resized in place, past the buffer too, or moved, given up and recovered, as long as no
\* sum of sizes reaches 2^64.
THEOREM BlocksKeepApart == ASSUME SumsFit PROVE ArenaSpec => []BlocksDisjoint
<1>1. ArenaInv => BlocksDisjoint
  BY DEF ArenaInv, Laid, Apart, BlocksDisjoint
<1>2. ArenaInv /\ [ArenaNext]_arenaVars => ArenaInv'
  BY NextArena
<1> QED  BY <1>1, <1>2, InitArena, PTL DEF ArenaSpec


-----------------------------------------------------------------------------
(***************************************************************************)
(* GlobalArena.  The same invariant for slices up to their capacities:     *)
(* only a slice at prev_offset can end behind it, and the offsets pass the *)
(* arena by one size at most.  It holds as long as no size wraps to one    *)
(* that is allowed, and no sum of sizes that are allowed wraps.            *)
(***************************************************************************)

End(s) == s.base + s.cap * s.type_size
IsSlice(s) ==
  /\ s = SliceAt(s.base, s.len, s.cap, s.type_size)
  /\ s.base \in Nat \cup {nowhere, left_behind}
  /\ s.cap \in Nat /\ s.type_size \in ElementSizes

SlicesLaid ==
  /\ \A s \in slices : IsSlice(s)
  /\ \A s \in InArena :
       End(s) <= curr_offset /\ (End(s) <= prev_offset \/ s.base = prev_offset)
  /\ \A s, other \in InArena : s # other => End(s) <= other.base \/ End(other) <= s.base

\* An arena is no longer than what replaces the longest that is replaced, or than what
\* the first slice makes.
LengthBound(length) ==
  /\ length \in Nat
  /\ length = 0 \/ \E a \in Allowed : length <= 2 * (MaxArena + a) + page_bytes

OffsetsBound ==
  /\ prev_offset \in Nat /\ curr_offset \in Nat
  /\ prev_offset <= curr_offset /\ prev_offset <= buf_length
  /\ curr_offset <= prev_offset \/ \E b \in Allowed : curr_offset <= prev_offset + b

GlobalInv == LengthBound(buf_length) /\ OffsetsBound /\ SlicesLaid

\* Where a slice of the arena ends is a number, behind where it starts.
LEMMA EndsBehind ==
  ASSUME NEW s, IsSlice(s), s.base \notin {nowhere, left_behind}
  PROVE  /\ s.base \in Nat /\ End(s) \in Nat /\ s.base <= End(s)
         /\ s.cap # 0 => s.base < End(s)
<1>1. s.base \in Nat /\ s.cap \in Nat /\ s.type_size \in Nat \ {0}
  BY GlobalArenaAssumption DEF IsSlice
<1>2. s.cap * s.type_size \in Nat /\ (s.cap # 0 => s.cap * s.type_size # 0)
  BY <1>1
<1> QED  BY <1>1, <1>2 DEF End

\* The constants and the sizes are numbers.
LEMMA GlobalNumbers ==
  ASSUME SizesFit
  PROVE  /\ WordValues \in Nat \ {0} /\ page_bytes \in Nat \ {0}
         /\ default_alignment \in Nat \ {0} /\ MaxArena \in Nat
         /\ Allowed \subseteq Nat
<1>1. /\ WordValues \in Nat \ {0} /\ page_bytes \in Nat \ {0}
      /\ default_alignment \in Nat \ {0} /\ MaxArena \in Nat
      /\ ElementSizes \subseteq Nat /\ Lengths \subseteq Nat
  BY GlobalArenaAssumption, WordAssumption
<1>2. \A mem \in SizesAsked : mem \in Nat
  BY <1>1, NotWrapped DEF SizesAsked
<1>3. \A mem \in SizesGrownTo : mem \in Nat
  <2> SUFFICES ASSUME NEW new_len \in Lengths, NEW old_cap \in 0 .. MaxCap,
                      NEW type_size \in ElementSizes
               PROVE  Wrapped(new_slice_cap(new_len, old_cap) * type_size) \in Nat
    BY DEF SizesGrownTo
  <2>1. new_slice_cap(new_len, old_cap) \in Nat
    BY DEF SizesFit
  <2>2. new_slice_cap(new_len, old_cap) * type_size \in Nat
    BY <1>1, <2>1
  <2> QED  BY <2>2, NotWrapped
<1> QED  BY <1>1, <1>2, <1>3 DEF Allowed

\* No sum with a size that is allowed wraps.
LEMMA SumsInWord ==
  ASSUME SizesFit, GlobalInv, NEW mem \in Allowed
  PROVE  /\ curr_offset + default_alignment + mem < WordValues
         /\ prev_offset + mem < WordValues
         /\ 2 * mem + page_bytes < WordValues
         /\ 2 * MaxArena + page_bytes + default_alignment + mem < WordValues
<1>1. /\ WordValues \in Nat /\ page_bytes \in Nat /\ default_alignment \in Nat
      /\ MaxArena \in Nat /\ Allowed \subseteq Nat /\ mem \in Nat
  BY GlobalNumbers
<1>2. /\ buf_length \in Nat /\ prev_offset \in Nat /\ curr_offset \in Nat
      /\ prev_offset <= curr_offset /\ prev_offset <= buf_length
  BY DEF GlobalInv, LengthBound, OffsetsBound
<1>3. \A a, b \in Allowed :
        2 * (MaxArena + a) + page_bytes + b + default_alignment + mem < WordValues
  BY DEF SizesFit
<1>4. PICK a \in Allowed : buf_length <= 2 * (MaxArena + a) + page_bytes
  BY <1>1, <1>2 DEF GlobalInv, LengthBound
<1>5. PICK b \in Allowed : curr_offset <= prev_offset + b
  BY <1>1, <1>2 DEF GlobalInv, OffsetsBound
<1>6. a \in Nat /\ b \in Nat
  BY <1>1
<1>7. 2 * (MaxArena + a) + page_bytes + b + default_alignment + mem < WordValues
  BY <1>3
<1>8. 2 * (MaxArena + mem) + page_bytes + mem + default_alignment + mem < WordValues
  BY <1>3
<1> QED  BY <1>1, <1>2, <1>4, <1>5, <1>6, <1>7, <1>8

\* A size is rounded up to pages, and 0 to 0.
LEMMA RoundsUp ==
  ASSUME SizesFit, NEW n \in Nat, n + page_bytes < WordValues
  PROVE  /\ rounded(n) \in Nat /\ rounded(n) <= n + page_bytes
         /\ rounded(0) = 0
<1>1. WordValues \in Nat \ {0} /\ page_bytes \in Nat \ {0}
  BY GlobalNumbers
<1>2. rounded(0) = 0
  <2> DEFINE q == WordValues \div page_bytes
             m == (WordValues - 1) \div page_bytes
             r == (WordValues - 1) % page_bytes
  <2>1. q \in Int /\ WordValues = q * page_bytes
    <3>1. /\ q \in Int /\ WordValues = q * page_bytes + (WordValues % page_bytes)
          /\ q * page_bytes \in Int
      BY <1>1, WordsAndRest
    <3> QED  BY <3>1, GlobalArenaAssumption
  <2>2. m \in Int /\ r \in 0 .. page_bytes - 1 /\ WordValues - 1 = m * page_bytes + r
    <3> DEFINE last == WordValues - 1
    <3>1. last \in Int
      BY <1>1
    <3> HIDE DEF last
    <3>2. /\ last \div page_bytes \in Int /\ last % page_bytes \in 0 .. page_bytes - 1
          /\ last = (last \div page_bytes) * page_bytes + (last % page_bytes)
      BY <1>1, <3>1, WordsAndRest
    <3> QED  BY <3>2 DEF last
  <2>3. (0 - 1) % WordValues = WordValues - 1
    BY <1>1
  <2> HIDE DEF q, m, r
  <2>4. q * page_bytes \in Int /\ m * page_bytes \in Int
    BY <1>1, <2>1, <2>2
  <2>5. (m + 1) * page_bytes = m * page_bytes + page_bytes
    BY <1>1, <2>2
  <2>6. ~ (m + 1 < q)
    <3>1. m + 1 < q => (m + 1) * page_bytes + page_bytes <= q * page_bytes
      BY <1>1, <2>1, <2>2, MultiplesApart
    <3> QED  BY <1>1, <2>1, <2>2, <2>4, <2>5, <3>1
  <2>7. ~ (q < m + 1)
    <3>1. q < m + 1 => q * page_bytes + page_bytes <= (m + 1) * page_bytes
      BY <1>1, <2>1, <2>2, MultiplesApart
    <3> QED  BY <1>1, <2>1, <2>2, <2>4, <2>5, <3>1
  <2>8. (m + 1) * page_bytes = WordValues
    BY <2>1, <2>2, <2>6, <2>7
  <2>9. rounded(0) = Wrapped((m + 1) * page_bytes)
    BY <2>3 DEF rounded, Wrapped, m
  <2>10. WordValues % WordValues = 0
    BY <1>1
  <2> QED  BY <2>8, <2>9, <2>10 DEF Wrapped
<1>3. CASE n # 0
  <2> DEFINE m == (n - 1) \div page_bytes
  <2>1. n - 1 \in Nat /\ n - 1 < WordValues
    BY <1>1, <1>3
  <2>2. m \in Nat /\ m * page_bytes <= n - 1
    BY <1>1, <2>1, WholeMultiples
  <2>3. rounded(n) = Wrapped((m + 1) * page_bytes)
    BY <2>1, NotWrapped DEF rounded
  <2> HIDE DEF m
  <2>4. m * page_bytes \in Nat /\ (m + 1) * page_bytes = m * page_bytes + page_bytes
    BY <1>1, <2>2
  <2>5. (m + 1) * page_bytes \in Nat /\ (m + 1) * page_bytes < WordValues
    BY <1>1, <2>1, <2>2, <2>4
  <2>6. rounded(n) = (m + 1) * page_bytes
    BY <2>3, <2>5, NotWrapped
  <2> QED  BY <1>1, <1>2, <2>1, <2>2, <2>4, <2>5, <2>6
<1>4. CASE n = 0
  BY <1>1, <1>2, <1>4
<1> QED  BY <1>3, <1>4

\* A place is nil or behind what is used, with room for all of the slice.
Place(at, mem, offset, length) ==
  /\ at \in Nat /\ at >= offset /\ at + mem <= length
  /\ Wrapped(at + mem) = at + mem

LEMMA PlaceBehind ==
  ASSUME SizesFit, NEW mem \in Nat, NEW offset \in Nat, NEW length \in Nat,
         offset + default_alignment + mem < WordValues
  PROVE  LET at == PlaceFor(mem, offset, length)
         IN  at = nowhere \/ Place(at, mem, offset, length)
<1> DEFINE place == align_forward(offset, default_alignment)
<1>1. default_alignment \in Nat \ {0} /\ WordValues \in Nat
  BY GlobalNumbers
<1>2. /\ place \in Nat /\ place >= offset /\ place < offset + default_alignment
  BY <1>1, AlignsForward
<1>3. PlaceFor(mem, offset, length) =
        IF Wrapped(place + mem) <= length THEN place ELSE nowhere
  BY DEF PlaceFor
<1> HIDE DEF place
<1>4. place + mem \in Nat /\ place + mem < WordValues
  BY <1>1, <1>2
<1>5. Wrapped(place + mem) = place + mem
  BY <1>4, NotWrapped
<1> QED  BY <1>2, <1>3, <1>5 DEF Place

\* A new slice is cut behind those of the arena; a grown one leaves its old place.
LEMMA CutSlice ==
  ASSUME SizesFit, GlobalInv,
         NEW cap \in Nat, NEW type_size \in ElementSizes, cap * type_size \in Allowed,
         NEW at, at = nowhere \/ Place(at, cap * type_size, curr_offset, buf_length'),
         NEW len, NEW rest, rest \subseteq slices,
         slices' = rest \cup {SliceAt(at, len, cap, type_size)},
         Allocate(at, cap * type_size), LengthBound(buf_length)',
         at = nowhere => buf_length' = buf_length
  PROVE  GlobalInv'
<1> DEFINE new == SliceAt(at, len, cap, type_size)
<1>1. /\ new.base = at /\ new.cap = cap /\ new.type_size = type_size
      /\ new = SliceAt(new.base, new.len, new.cap, new.type_size)
  BY DEF SliceAt
<1>2. IsSlice(new)
  BY <1>1 DEF IsSlice, Place
<1>3. slices' = rest \cup {new}
  OBVIOUS
<1>4. cap * type_size \in Nat /\ prev_offset \in Nat /\ curr_offset \in Nat
      /\ prev_offset <= curr_offset
  BY GlobalArenaAssumption DEF GlobalInv, OffsetsBound
<1>5. \A s \in slices : IsSlice(s)
  BY DEF GlobalInv, SlicesLaid
<1> HIDE DEF new
<1>6. \A s \in slices' : IsSlice(s)
  BY <1>2, <1>3, <1>5
<1>7. CASE at = nowhere
  <2>1. InArena' \subseteq InArena /\ UNCHANGED <<prev_offset, curr_offset, buf_length>>
    BY <1>1, <1>3, <1>7 DEF InArena, Allocate
  <2>2. SlicesLaid'
    BY <1>6, <2>1 DEF GlobalInv, SlicesLaid
  <2>3. OffsetsBound'
    BY <2>1 DEF GlobalInv, OffsetsBound
  <2> QED  BY <2>2, <2>3 DEF GlobalInv
<1>8. CASE at # nowhere
  <2>1. /\ at \in Nat /\ at >= curr_offset /\ at + cap * type_size <= buf_length'
        /\ prev_offset' = at /\ curr_offset' = at + cap * type_size
    BY <1>8 DEF Allocate, Place
  <2>2. /\ InArena' \subseteq InArena \cup {new} /\ new.base = at
        /\ End(new) = curr_offset'
    BY <1>1, <1>3, <2>1 DEF InArena, End
  <2>3. \A s \in InArena : End(s) <= curr_offset /\ End(s) \in Nat /\ s.base \in Nat
    BY <1>5, EndsBehind DEF GlobalInv, SlicesLaid, InArena
  <2>4. \A s \in InArena : End(s) <= at /\ End(s) <= curr_offset' /\ End(s) <= prev_offset'
    BY <1>4, <2>1, <2>3
  <2>5. \A s \in InArena' :
          End(s) <= curr_offset' /\ (End(s) <= prev_offset' \/ s.base = prev_offset')
    BY <1>4, <2>1, <2>2, <2>4
  <2>6. \A s, other \in InArena' : s # other => End(s) <= other.base \/ End(other) <= s.base
    BY <2>2, <2>4 DEF GlobalInv, SlicesLaid
  <2>7. /\ prev_offset' \in Nat /\ curr_offset' \in Nat /\ prev_offset' <= curr_offset'
        /\ prev_offset' <= buf_length' /\ curr_offset' <= prev_offset' + cap * type_size
    <3>1. buf_length' \in Nat
      BY DEF LengthBound
    <3> QED  BY <1>4, <2>1, <3>1
  <2>8. OffsetsBound'
    BY <2>7 DEF OffsetsBound
  <2>9. SlicesLaid'
    BY <1>6, <2>5, <2>6 DEF SlicesLaid
  <2> QED  BY <2>8, <2>9 DEF GlobalInv
<1> QED  BY <1>7, <1>8

\* make_slice.
LEMMA MakeSliceStep ==
  ASSUME SizesFit, GlobalInv, NEW type_size \in ElementSizes, NEW len \in Lengths,
         NEW cap \in Lengths,
         \/ make_slice_fits(type_size, len, cap)
         \/ make_slice_moves(type_size, len, cap)
  PROVE  GlobalInv'
<1> DEFINE mem == Wrapped(type_size * cap)
<1>1. /\ cap \in Nat /\ type_size \in Nat /\ type_size * cap \in Nat
      /\ type_size * cap = cap * type_size
      /\ WordValues \in Nat /\ page_bytes \in Nat /\ default_alignment \in Nat
      /\ MaxArena \in Nat
  <2>1. /\ cap \in Nat /\ type_size \in Nat /\ type_size * cap \in Nat
        /\ type_size * cap = cap * type_size
    BY GlobalArenaAssumption
  <2> QED  BY <2>1, GlobalNumbers
<1>2. mem \in Allowed /\ mem <= max_alloc
  <2>1. mem <= max_alloc
    BY DEF make_slice_fits, make_slice_moves
  <2>2. mem \in SizesAsked
    BY DEF SizesAsked
  <2> QED  BY <2>1, <2>2 DEF Allowed
<1>3. mem = cap * type_size /\ mem \in Nat
  BY <1>1, <1>2 DEF SizesFit
<1>4. /\ curr_offset + default_alignment + mem < WordValues
      /\ 2 * mem + page_bytes < WordValues
      /\ 2 * MaxArena + page_bytes + default_alignment + mem < WordValues
  BY <1>2, SumsInWord
<1>5. curr_offset \in Nat /\ LengthBound(buf_length) /\ buf_length \in Nat
  BY DEF GlobalInv, OffsetsBound, LengthBound
<1>6. CASE make_slice_fits(type_size, len, cap)
  <2> DEFINE length == IF buf_length = 0 THEN rounded(2 * mem) ELSE buf_length
             at == PlaceFor(mem, curr_offset, length)
  <2>1. /\ length # 0 /\ at # nowhere /\ buf_length' = length
        /\ Allocate(at, mem)
        /\ slices' = slices \cup {SliceAt(at, len, cap, type_size)}
    BY <1>6 DEF make_slice_fits
  <2>2. LengthBound(length)
    <3>1. CASE buf_length = 0
      <4>1. 2 * mem \in Nat
        BY <1>3
      <4>2. rounded(2 * mem) \in Nat /\ rounded(2 * mem) <= 2 * mem + page_bytes
        BY <1>4, <4>1, RoundsUp
      <4>3. 2 * mem + page_bytes <= 2 * (MaxArena + mem) + page_bytes
        BY <1>1, <1>3
      <4>4. length <= 2 * (MaxArena + mem) + page_bytes /\ length \in Nat
        BY <1>1, <1>3, <3>1, <4>2, <4>3
      <4> QED  BY <1>2, <4>4 DEF LengthBound
    <3>2. CASE buf_length # 0
      BY <1>5, <3>2
    <3> QED  BY <3>1, <3>2
  <2>3. length \in Nat
    BY <2>2 DEF LengthBound
  <2> HIDE DEF length
  <2>4. at = nowhere \/ Place(at, mem, curr_offset, length)
    BY <1>3, <1>4, <1>5, <2>3, PlaceBehind
  <2> HIDE DEF at
  <2>5. at = nowhere \/ Place(at, cap * type_size, curr_offset, buf_length')
    BY <1>3, <2>1, <2>4
  <2>6. LengthBound(buf_length')
    BY <2>1, <2>2
  <2>7. cap * type_size \in Allowed /\ Allocate(at, cap * type_size)
    BY <1>2, <1>3, <2>1
  <2> QED  BY <1>1, <2>1, <2>5, <2>6, <2>7, CutSlice
<1>7. CASE make_slice_moves(type_size, len, cap)
  <2> DEFINE length == rounded(2 * buf_length)
             at == PlaceFor(mem, 0, length)
             new == SliceAt(at, len, cap, type_size)
  <2>1. /\ buf_length \in 1 .. MaxArena - 1 /\ buf_length' = length
        /\ IF at = nowhere THEN prev_offset' = 0 /\ curr_offset' = 0
           ELSE prev_offset' = at /\ curr_offset' = Wrapped(at + mem)
        /\ slices' = {LeftBehind(s) : s \in slices} \cup {new}
    BY <1>7 DEF make_slice_moves, Allocate
  <2>2. LengthBound(length)
    <3>1. 2 * buf_length \in Nat /\ 2 * buf_length + page_bytes < WordValues
      BY <1>1, <1>3, <1>4, <2>1
    <3>2. length \in Nat /\ length <= 2 * buf_length + page_bytes
      BY <3>1, RoundsUp
    <3>3. length <= 2 * (MaxArena + mem) + page_bytes
      BY <1>1, <1>3, <2>1, <3>2
    <3> QED  BY <1>2, <3>2, <3>3 DEF LengthBound
  <2>3. length \in Nat
    BY <2>2 DEF LengthBound
  <2> HIDE DEF length
  <2>4. at = nowhere \/ Place(at, mem, 0, length)
    <3>1. 0 + default_alignment + mem < WordValues
      BY <1>1, <1>3, <1>4, <1>5
    <3> QED  BY <1>3, <2>3, <3>1, PlaceBehind
  <2>5. ASSUME NEW s \in slices
        PROVE  IsSlice(LeftBehind(s)) /\ LeftBehind(s).base \in {nowhere, left_behind}
    <3>1. IsSlice(s)
      BY DEF GlobalInv, SlicesLaid
    <3>2. CASE s.base = nowhere
      BY <3>1, <3>2 DEF LeftBehind
    <3>3. CASE s.base # nowhere
      <4>1. LeftBehind(s) = SliceAt(left_behind, s.len, s.cap, s.type_size)
        BY <3>1, <3>3 DEF LeftBehind, IsSlice, SliceAt
      <4> QED  BY <3>1, <4>1 DEF IsSlice, SliceAt
    <3> QED  BY <3>2, <3>3
  <2>6. new.base = at /\ End(new) = at + mem /\ IsSlice(new)
    BY <1>1, <1>3, <2>4 DEF SliceAt, End, IsSlice, Place
  <2> HIDE DEF at, new
  <2>7. InArena' \subseteq {new} /\ (at = nowhere => InArena' = {})
    BY <2>1, <2>5, <2>6 DEF InArena
  <2>8. \A s \in slices' : IsSlice(s)
    BY <2>1, <2>5, <2>6
  <2>9. CASE at = nowhere
    <3>1. OffsetsBound' /\ SlicesLaid'
      BY <2>1, <2>3, <2>7, <2>8, <2>9 DEF OffsetsBound, SlicesLaid
    <3> QED  BY <2>1, <2>2, <3>1 DEF GlobalInv
  <2>10. CASE at # nowhere
    <3>1. /\ prev_offset' = at /\ curr_offset' = at + mem
          /\ prev_offset' \in Nat /\ curr_offset' \in Nat /\ prev_offset' <= curr_offset'
          /\ prev_offset' <= buf_length' /\ curr_offset' <= prev_offset' + mem
      BY <1>3, <2>1, <2>3, <2>4, <2>10 DEF Place
    <3>2. OffsetsBound'
      BY <1>2, <3>1 DEF OffsetsBound
    <3>3. \A s \in InArena' : End(s) <= curr_offset' /\ s.base = prev_offset'
      BY <2>6, <2>7, <3>1
    <3>4. \A s, other \in InArena' : s = other
      BY <2>7
    <3>5. SlicesLaid'
      BY <2>8, <3>3, <3>4 DEF SlicesLaid
    <3> QED  BY <2>1, <2>2, <3>2, <3>5 DEF GlobalInv
  <2> QED  BY <2>9, <2>10
<1> QED  BY <1>6, <1>7

\* grow_slice.
LEMMA GrowSliceStep ==
  ASSUME SizesFit, GlobalInv, NEW s \in slices, NEW new_len \in Lengths, s.cap <= MaxCap,
         grow_slice_in_place(s, new_len) \/ grow_slice_moves(s, new_len)
  PROVE  GlobalInv'
<1> DEFINE cap == new_slice_cap(new_len, s.cap)
           mem == MemAfter(s, new_len)
<1>1. IsSlice(s) /\ s.cap \in 0 .. MaxCap /\ s.type_size \in ElementSizes
  BY GlobalArenaAssumption DEF GlobalInv, SlicesLaid, IsSlice
<1>2. mem \in Allowed
  <2>1. mem <= max_alloc
    BY DEF grow_slice_in_place, grow_slice_moves
  <2> QED  BY <1>1, <2>1 DEF Allowed, SizesGrownTo, MemAfter
<1>3. cap \in Nat /\ mem \in Nat /\ mem = cap * s.type_size
  <2>1. /\ cap \in Nat
        /\ Wrapped(cap * s.type_size) <= max_alloc => Wrapped(cap * s.type_size) = cap * s.type_size
    BY <1>1 DEF SizesFit
  <2> QED  BY <1>2, <2>1, GlobalNumbers DEF MemAfter, Allowed
<1>4. cap = new_slice_cap(new_len, s.cap) /\ mem = MemAfter(s, new_len)
  OBVIOUS
<1> HIDE DEF cap, mem
<1>5. /\ curr_offset + default_alignment + mem < WordValues
      /\ prev_offset + mem < WordValues
  BY <1>2, SumsInWord
<1>6. /\ prev_offset \in Nat /\ curr_offset \in Nat /\ buf_length \in Nat
      /\ prev_offset <= curr_offset /\ prev_offset <= buf_length
      /\ LengthBound(buf_length) /\ \A c \in slices : IsSlice(c)
  BY DEF GlobalInv, SlicesLaid, OffsetsBound, LengthBound
<1>7. CASE grow_slice_in_place(s, new_len)
  <2> DEFINE new == SliceAt(s.base, new_len, cap, s.type_size)
  <2>1. /\ s.cap # 0 /\ s.base \in Nat /\ s.base = prev_offset
        /\ prev_offset' = prev_offset /\ curr_offset' = Wrapped(prev_offset + mem)
        /\ slices' = (slices \ {s}) \cup {new} /\ buf_length' = buf_length
    BY <1>4, <1>6, <1>7 DEF grow_slice_in_place, Grown, IsCutLast, StartsInArena
  <2>2. curr_offset' = prev_offset + mem
    <3>1. prev_offset + mem \in Nat
      BY <1>3, <1>6
    <3> QED  BY <1>5, <2>1, <3>1, NotWrapped
  <2>3. s \in InArena /\ s.base < End(s) /\ End(s) \in Nat
    BY <1>1, <1>6, <2>1, EndsBehind DEF InArena, nowhere, left_behind
  <2>4. new.base = prev_offset /\ End(new) = prev_offset + mem /\ IsSlice(new)
    BY <1>1, <1>3, <1>6, <2>1 DEF SliceAt, End, IsSlice
  <2> HIDE DEF new
  <2>5. \A c \in slices' : IsSlice(c)
    BY <1>6, <2>1, <2>4
  <2>6. InArena' \subseteq (InArena \ {s}) \cup {new}
    BY <2>1 DEF InArena
  <2>7. ASSUME NEW c \in InArena, c # s PROVE End(c) <= prev_offset /\ End(c) \in Nat
    <3>1. /\ c.base \in Nat /\ End(c) \in Nat /\ c.base <= End(c)
          /\ End(c) <= prev_offset \/ c.base = prev_offset
          /\ End(s) <= c.base \/ End(c) <= s.base
      BY <1>6, <2>3, <2>7, EndsBehind DEF GlobalInv, SlicesLaid, InArena
    <3> QED  BY <1>6, <2>1, <2>3, <3>1
  <2>8. OffsetsBound'
    <3>1. /\ curr_offset' \in Nat /\ prev_offset' \in Nat
          /\ prev_offset' <= curr_offset' /\ prev_offset' <= buf_length'
          /\ curr_offset' <= prev_offset' + mem
      BY <1>3, <1>6, <2>1, <2>2
    <3> QED  BY <1>2, <3>1 DEF OffsetsBound
  <2>9. \A c \in InArena' :
          End(c) <= curr_offset' /\ (End(c) <= prev_offset' \/ c.base = prev_offset')
    BY <1>3, <1>6, <2>1, <2>2, <2>4, <2>6, <2>7
  <2>10. \A c, d \in InArena' : c # d => End(c) <= d.base \/ End(d) <= c.base
    <3>1. \A c \in InArena \ {s} : End(c) <= new.base
      BY <2>4, <2>7
    <3> QED  BY <2>6, <3>1 DEF GlobalInv, SlicesLaid
  <2>11. SlicesLaid'
    BY <2>5, <2>9, <2>10 DEF SlicesLaid
  <2>12. LengthBound(buf_length')
    BY <1>6, <2>1
  <2> QED  BY <2>8, <2>11, <2>12 DEF GlobalInv
<1>8. CASE grow_slice_moves(s, new_len)
  <2> DEFINE at == PlaceFor(mem, curr_offset, buf_length)
  <2>1. at = nowhere \/ Place(at, mem, curr_offset, buf_length)
    BY <1>3, <1>5, <1>6, PlaceBehind
  <2>2. \/ /\ Allocate(at, mem)
           /\ slices' = (slices \ {s}) \cup {SliceAt(at, new_len, cap, s.type_size)}
           /\ buf_length' = buf_length
        \/ UNCHANGED <<buf_length, prev_offset, curr_offset, slices>>
    BY <1>4, <1>8 DEF grow_slice_moves, Grown, Stop
  <2> HIDE DEF at
  <2>3. CASE UNCHANGED <<buf_length, prev_offset, curr_offset, slices>>
    BY <2>3 DEF GlobalInv, SlicesLaid, InArena, OffsetsBound, LengthBound
  <2>4. CASE /\ Allocate(at, mem)
             /\ slices' = (slices \ {s}) \cup {SliceAt(at, new_len, cap, s.type_size)}
             /\ buf_length' = buf_length
    <3>1. /\ at = nowhere \/ Place(at, cap * s.type_size, curr_offset, buf_length')
          /\ cap * s.type_size \in Allowed /\ Allocate(at, cap * s.type_size)
      BY <1>2, <1>3, <2>1, <2>4
    <3>2. LengthBound(buf_length') /\ slices \ {s} \subseteq slices
      BY <1>6, <2>4
    <3> QED  BY <1>1, <1>3, <2>4, <3>1, <3>2, CutSlice
  <2> QED  BY <2>2, <2>3, <2>4
<1> QED  BY <1>7, <1>8

\* Every step keeps the slices laid out.
LEMMA NextGlobal ==
  ASSUME SizesFit, GlobalInv, [GlobalNext]_globalVars
  PROVE  GlobalInv'
<1>1. ASSUME UNCHANGED <<buf_length, prev_offset, curr_offset, slices>> PROVE GlobalInv'
  BY <1>1 DEF GlobalInv, SlicesLaid, InArena, OffsetsBound, LengthBound
<1>2. ASSUME NEW type_size \in ElementSizes, NEW len \in Lengths, NEW cap \in Lengths,
             make_slice_stops(type_size, len, cap)
      PROVE  GlobalInv'
  BY <1>1, <1>2 DEF make_slice_stops, Stop
<1>3. ASSUME NEW s \in slices, NEW new_len \in Lengths, grow_slice(s, new_len)
      PROVE  GlobalInv'
  BY <1>1, <1>3, GrowSliceStep DEF grow_slice, grow_slice_stops, Stop
<1> QED  BY <1>1, <1>2, <1>3, MakeSliceStep DEF GlobalNext, globalVars

\* SlicesApart: slices made and grown in any order, in place or not, share no byte of the
\* arena, however often it is replaced, as long as no size and no sum of sizes that are
\* allowed wraps at 2^64.
THEOREM SlicesKeepApart == ASSUME SizesFit PROVE GlobalSpec => []SlicesApart
<1>1. GlobalInit => GlobalInv
  BY DEF GlobalInit, GlobalInv, SlicesLaid, InArena, OffsetsBound, LengthBound
<1>2. GlobalInv => SlicesApart
  <2> SUFFICES ASSUME GlobalInv, NEW s \in InArena, NEW other \in InArena, s # other
               PROVE  BytesOf(s) \cap BytesOf(other) = {}
    BY DEF SlicesApart
  <2>1. /\ s.base \in Nat /\ End(s) \in Nat /\ other.base \in Nat /\ End(other) \in Nat
        /\ End(s) <= other.base \/ End(other) <= s.base
    BY EndsBehind DEF GlobalInv, SlicesLaid, InArena
  <2>2. ASSUME NEW x \in InArena PROVE BytesOf(x) = x.base .. End(x) - 1
    <3>1. x.base \in Nat /\ x.cap \in Nat /\ x.type_size \in Nat
      BY EndsBehind, GlobalArenaAssumption DEF GlobalInv, SlicesLaid, InArena, IsSlice
    <3>2. x.cap * x.type_size \in Nat
      BY <3>1
    <3>3. x.base + (x.cap * x.type_size - 1) = (x.base + x.cap * x.type_size) - 1
      BY <3>1, <3>2
    <3> QED  BY <3>3 DEF BytesOf, End
  <2>3. \A a, b, c, d \in Nat : b <= c \/ d <= a => (a .. b - 1) \cap (c .. d - 1) = {}
    OBVIOUS
  <2> QED  BY <2>1, <2>2, <2>3
<1>3. GlobalInv /\ [GlobalNext]_globalVars => GlobalInv'
  BY NextGlobal
<1> QED  BY <1>1, <1>2, <1>3, PTL DEF GlobalSpec

=============================================================================
