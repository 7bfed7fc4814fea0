-------------------------- MODULE ClientMemoryProofs --------------------------
(***************************************************************************)
(* Proofs about ClientMemory for any sizes and numbers of clients, pools   *)
(* and pages: no link is stored over what a session keeps in its client,   *)
(* and the lists read from memory are the sequences of ClientPools, step   *)
(* by step.                                                                *)
(***************************************************************************)
EXTENDS ClientMemory, DataLemmas

-----------------------------------------------------------------------------
(***************************************************************************)
(* The layout.                                                             *)
(***************************************************************************)

Clients(p) == {chunk_at(p, i) : i \in ChunkIndex}

\* The constants, in numbers.
LEMMA Constants ==
  /\ page_size \in Nat /\ page_size >= 4
  /\ client_size \in Nat /\ client_size >= 2
  /\ max_pools \in Nat /\ max_pools >= 1
  /\ max_clients_in_pool \in Nat /\ max_clients_in_pool >= 1
  /\ nil = 0 /\ header_size = 4
BY ClientMemoryAssumption DEF nil, header_size

\* An arena holds the header and all clients.
LEMMA ArenaHolds ==
  /\ arena_size \in Nat /\ page_size <= arena_size
  /\ header_size + max_clients_in_pool * client_size <= arena_size
<1> DEFINE last == (pool_size + header_size) - 1
           pages == last \div page_size
<1>1. last \in Nat /\ last + 1 = header_size + max_clients_in_pool * client_size
  <2>1. client_size * max_clients_in_pool \in Nat
    BY Constants
  <2>2. client_size * max_clients_in_pool = max_clients_in_pool * client_size
    BY Constants
  <2> QED  BY <2>1, <2>2, Constants DEF pool_size
<1>2. arena_size = (pages + 1) * page_size
  BY DEF arena_size, rounded_up
<1> HIDE DEF last
<1>3. /\ pages \in Nat /\ last % page_size \in 0 .. page_size - 1
      /\ last = pages * page_size + (last % page_size)
  <2>1. last \in Int /\ page_size \in Nat \ {0}
    BY <1>1, Constants
  <2>2. last \div page_size \in Nat
    BY <1>1, <2>1, WordCount
  <2>3. /\ last % page_size \in 0 .. page_size - 1
        /\ last = (last \div page_size) * page_size + (last % page_size)
    BY <2>1, WordsAndRest
  <2> QED  BY <2>2, <2>3
<1> HIDE DEF pages
<1>4. (pages + 1) * page_size = pages * page_size + page_size /\ pages * page_size \in Nat
  BY <1>3, Constants
<1> QED  BY <1>1, <1>2, <1>3, <1>4, Constants

\* Clients lie behind the header, in the arena, and apart.
LEMMA ClientsApart ==
  ASSUME NEW p \in Arenas
  PROVE  /\ p \in Nat /\ p > 0
         /\ \A c \in Clients(p) :
              c \in Nat /\ p + 4 <= c /\ c + client_size <= p + arena_size
         /\ \A i, j \in ChunkIndex :
              i # j => \/ chunk_at(p, i) + client_size <= chunk_at(p, j)
                       \/ chunk_at(p, j) + client_size <= chunk_at(p, i)
<1>1. p \in Nat /\ p > 0
  BY ClientMemoryAssumption
<1>2. \A i \in ChunkIndex : i \in Nat /\ i * client_size \in Nat /\ i < max_clients_in_pool
  BY Constants DEF ChunkIndex
<1>3. ASSUME NEW i \in ChunkIndex
      PROVE  /\ chunk_at(p, i) \in Nat /\ p + 4 <= chunk_at(p, i)
             /\ chunk_at(p, i) + client_size <= p + arena_size
  <2>1. i * client_size + client_size <= max_clients_in_pool * client_size
    BY <1>2, Constants, MultiplesApart
  <2>2. max_clients_in_pool * client_size \in Nat
    BY Constants
  <2> QED  BY <1>1, <1>2, <2>1, <2>2, ArenaHolds, Constants DEF chunk_at
<1>4. ASSUME NEW i \in ChunkIndex, NEW j \in ChunkIndex, i < j
      PROVE  chunk_at(p, i) + client_size <= chunk_at(p, j)
  <2>1. i * client_size + client_size <= j * client_size
    BY <1>2, <1>4, Constants, MultiplesApart
  <2> QED  BY <1>1, <1>2, <2>1, Constants DEF chunk_at
<1>5. ASSUME NEW i \in ChunkIndex, NEW j \in ChunkIndex, i # j
      PROVE  \/ chunk_at(p, i) + client_size <= chunk_at(p, j)
             \/ chunk_at(p, j) + client_size <= chunk_at(p, i)
  BY <1>2, <1>4, <1>5
<1> QED  BY <1>1, <1>3, <1>5 DEF Clients

\* Where the words of a client lie.
LEMMA ClientWords ==
  ASSUME NEW p \in Arenas, NEW c \in Clients(p)
  PROVE  /\ c \in Nat /\ c > 0 /\ c \in Words(p) /\ next_at(c) \in Words(p)
         /\ c \notin {head_at(p), free_ch_at(p), used_ch_at(p), client_at(p)}
         /\ next_at(c) \notin {head_at(p), free_ch_at(p), used_ch_at(p), client_at(p)}
         /\ \A a \in Fields(c) :
              a \in Words(p) /\ a \notin {head_at(p), free_ch_at(p), used_ch_at(p), client_at(p)}
         /\ c \in Fields(c)
         /\ \A d \in Clients(p) : /\ c # next_at(d)
                                  /\ next_at(c) \notin Fields(d)
                                  /\ c # d => next_at(c) # next_at(d)
                                  /\ c # d => c \notin Fields(d)
                                  /\ c # d => Fields(c) \cap Fields(d) = {}
<1>1. /\ p \in Nat /\ c \in Nat /\ p + 4 <= c /\ c + client_size <= p + arena_size /\ p > 0
      /\ client_size \in Nat /\ client_size >= 2 /\ arena_size \in Nat
  BY ClientsApart, Constants, ArenaHolds
<1>2. ASSUME NEW d \in Clients(p), c # d
      PROVE  d \in Nat /\ (c + client_size <= d \/ d + client_size <= c)
  <2>1. PICK i \in ChunkIndex : c = chunk_at(p, i)
    BY DEF Clients
  <2>2. PICK j \in ChunkIndex : d = chunk_at(p, j)
    BY DEF Clients
  <2> QED  BY <1>2, <2>1, <2>2, ClientsApart
<1>3. \A a \in Fields(c) : a \in c .. c + client_size - 1 /\ a # next_at(c)
  BY DEF Fields
<1>4. ASSUME NEW d \in Clients(p)
      PROVE  /\ c # next_at(d)
             /\ next_at(c) \notin Fields(d)
             /\ c # d => next_at(c) # next_at(d)
             /\ c # d => c \notin Fields(d)
             /\ c # d => Fields(c) \cap Fields(d) = {}
  <2>1. CASE c = d
    BY <1>1, <2>1 DEF next_at, Fields
  <2>2. CASE c # d
    BY <1>1, <1>2, <2>2 DEF next_at, Fields
  <2> QED  BY <2>1, <2>2
<1>5. /\ c \in Words(p) /\ next_at(c) \in Words(p)
      /\ c \notin {head_at(p), free_ch_at(p), used_ch_at(p), client_at(p)}
      /\ next_at(c) \notin {head_at(p), free_ch_at(p), used_ch_at(p), client_at(p)}
      /\ c \in Fields(c)
  BY <1>1 DEF next_at, Words, Fields, head_at, free_ch_at, used_ch_at, client_at
<1>6. \A a \in Fields(c) :
        a \in Words(p) /\ a \notin {head_at(p), free_ch_at(p), used_ch_at(p), client_at(p)}
  BY <1>1, <1>3 DEF Words, head_at, free_ch_at, used_ch_at, client_at
<1> QED  BY <1>1, <1>4, <1>5, <1>6

\* The header's words are four words of the arena.
LEMMA HeaderWords ==
  ASSUME NEW p \in Arenas
  PROVE  /\ {head_at(p), free_ch_at(p), used_ch_at(p), client_at(p)} \subseteq Words(p)
         /\ head_at(p) # free_ch_at(p) /\ head_at(p) # used_ch_at(p)
         /\ head_at(p) # client_at(p) /\ free_ch_at(p) # used_ch_at(p)
         /\ free_ch_at(p) # client_at(p) /\ used_ch_at(p) # client_at(p)
         /\ p = head_at(p) /\ p \in Words(p)
<1>1. p \in Nat /\ arena_size \in Nat /\ arena_size >= 4
  BY ClientsApart, ArenaHolds, Constants
<1> QED  BY <1>1 DEF Words, head_at, free_ch_at, used_ch_at, client_at

\* No word belongs to two arenas; nil is none.
LEMMA ArenasApart ==
  /\ \A p \in Arenas : Words(p) \subseteq StoreAddress
  /\ \A p, q \in Arenas : p # q => Words(p) \cap Words(q) = {}
  /\ StoreAddress \subseteq Nat /\ nil \notin StoreAddress
<1>1. \A p \in Arenas : p \in Nat /\ p > 0
  BY ClientMemoryAssumption
<1>2. ASSUME NEW p \in Arenas, NEW q \in Arenas, p # q PROVE Words(p) \cap Words(q) = {}
  <2>1. p + arena_size <= q \/ q + arena_size <= p
    BY <1>2, ClientMemoryAssumption
  <2> QED  BY <1>1, <2>1, ArenaHolds DEF Words
<1>3. \A p \in Arenas : Words(p) \subseteq Nat \ {nil}
  BY <1>1, ArenaHolds DEF Words, nil
<1> QED  BY <1>2, <1>3 DEF StoreAddress

-----------------------------------------------------------------------------
(***************************************************************************)
(* The inductive invariant.                                                *)
(***************************************************************************)

\* What the word that leads on from node i of a list holds; the word that leads to its
\* first node is node 0.
After(list, i) == IF i = Len(list) THEN nil ELSE list[i + 1]

\* In memory m the pool at p has the clients f on its free list and u on its client list:
\* each once, all of them, and as many as the header counts.
PoolAt(m, p, f, u) ==
  /\ f \in Seq(Clients(p)) /\ u \in Seq(Clients(p)) /\ EachOnce(f, u)
  /\ Len(f) + Len(u) = max_clients_in_pool
  /\ m[head_at(p)] = After(f, 0)
  /\ \A i \in 1 .. Len(f) : m[link_at(f[i])] = After(f, i)
  /\ m[client_at(p)] = After(u, 0)
  /\ \A i \in 1 .. Len(u) : m[next_at(u[i])] = After(u, i)
  /\ m[free_ch_at(p)] = Len(f) /\ m[used_ch_at(p)] = Len(u)

Filed(p) == \E i \in 1 .. n_pls : first_clp[i] = p
InUse(c) ==
  \E p \in Arenas : Filed(p) /\ \E k \in 1 .. Len(ClientList(p)) : ClientList(p)[k] = c

MemoryInv ==
  /\ first_clp \in Seq(Arenas) /\ n_pls \in 1 .. max_pools /\ NoDuplicates(first_clp)
  /\ store = [a \in StoreAddress |-> store[a]]
  /\ \A p \in Arenas : IF Filed(p) THEN PoolAt(store, p, FreeNodesOf(p), ClientList(p))
                       ELSE store[p] = unmapped
  /\ new # nil => InUse(new) /\ new \notin wrote
  /\ \A c \in wrote : InUse(c)
  /\ FieldsKept
  /\ exited \in BOOLEAN

-----------------------------------------------------------------------------
(***************************************************************************)
(* One pool in memory.                                                     *)
(***************************************************************************)

\* The lists of a pool are what is read link by link.
LEMMA ReadsPool ==
  ASSUME NEW m, NEW p \in Arenas, NEW f, NEW u, PoolAt(m, p, f, u)
  PROVE  /\ ListFrom(m[head_at(p)], [a \in StoreAddress |-> m[link_at(a)]],
                     max_clients_in_pool) = f
         /\ ListFrom(m[client_at(p)],
                     [a \in {c \in StoreAddress : next_at(c) \in StoreAddress} |-> m[next_at(a)]],
                     max_clients_in_pool) = u
<1> DEFINE links == [a \in StoreAddress |-> m[link_at(a)]]
           linked == {c \in StoreAddress : next_at(c) \in StoreAddress}
           nexts == [a \in linked |-> m[next_at(a)]]
<1>1. /\ f \in Seq(Clients(p)) /\ u \in Seq(Clients(p))
      /\ Len(f) \in Nat /\ Len(u) \in Nat /\ Len(f) + Len(u) = max_clients_in_pool
      /\ \A i \in 1 .. Len(f) : f[i] \in Clients(p)
      /\ \A i \in 1 .. Len(u) : u[i] \in Clients(p)
  BY LenProperties, ElementOfSeq DEF PoolAt
<1>2. \A c \in Clients(p) : c \in StoreAddress /\ c \in linked
  BY ClientWords, ArenasApart
<1>3. /\ f \in Seq(StoreAddress) /\ u \in Seq(linked)
      /\ f = <<>> <=> Len(f) = 0
      /\ u = <<>> <=> Len(u) = 0
  <2>1. Clients(p) \subseteq StoreAddress /\ Clients(p) \subseteq linked
    BY <1>2
  <2> HIDE DEF linked
  <2> QED  BY <2>1, <1>1, EmptySeq
<1>4. Links(m[head_at(p)], links, f, nil)
  <2>1. m[head_at(p)] = IF f = <<>> THEN nil ELSE f[1]
    BY <1>1, <1>3 DEF PoolAt, After
  <2>2. \A i \in 1 .. Len(f) : links[f[i]] = IF i = Len(f) THEN nil ELSE f[i + 1]
    BY <1>1, <1>2 DEF PoolAt, After
  <2> QED  BY <1>3, <2>1, <2>2 DEF Links
<1>5. Links(m[client_at(p)], nexts, u, nil)
  <2>1. m[client_at(p)] = IF u = <<>> THEN nil ELSE u[1]
    BY <1>1, <1>3 DEF PoolAt, After
  <2>2. \A i \in 1 .. Len(u) : nexts[u[i]] = IF i = Len(u) THEN nil ELSE u[i + 1]
    BY <1>1, <1>2 DEF PoolAt, After
  <2> QED  BY <1>3, <2>1, <2>2 DEF Links
<1>6. nil \notin DOMAIN links /\ nil \notin DOMAIN nexts
  BY ArenasApart
<1>7. max_clients_in_pool \in Nat /\ Len(f) <= max_clients_in_pool /\ Len(u) <= max_clients_in_pool
  BY <1>1, Constants
<1> HIDE DEF links, nexts
<1>8. ListFrom(m[head_at(p)], links, max_clients_in_pool) = f
  BY <1>4, <1>6, <1>7, ReadsLinks
<1>9. ListFrom(m[client_at(p)], nexts, max_clients_in_pool) = u
  BY <1>5, <1>6, <1>7, ReadsLinks
<1> QED  BY <1>8, <1>9 DEF links, nexts

\* The first word of a pool is nil or an address: it is mapped.
LEMMA FirstWordSet ==
  ASSUME NEW m, NEW p \in Arenas, NEW f, NEW u, PoolAt(m, p, f, u)
  PROVE  m[p] # unmapped
<1>1. m[p] = After(f, 0) /\ f \in Seq(Clients(p))
  BY DEF PoolAt, head_at
<1>2. After(f, 0) \in Int
  <2>1. CASE Len(f) = 0
    BY <2>1, Constants DEF After
  <2>2. CASE Len(f) # 0
    <3>1. 1 \in 1 .. Len(f) /\ 0 + 1 = 1
      BY <1>1, <2>2, LenProperties
    <3>2. f[1] \in Nat
      BY <1>1, <3>1, ElementOfSeq, ClientsApart
    <3> QED  BY <2>2, <3>1, <3>2 DEF After
  <2> QED  BY <2>1, <2>2
<1> QED  BY <1>1, <1>2, ClientMemoryAssumption

\* What happens elsewhere in memory does not change a pool.
LEMMA PoolUntouched ==
  ASSUME NEW m, NEW m2, NEW p \in Arenas, NEW f, NEW u, PoolAt(m, p, f, u),
         \A a \in Words(p) : m2[a] = m[a]
  PROVE  PoolAt(m2, p, f, u)
<1>1. /\ \A i \in 1 .. Len(f) : f[i] \in Clients(p)
      /\ \A i \in 1 .. Len(u) : u[i] \in Clients(p)
  BY ElementOfSeq DEF PoolAt
<1>2. \A c \in Clients(p) : m2[c] = m[c] /\ m2[next_at(c)] = m[next_at(c)]
  BY ClientWords
<1>3. /\ m2[head_at(p)] = m[head_at(p)] /\ m2[client_at(p)] = m[client_at(p)]
      /\ m2[free_ch_at(p)] = m[free_ch_at(p)] /\ m2[used_ch_at(p)] = m[used_ch_at(p)]
  BY HeaderWords
<1>4. /\ \A i \in 1 .. Len(f) : m2[link_at(f[i])] = m[link_at(f[i])]
      /\ \A i \in 1 .. Len(u) : m2[next_at(u[i])] = m[next_at(u[i])]
  BY <1>1, <1>2 DEF link_at
<1> QED  BY <1>3, <1>4 DEF PoolAt

\* In front of a list its links are those of the list, one place further on.
LEMMA PushedAfter ==
  ASSUME NEW S, NEW s \in Seq(S), NEW c \in S
  PROVE  /\ After(<<c>> \o s, 0) = c
         /\ \A i \in 1 .. Len(<<c>> \o s) : After(<<c>> \o s, i) = After(s, i - 1)
<1> DEFINE v == <<c>> \o s
<1>1. /\ Len(s) \in Nat /\ Len(v) = Len(s) + 1
      /\ \A i \in 1 .. Len(s) + 1 : v[i] = IF i = 1 THEN c ELSE s[i - 1]
  BY LenProperties, PushProperties
<1> HIDE DEF v
<1>2. After(v, 0) = c
  BY <1>1 DEF After
<1>3. ASSUME NEW i \in 1 .. Len(v) PROVE After(v, i) = After(s, i - 1)
  <2>1. CASE i = Len(v)
    BY <2>1, <1>1 DEF After
  <2>2. CASE i # Len(v)
    <3>1. i + 1 \in 1 .. Len(s) + 1 /\ i + 1 # 1 /\ i - 1 # Len(s) /\ (i - 1) + 1 = (i + 1) - 1
      BY <2>2, <1>1
    <3>2. v[i + 1] = s[(i + 1) - 1]
      BY <3>1, <1>1
    <3> QED  BY <3>1, <3>2, <2>2 DEF After
  <2> QED  BY <2>1, <2>2
<1> QED  BY <1>2, <1>3 DEF v

\* pool_get and session_new: the first free chunk of a pool becomes its first client.
LEMMA TakenFrom ==
  ASSUME NEW m, NEW m2, NEW p \in Arenas, NEW f, NEW u, PoolAt(m, p, f, u), Len(f) > 0,
         NEW c, c = f[1], m2[head_at(p)] = m[link_at(c)],
         m2[next_at(c)] = m[client_at(p)], m2[client_at(p)] = c,
         m2[free_ch_at(p)] = m[free_ch_at(p)] - 1, m2[used_ch_at(p)] = m[used_ch_at(p)] + 1,
         \A a \in Words(p) :
           a \notin {head_at(p), free_ch_at(p), used_ch_at(p), client_at(p), next_at(c)}
             => m2[a] = m[a]
  PROVE  PoolAt(m2, p, Tail(f), <<c>> \o u)
<1> DEFINE g == Tail(f)
           v == <<c>> \o u
<1>1. /\ f \in Seq(Clients(p)) /\ u \in Seq(Clients(p)) /\ EachOnce(f, u)
      /\ Len(f) \in Nat /\ Len(u) \in Nat /\ Len(f) + Len(u) = max_clients_in_pool
      /\ \A i \in 1 .. Len(f) : f[i] \in Clients(p)
      /\ \A i \in 1 .. Len(u) : u[i] \in Clients(p)
  BY LenProperties, ElementOfSeq DEF PoolAt
<1>2. f # <<>> /\ Head(f) = c /\ c \in Clients(p) /\ 1 \in 1 .. Len(f)
  BY <1>1, EmptySeq, HeadTailProperties
<1>3. /\ g \in Seq(Clients(p)) /\ Len(g) = Len(f) - 1
      /\ \A i \in 1 .. Len(g) : g[i] = f[i + 1]
  BY <1>1, <1>2, HeadTailProperties
<1>4. /\ v \in Seq(Clients(p)) /\ Len(v) = Len(u) + 1
      /\ \A i \in 1 .. Len(u) + 1 : v[i] = IF i = 1 THEN c ELSE u[i - 1]
  BY <1>1, <1>2, PushProperties
<1>5. EachOnce(g, v)
  BY <1>1, <1>2, TakeKeepsEachOnce
<1>6. /\ m2[head_at(p)] = m[c] /\ m2[next_at(c)] = m[client_at(p)] /\ m2[client_at(p)] = c
      /\ \A a \in Words(p) :
           a \notin {head_at(p), free_ch_at(p), used_ch_at(p), client_at(p), next_at(c)}
             => m2[a] = m[a]
  BY DEF link_at
<1> HIDE DEF g, v
<1>7. /\ m[head_at(p)] = After(f, 0) /\ m[client_at(p)] = After(u, 0)
      /\ \A i \in 1 .. Len(f) : m[f[i]] = After(f, i)
      /\ \A i \in 1 .. Len(u) : m[next_at(u[i])] = After(u, i)
      /\ m[free_ch_at(p)] = Len(f) /\ m[used_ch_at(p)] = Len(u)
  BY DEF PoolAt, link_at
<1>8. \A i \in 0 .. Len(g) : After(g, i) = After(f, i + 1)
  <2>1. ASSUME NEW i \in 0 .. Len(g) PROVE After(g, i) = After(f, i + 1)
    <3>1. CASE i = Len(g)
      BY <3>1, <1>1, <1>3 DEF After
    <3>2. CASE i # Len(g)
      <4>1. i + 1 \in 1 .. Len(g) /\ i + 1 # Len(f)
        BY <3>2, <1>1, <1>3
      <4> QED  BY <4>1, <3>2, <1>3 DEF After
    <3> QED  BY <3>1, <3>2
  <2> QED  BY <2>1
<1>9. m2[head_at(p)] = After(g, 0)
  <2>1. m[c] = After(f, 1)
    BY <1>2, <1>7
  <2> QED  BY <2>1, <1>1, <1>3, <1>6, <1>8
<1>10. \A d \in Clients(p) : m2[d] = m[d]
  <2>1. \A d \in Clients(p) : d # next_at(c)
    BY <1>2, ClientWords
  <2> QED  BY <1>6, <2>1, ClientWords
<1>11. \A d \in Clients(p) : d # c => m2[next_at(d)] = m[next_at(d)]
  <2>1. \A d \in Clients(p) : d # c => next_at(d) # next_at(c)
    BY <1>2, ClientWords
  <2> QED  BY <1>6, <2>1, ClientWords
<1>12. ASSUME NEW i \in 1 .. Len(g) PROVE m2[link_at(g[i])] = After(g, i)
  <2>1. i + 1 \in 1 .. Len(f) /\ g[i] = f[i + 1] /\ i \in 0 .. Len(g)
    BY <1>1, <1>3
  <2>2. m2[g[i]] = After(f, i + 1)
    BY <2>1, <1>1, <1>7, <1>10
  <2> QED  BY <2>1, <2>2, <1>8 DEF link_at
<1>13. \A i \in 1 .. Len(u) : u[i] # c
  BY <1>1, <1>2 DEF EachOnce, NothingShared
<1>14. After(v, 0) = c /\ \A i \in 1 .. Len(v) : After(v, i) = After(u, i - 1)
  BY <1>1, <1>2, PushedAfter DEF v
<1>16. ASSUME NEW i \in 1 .. Len(v) PROVE m2[next_at(v[i])] = After(v, i)
  <2>1. CASE i = 1
    <3>1. v[i] = c /\ m2[next_at(c)] = After(u, 0)
      BY <2>1, <1>1, <1>4, <1>6, <1>7
    <3> QED  BY <3>1, <2>1, <1>14
  <2>2. CASE i # 1
    <3>1. i - 1 \in 1 .. Len(u) /\ v[i] = u[i - 1]
      BY <2>2, <1>1, <1>4
    <3>2. m2[next_at(v[i])] = m[next_at(u[i - 1])]
      BY <3>1, <1>1, <1>11, <1>13
    <3> QED  BY <3>1, <3>2, <2>2, <1>7, <1>14
  <2> QED  BY <2>1, <2>2
<1>17. m2[client_at(p)] = After(v, 0)
  BY <1>6, <1>14
<1>18. Len(g) + Len(v) = max_clients_in_pool
  BY <1>1, <1>3, <1>4
<1>19. m2[free_ch_at(p)] = Len(g) /\ m2[used_ch_at(p)] = Len(v)
  BY <1>1, <1>3, <1>4, <1>7
<1>20. PoolAt(m2, p, g, v)
  BY <1>3, <1>4, <1>5, <1>9, <1>12, <1>16, <1>17, <1>18, <1>19 DEF PoolAt
<1> QED  BY <1>20 DEF g, v

\* What session_close and pool_put write when they give back c, to which pcur leads.
GivesBack(m, m2, p, pcur, c) ==
  /\ m2[pcur] = m[next_at(c)]
  /\ m2[link_at(c)] = m[head_at(p)] /\ m2[head_at(p)] = c
  /\ m2[free_ch_at(p)] = m[free_ch_at(p)] + 1 /\ m2[used_ch_at(p)] = m[used_ch_at(p)] - 1
  /\ \A a \in Words(p) :
       a \notin {head_at(p), free_ch_at(p), used_ch_at(p), pcur, link_at(c)} => m2[a] = m[a]

\* session_close and pool_put: the k-th client of a pool becomes its first free chunk.
LEMMA GivenBack ==
  ASSUME NEW m, NEW m2, NEW p \in Arenas, NEW f, NEW u, PoolAt(m, p, f, u),
         NEW k \in 1 .. Len(u), NEW c, c = u[k], NEW pcur,
         pcur = IF k = 1 THEN client_at(p) ELSE next_at(u[k - 1]),
         GivesBack(m, m2, p, pcur, c)
  PROVE  PoolAt(m2, p, <<c>> \o f, RemoveAt(u, k))
<1> DEFINE g == <<c>> \o f
           v == RemoveAt(u, k)
<1>1. /\ f \in Seq(Clients(p)) /\ u \in Seq(Clients(p)) /\ EachOnce(f, u)
      /\ Len(f) \in Nat /\ Len(u) \in Nat /\ Len(f) + Len(u) = max_clients_in_pool
      /\ \A i \in 1 .. Len(f) : f[i] \in Clients(p)
      /\ \A i \in 1 .. Len(u) : u[i] \in Clients(p)
  BY LenProperties, ElementOfSeq DEF PoolAt
<1>2. c \in Clients(p) /\ (k # 1 => k - 1 \in 1 .. Len(u) /\ u[k - 1] \in Clients(p))
  <2>1. k # 1 => k - 1 \in 1 .. Len(u)
    BY <1>1
  <2> QED  BY <2>1, <1>1
<1>3. /\ v \in Seq(Clients(p)) /\ Len(v) = Len(u) - 1
      /\ \A i \in 1 .. Len(u) - 1 : v[i] = IF i < k THEN u[i] ELSE u[i + 1]
  BY <1>1, RemoveAtProperties
<1>4. /\ g \in Seq(Clients(p)) /\ Len(g) = Len(f) + 1
      /\ \A i \in 1 .. Len(f) + 1 : g[i] = IF i = 1 THEN c ELSE f[i - 1]
  BY <1>1, <1>2, PushProperties
<1>5. EachOnce(g, v)
  BY <1>1, GiveKeepsEachOnce
<1>6. After(g, 0) = c /\ \A i \in 1 .. Len(g) : After(g, i) = After(f, i - 1)
  BY <1>1, <1>2, PushedAfter
<1>7. /\ m2[pcur] = m[next_at(c)] /\ m2[c] = m[head_at(p)] /\ m2[head_at(p)] = c
      /\ \A a \in Words(p) :
           a \notin {head_at(p), free_ch_at(p), used_ch_at(p), pcur, c} => m2[a] = m[a]
  BY DEF link_at, GivesBack
<1>8. /\ m[head_at(p)] = After(f, 0) /\ m[client_at(p)] = After(u, 0)
      /\ \A i \in 1 .. Len(f) : m[f[i]] = After(f, i)
      /\ \A i \in 1 .. Len(u) : m[next_at(u[i])] = After(u, i)
      /\ m[free_ch_at(p)] = Len(f) /\ m[used_ch_at(p)] = Len(u)
  BY DEF PoolAt, link_at
<1> HIDE DEF g, v
<1>9. c = u[k]
  OBVIOUS
<1>10. \A i \in 0 .. Len(v) :
         After(v, i) = IF i < k - 1 THEN After(u, i) ELSE After(u, i + 1)
  <2>1. ASSUME NEW i \in 0 .. Len(v), i < k - 1 PROVE After(v, i) = After(u, i)
    <3>1. i + 1 \in 1 .. Len(u) - 1 /\ i + 1 < k /\ i # Len(v) /\ i # Len(u)
      BY <2>1, <1>1, <1>3
    <3> QED  BY <3>1, <1>3 DEF After
  <2>2. ASSUME NEW i \in 0 .. Len(v), ~ i < k - 1 PROVE After(v, i) = After(u, i + 1)
    <3>1. CASE i = Len(v)
      BY <3>1, <1>1, <1>3 DEF After
    <3>2. CASE i # Len(v)
      <4>1. i + 1 \in 1 .. Len(u) - 1 /\ ~ i + 1 < k /\ i + 1 # Len(u)
        BY <2>2, <3>2, <1>1, <1>3
      <4>2. v[i + 1] = u[(i + 1) + 1]
        BY <4>1, <1>3
      <4> QED  BY <4>1, <4>2, <3>2 DEF After
    <3> QED  BY <3>1, <3>2
  <2> QED  BY <2>1, <2>2
<1>11. \A d \in Clients(p) : d # c => m2[d] = m[d]
  <2>1. \A d \in Clients(p) : d # pcur
    BY <1>2, ClientWords
  <2> QED  BY <1>7, <2>1, ClientWords
<1>12. \A d \in Clients(p) : (k = 1 \/ d # u[k - 1]) => m2[next_at(d)] = m[next_at(d)]
  <2>1. ASSUME NEW d \in Clients(p), k = 1 \/ d # u[k - 1]
        PROVE  next_at(d) # pcur /\ next_at(d) # c
    BY <2>1, <1>2, ClientWords
  <2> QED  BY <1>7, <2>1, ClientWords
<1>13. \A i \in 1 .. Len(f) : f[i] # c
  BY <1>1, <1>9 DEF EachOnce, NothingShared
<1>14. \A i, j \in 1 .. Len(u) : i # j => u[i] # u[j]
  BY <1>1 DEF EachOnce, NoDuplicates
<1>15. ASSUME NEW i \in 1 .. Len(g) PROVE m2[link_at(g[i])] = After(g, i)
  <2>1. CASE i = 1
    BY <2>1, <1>1, <1>4, <1>6, <1>7, <1>8 DEF link_at
  <2>2. CASE i # 1
    <3>1. i - 1 \in 1 .. Len(f) /\ g[i] = f[i - 1]
      BY <2>2, <1>1, <1>4
    <3>2. m2[g[i]] = m[f[i - 1]]
      BY <3>1, <1>1, <1>11, <1>13
    <3> QED  BY <3>1, <3>2, <1>6, <1>8 DEF link_at
  <2> QED  BY <2>1, <2>2
<1>16. m2[client_at(p)] = After(v, 0)
  <2>1. 0 \in 0 .. Len(v)
    BY <1>1, <1>3
  <2>2. CASE k = 1
    <3>1. pcur = client_at(p) /\ m2[pcur] = After(u, 0 + 1)
      BY <2>2, <1>7, <1>8, <1>9
    <3> QED  BY <3>1, <2>1, <2>2, <1>10
  <2>3. CASE k # 1
    <3>1. client_at(p) # pcur /\ client_at(p) # c
      BY <2>3, <1>2, ClientWords
    <3>2. m2[client_at(p)] = m[client_at(p)]
      BY <3>1, <1>7, HeaderWords
    <3> QED  BY <3>2, <2>1, <2>3, <1>8, <1>10
  <2> QED  BY <2>2, <2>3
<1>17. ASSUME NEW i \in 1 .. Len(v) PROVE m2[next_at(v[i])] = After(v, i)
  <2>1. i \in 1 .. Len(u) - 1 /\ i \in 0 .. Len(v) /\ i \in 1 .. Len(u) /\ i + 1 \in 1 .. Len(u)
    BY <1>1, <1>3
  <2>2. CASE i < k - 1
    <3>1. v[i] = u[i] /\ k - 1 \in 1 .. Len(u) /\ i # k - 1
      BY <2>1, <2>2, <1>1, <1>3
    <3>2. m2[next_at(v[i])] = m[next_at(u[i])]
      BY <2>1, <3>1, <1>1, <1>12, <1>14
    <3> QED  BY <3>2, <2>1, <2>2, <1>8, <1>10
  <2>3. CASE i = k - 1
    <3>1. v[i] = u[k - 1] /\ k # 1 /\ i + 1 = k /\ ~ i < k - 1
      BY <2>1, <2>3, <1>1, <1>3
    <3>2. m2[next_at(v[i])] = m[next_at(u[k])]
      BY <3>1, <1>7, <1>9
    <3>3. m[next_at(u[k])] = After(u, i + 1)
      BY <3>1, <1>8
    <3> QED  BY <3>1, <3>2, <3>3, <2>1, <1>10
  <2>4. CASE i > k - 1
    <3>1. v[i] = u[i + 1] /\ ~ i < k - 1 /\ (k # 1 => k - 1 \in 1 .. Len(u) /\ i + 1 # k - 1)
      BY <2>1, <2>4, <1>1, <1>3
    <3>2. m2[next_at(v[i])] = m[next_at(u[i + 1])]
      BY <2>1, <3>1, <1>1, <1>12, <1>14
    <3> QED  BY <3>1, <3>2, <2>1, <1>8, <1>10
  <2> QED  BY <2>2, <2>3, <2>4, <1>1
<1>18. Len(g) + Len(v) = max_clients_in_pool
  BY <1>1, <1>3, <1>4
<1>19. m2[free_ch_at(p)] = Len(g) /\ m2[used_ch_at(p)] = Len(v)
  BY <1>1, <1>3, <1>4, <1>8 DEF GivesBack
<1>20. m2[head_at(p)] = After(g, 0)
  BY <1>6, <1>7
<1>21. PoolAt(m2, p, g, v)
  BY <1>3, <1>4, <1>5, <1>15, <1>16, <1>17, <1>18, <1>19, <1>20 DEF PoolAt
<1> QED  BY <1>21 DEF g, v

\* pool_free_all links the chunks from the last to the first.
Chain(p) == [i \in 1 .. max_clients_in_pool |-> chunk_at(p, max_clients_in_pool - i)]

\* A new pool has all its chunks on the free list, and the last word of each is still
\* the zero of a page nobody wrote.
LEMMA NewlyMade ==
  ASSUME NEW m, NEW p \in Arenas
  PROVE  /\ PoolAt(WithPool(m, p), p, Chain(p), <<>>)
         /\ \A c \in Clients(p) : WithPool(m, p)[next_at(c)] = nil
         /\ WithPool(m, p) = [a \in StoreAddress |-> WithPool(m, p)[a]]
         /\ \A a \in StoreAddress \ Words(p) : WithPool(m, p)[a] = m[a]
<1> DEFINE N == max_clients_in_pool
           w == NewPool(p)
           m2 == WithPool(m, p)
           f == Chain(p)
<1>1. N \in Nat /\ N >= 1 /\ nil = 0
  BY Constants
<1>2. \A a \in StoreAddress : m2[a] = IF a \in Words(p) THEN w[a] ELSE m[a]
  BY DEF WithPool
<1>3. Words(p) \subseteq StoreAddress
  BY ArenasApart
<1>4. \A i \in ChunkIndex : i \in Nat /\ i < N /\ chunk_at(p, i) \in Clients(p)
  BY <1>1 DEF ChunkIndex, Clients
<1>5. \A i, j \in ChunkIndex : chunk_at(p, i) = chunk_at(p, j) => i = j
  <2> SUFFICES ASSUME NEW i \in ChunkIndex, NEW j \in ChunkIndex, i # j
               PROVE  chunk_at(p, i) # chunk_at(p, j)
    OBVIOUS
  <2>1. /\ chunk_at(p, i) \in Nat /\ chunk_at(p, j) \in Nat
        /\ \/ chunk_at(p, i) + client_size <= chunk_at(p, j)
           \/ chunk_at(p, j) + client_size <= chunk_at(p, i)
    BY <1>4, ClientsApart
  <2> QED  BY <2>1, Constants
<1>6. \A a \in Words(p) :
        w[a] = CASE a = head_at(p)    -> chunk_at(p, N - 1)
                 [] a = free_ch_at(p) -> N
                 [] \E i \in ChunkIndex \ {0} : a = link_at(chunk_at(p, i)) ->
                      chunk_at(p, (CHOOSE i \in ChunkIndex \ {0} : a = link_at(chunk_at(p, i))) - 1)
                 [] OTHER             -> 0
  BY DEF NewPool
<1>7. \A i \in ChunkIndex : /\ chunk_at(p, i) # head_at(p) /\ chunk_at(p, i) # free_ch_at(p)
                            /\ chunk_at(p, i) # used_ch_at(p) /\ chunk_at(p, i) # client_at(p)
                            /\ chunk_at(p, i) \in Words(p)
  BY <1>4, ClientWords
<1>8. w[head_at(p)] = chunk_at(p, N - 1) /\ w[free_ch_at(p)] = N
  <2>1. \A i \in ChunkIndex \ {0} : /\ head_at(p) # link_at(chunk_at(p, i))
                                    /\ free_ch_at(p) # link_at(chunk_at(p, i))
    BY <1>7 DEF link_at
  <2> QED  BY <1>6, <2>1, HeaderWords
<1>9. w[used_ch_at(p)] = 0 /\ w[client_at(p)] = 0
  <2>1. \A i \in ChunkIndex \ {0} : /\ used_ch_at(p) # link_at(chunk_at(p, i))
                                    /\ client_at(p) # link_at(chunk_at(p, i))
    BY <1>7 DEF link_at
  <2> QED  BY <1>6, <2>1, HeaderWords
<1>10. ASSUME NEW c \in Clients(p) PROVE w[next_at(c)] = 0
  <2>1. \A i \in ChunkIndex \ {0} : next_at(c) # link_at(chunk_at(p, i))
    BY <1>4, ClientWords DEF link_at
  <2>2. /\ next_at(c) \in Words(p)
        /\ next_at(c) # head_at(p) /\ next_at(c) # free_ch_at(p)
    BY ClientWords
  <2> QED  BY <1>6, <2>1, <2>2
<1>11. ASSUME NEW k \in ChunkIndex
       PROVE  w[chunk_at(p, k)] = IF k = 0 THEN 0 ELSE chunk_at(p, k - 1)
  <2> DEFINE P(i) == chunk_at(p, k) = link_at(chunk_at(p, i))
             Linking == \E i \in ChunkIndex \ {0} : P(i)
  <2>1. \A i \in ChunkIndex : P(i) <=> i = k
    BY <1>5 DEF link_at
  <2>2. CASE k = 0
    <3>1. ~ Linking
      BY <2>1, <2>2
    <3>2. chunk_at(p, k) \in Words(p) /\ chunk_at(p, k) # head_at(p) /\ chunk_at(p, k) # free_ch_at(p)
      BY <1>7
    <3> QED  BY <1>6, <2>2, <3>1, <3>2
  <2>3. CASE k # 0
    <3>1. Linking
      BY <2>1, <2>3
    <3>2. (CHOOSE i \in ChunkIndex \ {0} : P(i)) = k
      <4>1. k \in ChunkIndex \ {0} /\ \A i \in ChunkIndex \ {0} : P(i) <=> i = k
        BY <2>1, <2>3
      <4> HIDE DEF P
      <4> QED  BY <4>1
    <3>3. chunk_at(p, k) \in Words(p) /\ chunk_at(p, k) # head_at(p) /\ chunk_at(p, k) # free_ch_at(p)
      BY <1>7
    <3>4. w[chunk_at(p, k)] = chunk_at(p, (CHOOSE i \in ChunkIndex \ {0} : P(i)) - 1)
      BY <1>6, <3>1, <3>3
    <3> QED  BY <2>3, <3>2, <3>4
  <2> QED  BY <2>2, <2>3
<1>12. \A a \in Words(p) : m2[a] = w[a]
  BY <1>2, <1>3
<1> HIDE DEF w, m2
<1>13. /\ f \in Seq(Clients(p)) /\ Len(f) = N
       /\ \A i \in 1 .. N : f[i] = chunk_at(p, N - i) /\ N - i \in ChunkIndex
  <2>1. \A i \in 1 .. N : N - i \in ChunkIndex
    BY <1>1 DEF ChunkIndex
  <2>2. f \in [1 .. N -> Clients(p)]
    BY <1>4, <2>1 DEF Chain
  <2>3. f \in Seq(Clients(p)) /\ Len(f) = N
    BY <1>1, <2>2
  <2> QED  BY <2>1, <2>3 DEF Chain
<1> HIDE DEF f, N
<1>14. <<>> \in Seq(Clients(p)) /\ Len(<<>>) = 0
  OBVIOUS
<1>15. EachOnce(f, <<>>)
  <2>1. ASSUME NEW i \in 1 .. N, NEW j \in 1 .. N, f[i] = f[j] PROVE i = j
    <3>1. N - i \in ChunkIndex /\ N - j \in ChunkIndex /\ chunk_at(p, N - i) = chunk_at(p, N - j)
      BY <2>1, <1>13
    <3>2. N - i = N - j
      BY <3>1, <1>5
    <3> QED  BY <3>2, <1>1
  <2> QED  BY <2>1, <1>13, <1>14 DEF EachOnce, NoDuplicates, NothingShared
<1>16. /\ m2[head_at(p)] = After(f, 0) /\ m2[client_at(p)] = After(<<>>, 0)
       /\ m2[free_ch_at(p)] = Len(f) /\ m2[used_ch_at(p)] = Len(<<>>)
  <2>1. After(f, 0) = chunk_at(p, N - 1) /\ After(<<>>, 0) = 0
    BY <1>1, <1>13, <1>14 DEF After
  <2> QED  BY <2>1, <1>8, <1>9, <1>12, <1>13, <1>14, HeaderWords
<1>17. ASSUME NEW i \in 1 .. Len(f) PROVE m2[link_at(f[i])] = After(f, i)
  <2>1. i \in 1 .. N /\ N - i \in ChunkIndex /\ f[i] = chunk_at(p, N - i)
    BY <1>13
  <2>2. m2[f[i]] = IF N - i = 0 THEN 0 ELSE chunk_at(p, (N - i) - 1)
    BY <2>1, <1>7, <1>11, <1>12
  <2>3. i # N => i + 1 \in 1 .. N /\ N - (i + 1) = (N - i) - 1
    BY <2>1, <1>1
  <2>4. i # N => f[i + 1] = chunk_at(p, (N - i) - 1)
    BY <2>3, <1>13
  <2>5. N - i = 0 <=> i = N
    BY <2>1, <1>1
  <2> QED  BY <2>2, <2>4, <2>5, <1>1, <1>13 DEF link_at, After
<1>18. PoolAt(m2, p, f, <<>>)
  <2>1. Len(f) + Len(<<>>) = max_clients_in_pool
    BY <1>1, <1>13, <1>14 DEF N
  <2> QED  BY <2>1, <1>13, <1>14, <1>15, <1>16, <1>17 DEF PoolAt
<1>19. \A c \in Clients(p) : m2[next_at(c)] = nil
  BY <1>1, <1>10, <1>12, ClientWords
<1>20. /\ m2 = [a \in StoreAddress |-> m2[a]]
       /\ \A a \in StoreAddress \ Words(p) : m2[a] = m[a]
  BY <1>2 DEF m2, WithPool
<1> QED  BY <1>18, <1>19, <1>20 DEF m2, f

-----------------------------------------------------------------------------
(***************************************************************************)
(* Every step keeps the invariant.                                         *)
(***************************************************************************)

\* What the invariant says of a pool in use.
LEMMA PoolInUse ==
  ASSUME MemoryInv, NEW p \in Arenas, Filed(p)
  PROVE  /\ PoolAt(store, p, FreeNodesOf(p), ClientList(p))
         /\ FreeNodesOf(p) \in Seq(Clients(p)) /\ ClientList(p) \in Seq(Clients(p))
         /\ Len(FreeNodesOf(p)) \in Nat /\ Len(ClientList(p)) \in Nat
         /\ store[free_ch_at(p)] = Len(FreeNodesOf(p))
         /\ store[used_ch_at(p)] = Len(ClientList(p))
         /\ store[head_at(p)] = After(FreeNodesOf(p), 0)
         /\ store[client_at(p)] = After(ClientList(p), 0)
         /\ store[p] # unmapped
         /\ \A k \in 1 .. Len(FreeNodesOf(p)) : FreeNodesOf(p)[k] \in Clients(p)
         /\ \A k \in 1 .. Len(ClientList(p)) : ClientList(p)[k] \in Clients(p)
<1> DEFINE f == FreeNodesOf(p)
           u == ClientList(p)
<1>1. PoolAt(store, p, f, u)
  BY DEF MemoryInv
<1> HIDE DEF f, u
<1>2. /\ f \in Seq(Clients(p)) /\ u \in Seq(Clients(p))
      /\ Len(f) \in Nat /\ Len(u) \in Nat
      /\ \A k \in 1 .. Len(f) : f[k] \in Clients(p)
      /\ \A k \in 1 .. Len(u) : u[k] \in Clients(p)
  BY <1>1, LenProperties, ElementOfSeq DEF PoolAt
<1>3. /\ store[free_ch_at(p)] = Len(f) /\ store[used_ch_at(p)] = Len(u)
      /\ store[head_at(p)] = After(f, 0) /\ store[client_at(p)] = After(u, 0)
  BY <1>1 DEF PoolAt
<1>4. store[p] # unmapped
  BY <1>1, FirstWordSet
<1> QED  BY <1>1, <1>2, <1>3, <1>4 DEF f, u

\* A client in use is one of a pool in use, and of no other.
LEMMA InUseWhere ==
  ASSUME MemoryInv, NEW c, InUse(c)
  PROVE  /\ \E p \in Arenas : c \in Clients(p) /\ Filed(p)
         /\ \A p \in Arenas : c \in Clients(p) =>
              Filed(p) /\ \E k \in 1 .. Len(ClientList(p)) : ClientList(p)[k] = c
<1>1. PICK q \in Arenas : Filed(q) /\ \E k \in 1 .. Len(ClientList(q)) : ClientList(q)[k] = c
  BY DEF InUse
<1>2. c \in Clients(q)
  BY <1>1, PoolInUse
<1>3. ASSUME NEW p \in Arenas, c \in Clients(p) PROVE p = q
  <2>1. c \in Words(p) /\ c \in Words(q)
    BY <1>2, <1>3, ClientWords
  <2> QED  BY <2>1, ArenasApart
<1> QED  BY <1>1, <1>2, <1>3

\* A step that writes to one arena leaves the pools in the others as they are.
LEMMA OtherPools ==
  ASSUME MemoryInv, NEW p \in Arenas, NEW q \in Arenas, q # p,
         \A a \in StoreAddress \ Words(p) : store'[a] = store[a]
  PROVE  /\ \A a \in Words(q) : store'[a] = store[a]
         /\ Filed(q) => /\ PoolAt(store', q, FreeNodesOf(q), ClientList(q))
                        /\ FreeNodesOf(q)' = FreeNodesOf(q)
                        /\ ClientList(q)' = ClientList(q)
<1>1. \A a \in Words(q) : store'[a] = store[a]
  BY ArenasApart
<1>2. ASSUME Filed(q)
      PROVE  /\ PoolAt(store', q, FreeNodesOf(q), ClientList(q))
             /\ FreeNodesOf(q)' = FreeNodesOf(q)
             /\ ClientList(q)' = ClientList(q)
  <2>1. PoolAt(store', q, FreeNodesOf(q), ClientList(q))
    BY <1>1, <1>2, PoolInUse, PoolUntouched
  <2>2. /\ FreeNodesOf(q)' = FreeNodesOf(q)
        /\ ClientList(q)' = ClientList(q)
    <3> DEFINE f == FreeNodesOf(q)
               u == ClientList(q)
    <3>1. PoolAt(store', q, f, u)
      BY <2>1
    <3> HIDE DEF f, u
    <3>2. FreeNodesOf(q)' = f /\ ClientList(q)' = u
      BY <3>1, ReadsPool DEF FreeNodesOf, ClientList
    <3> QED  BY <3>2 DEF f, u
  <2> QED  BY <2>1, <2>2
<1> QED  BY <1>1, <1>2

\* A step that turns the lists of one pool into f and u, and sets no other fields than
\* those of the clients in u.
LEMMA PoolChanged ==
  ASSUME MemoryInv, NEW p \in Arenas, NEW f, NEW u, PoolAt(store', p, f, u),
         store' = [a \in StoreAddress |-> store'[a]],
         \A a \in StoreAddress \ Words(p) : store'[a] = store[a],
         first_clp' \in Seq(Arenas), Len(first_clp') \in 1 .. max_pools,
         NoDuplicates(first_clp'),
         \A q \in Arenas : Filed(q)' <=> Filed(q) \/ q = p,
         new' # nil => (\E k \in 1 .. Len(u) : u[k] = new') /\ new' \notin wrote',
         \A c \in wrote' :
           IF c \in Clients(p)
           THEN (\E k \in 1 .. Len(u) : u[k] = c) /\ \A a \in Fields(c) : store'[a] = data
           ELSE c \in wrote,
         exited' \in BOOLEAN
  PROVE  MemoryInv' /\ FreeNodesOf(p)' = f /\ ClientList(p)' = u
<1>1. FreeNodesOf(p)' = f /\ ClientList(p)' = u
  BY ReadsPool DEF FreeNodesOf, ClientList
<1>2. \A q \in Arenas : q # p =>
        /\ \A a \in Words(q) : store'[a] = store[a]
        /\ Filed(q) => /\ PoolAt(store', q, FreeNodesOf(q), ClientList(q))
                       /\ FreeNodesOf(q)' = FreeNodesOf(q)
                       /\ ClientList(q)' = ClientList(q)
  BY OtherPools
<1>3. ASSUME NEW q \in Arenas
      PROVE  IF Filed(q)' THEN PoolAt(store', q, FreeNodesOf(q)', ClientList(q)')
             ELSE store'[q] = unmapped
  <2>1. CASE q = p
    BY <2>1, <1>1
  <2>2. CASE q # p /\ Filed(q)
    BY <2>2, <1>2
  <2>3. CASE q # p /\ ~ Filed(q)
    <3>1. store[q] = unmapped
      BY <2>3 DEF MemoryInv
    <3>2. store'[q] = store[q]
      BY <2>3, <1>2, HeaderWords
    <3> QED  BY <2>3, <3>1, <3>2
  <2> QED  BY <2>1, <2>2, <2>3
<1>4. \A c : (\E k \in 1 .. Len(u) : u[k] = c) => InUse(c)'
  BY <1>1 DEF InUse
<1>5. ASSUME NEW c \in wrote' PROVE InUse(c)' /\ \A a \in Fields(c) : store'[a] = data
  <2>1. CASE c \in Clients(p)
    BY <2>1, <1>4
  <2>2. CASE c \notin Clients(p)
    <3>1. c \in wrote /\ InUse(c)
      BY <2>2 DEF MemoryInv
    <3>2. PICK q \in Arenas : c \in Clients(q) /\ Filed(q)
      BY <3>1, InUseWhere
    <3>3. q # p /\ \E k \in 1 .. Len(ClientList(q)) : ClientList(q)[k] = c
      BY <2>2, <3>1, <3>2, InUseWhere
    <3>4. InUse(c)'
      BY <3>2, <3>3, <1>2 DEF InUse
    <3>5. ASSUME NEW a \in Fields(c) PROVE store'[a] = data
      <4>1. a \in Words(q)
        BY <3>2, ClientWords
      <4>2. store[a] = data
        BY <3>1 DEF MemoryInv, FieldsKept
      <4> QED  BY <4>1, <4>2, <3>3, <1>2
    <3> QED  BY <3>4, <3>5
  <2> QED  BY <2>1, <2>2
<1>6. new' # nil => InUse(new)' /\ new' \notin wrote'
  <2>1. ASSUME new' # nil PROVE \E k \in 1 .. Len(u) : u[k] = new'
    BY <2>1
  <2>2. (\E k \in 1 .. Len(u) : u[k] = new') => InUse(new)'
    BY <1>1 DEF InUse
  <2> QED  BY <2>1, <2>2
<1>7. FieldsKept'
  BY <1>5 DEF FieldsKept
<1> QED  BY <1>1, <1>3, <1>5, <1>6, <1>7 DEF MemoryInv, n_pls

\* The words pool_get and the counters write.
LEMMA TakenWords ==
  ASSUME NEW m, m = [a \in StoreAddress |-> m[a]], NEW p \in Arenas
  PROVE  /\ Taken(m, p) = [a \in StoreAddress |-> Taken(m, p)[a]]
         /\ Taken(m, p)[head_at(p)] = m[link_at(m[head_at(p)])]
         /\ Taken(m, p)[free_ch_at(p)] = m[free_ch_at(p)] - 1
         /\ Taken(m, p)[used_ch_at(p)] = m[used_ch_at(p)] + 1
         /\ \A a \in StoreAddress : a \notin {head_at(p), free_ch_at(p), used_ch_at(p)} =>
              Taken(m, p)[a] = m[a]
<1>1. /\ head_at(p) \in StoreAddress /\ free_ch_at(p) \in StoreAddress
      /\ used_ch_at(p) \in StoreAddress
      /\ head_at(p) # free_ch_at(p) /\ head_at(p) # used_ch_at(p)
      /\ free_ch_at(p) # used_ch_at(p)
  BY HeaderWords, ArenasApart
<1>2. DOMAIN m = StoreAddress
  OBVIOUS
<1>3. Taken(m, p) = [m EXCEPT ![head_at(p)] = m[link_at(m[head_at(p)])],
                              ![free_ch_at(p)] = m[free_ch_at(p)] - 1,
                              ![used_ch_at(p)] = m[used_ch_at(p)] + 1]
  BY <1>1, <1>2 DEF Taken
<1> HIDE DEF Taken
<1> QED  BY <1>1, <1>2, <1>3

\* session_new with a chunk of a pool it has: the first free chunk of p.
LEMMA ReuseStep ==
  ASSUME MemoryInv, session_new_reuse
  PROVE  /\ MemoryInv'
         /\ \E i \in 1 .. n_pls :
              /\ HasFree(i) /\ \A j \in 1 .. i - 1 : ~ HasFree(j)
              /\ \E p \in Arenas :
                   /\ p = first_clp[i]
                   /\ Len(FreeNodesOf(p)) > 0
                   /\ FreeNodesOf(p)' = Tail(FreeNodesOf(p))
                   /\ ClientList(p)' = <<FreeNodesOf(p)[1]>> \o ClientList(p)
                   /\ \A a \in StoreAddress \ Words(p) : store'[a] = store[a]
<1>1. PICK i \in 1 .. n_pls :
        /\ HasFree(i) /\ \A j \in 1 .. i - 1 : ~ HasFree(j)
        /\ LET p == first_clp[i]
               c == store[head_at(p)]
           IN  /\ store' = [Taken(store, p) EXCEPT ![next_at(c)] = store[client_at(p)],
                                                   ![client_at(p)] = c]
               /\ new' = c
  BY DEF session_new_reuse
<1>2. CanAccept /\ UNCHANGED <<first_clp, wrote, exited>>
  BY DEF session_new_reuse
<1>3. PICK p \in Arenas : p = first_clp[i] /\ Filed(p)
  BY ElementOfSeq DEF MemoryInv, n_pls, Filed
<1> DEFINE f == FreeNodesOf(p)
           u == ClientList(p)
           c == store[head_at(p)]
           t == Taken(store, p)
<1>4. HasFree(i) /\ store[free_ch_at(p)] > 0
  BY <1>1, <1>3 DEF HasFree
<1>5. /\ store' = [t EXCEPT ![next_at(c)] = store[client_at(p)], ![client_at(p)] = c]
      /\ new' = c
  BY <1>1, <1>3
<1>6. /\ PoolAt(store, p, f, u) /\ Len(f) \in Nat /\ Len(f) > 0
      /\ store[head_at(p)] = After(f, 0)
      /\ \A k \in 1 .. Len(f) : f[k] \in Clients(p)
      /\ u \in Seq(Clients(p)) /\ Len(u) \in Nat
  BY <1>3, <1>4, PoolInUse
<1>7. c = f[1] /\ c \in Clients(p)
  <2>1. 1 \in 1 .. Len(f) /\ After(f, 0) = f[1]
    BY <1>6 DEF After
  <2> QED  BY <2>1, <1>6
<1>8. store = [a \in StoreAddress |-> store[a]]
  BY DEF MemoryInv
<1> HIDE DEF f, u, c, t
<1>9. /\ t = [a \in StoreAddress |-> t[a]]
      /\ t[head_at(p)] = store[link_at(c)]
      /\ t[free_ch_at(p)] = store[free_ch_at(p)] - 1
      /\ t[used_ch_at(p)] = store[used_ch_at(p)] + 1
      /\ \A a \in StoreAddress : a \notin {head_at(p), free_ch_at(p), used_ch_at(p)} =>
           t[a] = store[a]
  BY <1>3, <1>8, TakenWords DEF t, c
<1>10. /\ client_at(p) \in Words(p) /\ next_at(c) \in Words(p)
       /\ head_at(p) \in Words(p) /\ free_ch_at(p) \in Words(p) /\ used_ch_at(p) \in Words(p)
       /\ next_at(c) \notin {head_at(p), free_ch_at(p), used_ch_at(p), client_at(p)}
       /\ client_at(p) \notin {head_at(p), free_ch_at(p), used_ch_at(p)}
       /\ Words(p) \subseteq StoreAddress
  BY <1>3, <1>7, HeaderWords, ClientWords, ArenasApart
<1>11. /\ store' = [a \in StoreAddress |-> store'[a]]
       /\ store'[next_at(c)] = store[client_at(p)] /\ store'[client_at(p)] = c
       /\ \A a \in StoreAddress : a \notin {next_at(c), client_at(p)} => store'[a] = t[a]
  BY <1>5, <1>9, <1>10
<1>12. /\ store'[head_at(p)] = store[link_at(c)]
       /\ store'[free_ch_at(p)] = store[free_ch_at(p)] - 1
       /\ store'[used_ch_at(p)] = store[used_ch_at(p)] + 1
       /\ \A a \in StoreAddress :
            a \notin {head_at(p), free_ch_at(p), used_ch_at(p), client_at(p), next_at(c)} =>
              store'[a] = store[a]
  BY <1>9, <1>10, <1>11
<1>13. PoolAt(store', p, Tail(f), <<c>> \o u)
  <2>1. \A a \in Words(p) :
          a \notin {head_at(p), free_ch_at(p), used_ch_at(p), client_at(p), next_at(c)} =>
            store'[a] = store[a]
    BY <1>10, <1>12
  <2> QED  BY <1>3, <1>6, <1>7, <1>11, <1>12, <2>1, TakenFrom
<1> DEFINE g == Tail(f)
           v == <<c>> \o u
<1>14. \A a \in StoreAddress \ Words(p) : store'[a] = store[a]
  BY <1>10, <1>12
<1>15. /\ Len(v) = Len(u) + 1
       /\ \A k \in 1 .. Len(u) + 1 : v[k] = IF k = 1 THEN c ELSE u[k - 1]
  BY <1>6, <1>7, PushProperties
<1> HIDE DEF g, v
<1>16. \A d : (\E k \in 1 .. Len(u) : u[k] = d) => \E k \in 1 .. Len(v) : v[k] = d
  <2> SUFFICES ASSUME NEW k \in 1 .. Len(u)
               PROVE  \E n \in 1 .. Len(v) : v[n] = u[k]
    OBVIOUS
  <2>1. k + 1 \in 1 .. Len(u) + 1 /\ k + 1 # 1 /\ (k + 1) - 1 = k
    BY <1>6
  <2>2. v[k + 1] = u[k]
    BY <2>1, <1>15
  <2> QED  BY <2>1, <2>2, <1>15
<1>17. c \notin wrote
  <2> SUFFICES ASSUME c \in wrote PROVE FALSE
    OBVIOUS
  <2>1. \E k \in 1 .. Len(u) : u[k] = c
    BY <1>3, <1>7, InUseWhere DEF MemoryInv, u
  <2> QED  BY <2>1, <1>6, <1>7 DEF PoolAt, EachOnce, NothingShared
<1>18. ASSUME NEW d \in wrote'
       PROVE  IF d \in Clients(p)
              THEN /\ \E k \in 1 .. Len(v) : v[k] = d
                   /\ \A a \in Fields(d) : store'[a] = data
              ELSE d \in wrote
  <2>1. d \in wrote
    BY <1>2
  <2>2. CASE d \in Clients(p)
    <3>1. \E k \in 1 .. Len(u) : u[k] = d
      BY <1>3, <2>1, <2>2, InUseWhere DEF MemoryInv, u
    <3>2. ASSUME NEW a \in Fields(d) PROVE store'[a] = data
      <4>1. a \in StoreAddress /\ a \notin {head_at(p), free_ch_at(p), used_ch_at(p), client_at(p)}
        BY <1>3, <1>10, <2>2, ClientWords
      <4>2. a # next_at(c)
        BY <1>3, <1>7, <2>2, ClientWords
      <4>3. store[a] = data
        BY <2>1 DEF MemoryInv, FieldsKept
      <4> QED  BY <4>1, <4>2, <4>3, <1>12
    <3> QED  BY <2>2, <3>1, <3>2, <1>16
  <2> QED  BY <2>1, <2>2
<1>19. /\ first_clp' \in Seq(Arenas) /\ Len(first_clp') \in 1 .. max_pools
       /\ NoDuplicates(first_clp') /\ exited' \in BOOLEAN
       /\ \A q \in Arenas : Filed(q)' <=> Filed(q) \/ q = p
  BY <1>2, <1>3 DEF MemoryInv, n_pls, Filed
<1>20. (\E k \in 1 .. Len(v) : v[k] = new') /\ new' \notin wrote'
  <2>1. 1 \in 1 .. Len(u) + 1 /\ new' = c
    BY <1>5, <1>6
  <2> QED  BY <2>1, <1>2, <1>15, <1>17
<1>21. MemoryInv' /\ FreeNodesOf(p)' = g /\ ClientList(p)' = v
  <2>1. PoolAt(store', p, g, v)
    BY <1>13 DEF g, v
  <2> QED  BY <1>3, <1>11, <1>14, <1>18, <1>19, <1>20, <2>1, PoolChanged
<1> QED  BY <1>1, <1>3, <1>6, <1>7, <1>14, <1>21 DEF f, u, g, v

\* session_new with the first chunk of a pool made for it.
LEMMA GrowStep ==
  ASSUME MemoryInv, session_new_grow
  PROVE  /\ MemoryInv'
         /\ \E p \in Arenas :
              /\ \A a \in Words(p) : store[a] = unmapped
              /\ ~ Filed(p)
              /\ first_clp' = Append(first_clp, p)
              /\ FreeNodesOf(p)' = Tail(Chain(p))
              /\ ClientList(p)' = <<Chain(p)[1]>> \o <<>>
              /\ \A q \in Arenas : Filed(q)' <=> Filed(q) \/ q = p
              /\ \A a \in StoreAddress \ Words(p) : store'[a] = store[a]
<1>1. PICK p \in Arenas :
        /\ \A a \in Words(p) : store[a] = unmapped
        /\ first_clp' = Append(first_clp, p)
        /\ LET m == WithPool(store, p)
               c == m[head_at(p)]
           IN  /\ store' = [Taken(m, p) EXCEPT ![client_at(p)] = c]
               /\ new' = c
  BY DEF session_new_grow
<1>2. CanAccept /\ n_pls < max_pools /\ UNCHANGED <<wrote, exited>>
  BY DEF session_new_grow
<1> DEFINE m == WithPool(store, p)
           c == m[head_at(p)]
           t == Taken(m, p)
           f == Chain(p)
           g == Tail(f)
           v == <<c>> \o <<>>
<1>3. ~ Filed(p)
  <2>1. store[p] = unmapped
    BY <1>1, HeaderWords
  <2> QED  BY <2>1, PoolInUse
<1>4. /\ PoolAt(m, p, f, <<>>)
      /\ \A d \in Clients(p) : m[next_at(d)] = nil
      /\ m = [a \in StoreAddress |-> m[a]]
      /\ \A a \in StoreAddress \ Words(p) : m[a] = store[a]
  BY NewlyMade
<1>5. store' = [t EXCEPT ![client_at(p)] = c] /\ new' = c
  BY <1>1
<1> HIDE DEF m, f, t
<1>6. /\ f \in Seq(Clients(p)) /\ Len(f) = max_clients_in_pool /\ Len(f) > 0
      /\ m[head_at(p)] = After(f, 0) /\ m[client_at(p)] = nil
      /\ \A k \in 1 .. Len(f) : f[k] \in Clients(p)
  <2>1. f \in Seq(Clients(p)) /\ Len(f) + Len(<<>>) = max_clients_in_pool
    BY <1>4 DEF PoolAt
  <2>2. Len(<<>>) = 0 /\ Len(f) \in Nat
    BY <2>1, LenProperties
  <2>3. \A k \in 1 .. Len(f) : f[k] \in Clients(p)
    BY <2>1, ElementOfSeq
  <2> QED  BY <1>4, <2>1, <2>2, <2>3, Constants DEF PoolAt, After
<1>7. c = f[1] /\ c \in Clients(p)
  <2>1. 1 \in 1 .. Len(f) /\ After(f, 0) = f[1]
    BY <1>6, Constants DEF After
  <2> QED  BY <2>1, <1>6
<1>8. v = <<c>> /\ Len(v) = 1 /\ v[1] = c
  OBVIOUS
<1> HIDE DEF c, g, v
<1>9. /\ t = [a \in StoreAddress |-> t[a]]
      /\ t[head_at(p)] = m[link_at(c)]
      /\ t[free_ch_at(p)] = m[free_ch_at(p)] - 1
      /\ t[used_ch_at(p)] = m[used_ch_at(p)] + 1
      /\ \A a \in StoreAddress : a \notin {head_at(p), free_ch_at(p), used_ch_at(p)} =>
           t[a] = m[a]
  BY <1>4, TakenWords DEF t, c
<1>10. /\ client_at(p) \in Words(p) /\ next_at(c) \in Words(p)
       /\ head_at(p) \in Words(p) /\ free_ch_at(p) \in Words(p) /\ used_ch_at(p) \in Words(p)
       /\ next_at(c) \notin {head_at(p), free_ch_at(p), used_ch_at(p), client_at(p)}
       /\ client_at(p) \notin {head_at(p), free_ch_at(p), used_ch_at(p)}
       /\ Words(p) \subseteq StoreAddress
  BY <1>7, HeaderWords, ClientWords, ArenasApart
<1>11. /\ store' = [a \in StoreAddress |-> store'[a]]
       /\ store'[client_at(p)] = c
       /\ \A a \in StoreAddress : a # client_at(p) => store'[a] = t[a]
  BY <1>5, <1>9, <1>10
<1>12. /\ store'[head_at(p)] = m[link_at(c)]
       /\ store'[free_ch_at(p)] = m[free_ch_at(p)] - 1
       /\ store'[used_ch_at(p)] = m[used_ch_at(p)] + 1
       /\ store'[next_at(c)] = m[client_at(p)]
       /\ \A a \in StoreAddress :
            a \notin {head_at(p), free_ch_at(p), used_ch_at(p), client_at(p)} =>
              store'[a] = m[a]
  BY <1>4, <1>6, <1>7, <1>9, <1>10, <1>11
<1>13. PoolAt(store', p, g, v)
  <2>1. \A a \in Words(p) :
          a \notin {head_at(p), free_ch_at(p), used_ch_at(p), client_at(p), next_at(c)} =>
            store'[a] = m[a]
    BY <1>10, <1>12
  <2>2. PoolAt(store', p, Tail(f), <<c>> \o <<>>)
    BY <1>4, <1>6, <1>7, <1>11, <1>12, <2>1, TakenFrom
  <2> QED  BY <2>2 DEF g, v
<1>14. \A a \in StoreAddress \ Words(p) : store'[a] = store[a]
  BY <1>4, <1>10, <1>12
<1>15. \A d \in wrote : d \notin Clients(p)
  BY <1>3, InUseWhere DEF MemoryInv
<1>16. \A d \in wrote' :
         IF d \in Clients(p)
         THEN (\E k \in 1 .. Len(v) : v[k] = d) /\ \A a \in Fields(d) : store'[a] = data
         ELSE d \in wrote
  BY <1>2, <1>15
<1>17. /\ first_clp' \in Seq(Arenas) /\ Len(first_clp') = n_pls + 1
       /\ \A i \in 1 .. n_pls + 1 : first_clp'[i] = IF i <= n_pls THEN first_clp[i] ELSE p
       /\ n_pls \in Nat /\ first_clp \in Seq(Arenas)
  <2>1. first_clp \in Seq(Arenas)
    BY DEF MemoryInv
  <2> QED  BY <2>1, <1>1, AppendProperties, LenProperties DEF n_pls
<1>18. /\ \A i \in 1 .. n_pls : i \in 1 .. n_pls + 1 /\ first_clp'[i] = first_clp[i]
       /\ n_pls + 1 \in 1 .. n_pls + 1 /\ first_clp'[n_pls + 1] = p
       /\ \A i \in 1 .. n_pls + 1 : i \in 1 .. n_pls \/ i = n_pls + 1
  BY <1>17
<1>19. \A q \in Arenas : Filed(q)' <=> Filed(q) \/ q = p
  <2>1. \A q : Filed(q)' <=> \E i \in 1 .. n_pls + 1 : first_clp'[i] = q
    BY <1>17 DEF Filed, n_pls
  <2>2. ASSUME NEW q, NEW i \in 1 .. n_pls + 1, first_clp'[i] = q PROVE Filed(q) \/ q = p
    <3>1. CASE i \in 1 .. n_pls
      BY <2>2, <3>1, <1>18 DEF Filed
    <3>2. CASE i = n_pls + 1
      BY <2>2, <3>2, <1>18
    <3> QED  BY <3>1, <3>2, <1>18
  <2>3. ASSUME NEW q, Filed(q) \/ q = p PROVE \E i \in 1 .. n_pls + 1 : first_clp'[i] = q
    BY <2>3, <1>18 DEF Filed
  <2> QED  BY <2>1, <2>2, <2>3
<1>20. Len(first_clp') \in 1 .. max_pools /\ NoDuplicates(first_clp') /\ exited' \in BOOLEAN
  <2>1. NoDuplicates(first_clp')
    <3> SUFFICES ASSUME NEW i \in 1 .. n_pls + 1, NEW j \in 1 .. n_pls + 1,
                        first_clp'[i] = first_clp'[j]
                 PROVE  i = j
      BY <1>17 DEF NoDuplicates
    <3>1. \A k \in 1 .. n_pls : first_clp[k] # p
      BY <1>3 DEF Filed
    <3>2. \A k, l \in 1 .. n_pls : first_clp[k] = first_clp[l] => k = l
      BY DEF MemoryInv, NoDuplicates, n_pls
    <3>3. CASE i \in 1 .. n_pls /\ j \in 1 .. n_pls
      BY <3>2, <3>3, <1>18
    <3>4. CASE i = n_pls + 1 \/ j = n_pls + 1
      BY <3>1, <3>4, <1>18
    <3> QED  BY <3>3, <3>4, <1>18
  <2>2. Len(first_clp') \in 1 .. max_pools
    BY <1>2, <1>17, Constants
  <2> QED  BY <2>1, <2>2, <1>2 DEF MemoryInv
<1>21. (\E k \in 1 .. Len(v) : v[k] = new') /\ new' \notin wrote'
  BY <1>2, <1>5, <1>7, <1>8, <1>15
<1>22. MemoryInv' /\ FreeNodesOf(p)' = g /\ ClientList(p)' = v
  BY <1>11, <1>13, <1>14, <1>16, <1>17, <1>19, <1>20, <1>21, PoolChanged
<1> QED  BY <1>1, <1>3, <1>7, <1>14, <1>19, <1>22 DEF f, g, v

\* What session_close writes when it unlinks client c of p, to which the word pcur leads.
Unlink(p, pcur, c) ==
  [store EXCEPT ![pcur] = store[next_at(c)],
                ![free_ch_at(p)] = @ + 1,
                ![used_ch_at(p)] = @ - 1]

LEMMA Unlinked ==
  ASSUME MemoryInv, NEW p \in Arenas, Filed(p),
         NEW k \in 1 .. Len(ClientList(p)), NEW c, c = ClientList(p)[k],
         NEW pcur, pcur = IF k = 1 THEN client_at(p) ELSE next_at(ClientList(p)[k - 1]),
         NEW m, m = Unlink(p, pcur, c)
  PROVE  /\ c \in Clients(p) /\ pcur \in Words(p) /\ pcur \notin {head_at(p), link_at(c)}
         /\ \A d \in Clients(p) : pcur \notin Fields(d)
         /\ m = [a \in StoreAddress |-> m[a]]
         /\ m[pcur] = store[next_at(c)]
         /\ m[free_ch_at(p)] = store[free_ch_at(p)] + 1
         /\ m[used_ch_at(p)] = store[used_ch_at(p)] - 1
         /\ \A a \in StoreAddress : a \notin {pcur, free_ch_at(p), used_ch_at(p)} =>
              m[a] = store[a]
<1> DEFINE u == ClientList(p)
<1>1. Len(u) \in Nat /\ \A n \in 1 .. Len(u) : u[n] \in Clients(p)
  BY PoolInUse
<1> HIDE DEF u
<1>2. c \in Clients(p) /\ k \in 1 .. Len(u) /\ pcur = IF k = 1 THEN client_at(p) ELSE next_at(u[k - 1])
  BY <1>1 DEF u
<1>3. k # 1 => u[k - 1] \in Clients(p)
  <2>1. k # 1 => k - 1 \in 1 .. Len(u)
    BY <1>1, <1>2
  <2> QED  BY <2>1, <1>1
<1>4. /\ pcur \in Words(p) /\ pcur \notin {head_at(p), free_ch_at(p), used_ch_at(p), link_at(c)}
      /\ \A d \in Clients(p) : pcur \notin Fields(d)
  <2>1. CASE k = 1
    <3>1. /\ client_at(p) \in Words(p) /\ client_at(p) \notin {head_at(p), free_ch_at(p), used_ch_at(p)}
      BY HeaderWords
    <3>2. client_at(p) # link_at(c) /\ \A d \in Clients(p) : client_at(p) \notin Fields(d)
      BY <1>2, ClientWords DEF link_at
    <3> QED  BY <2>1, <3>1, <3>2, <1>2
  <2>2. CASE k # 1
    <3>1. PICK e \in Clients(p) : pcur = next_at(e)
      BY <2>2, <1>2, <1>3
    <3>2. /\ next_at(e) \in Words(p) /\ next_at(e) # c
          /\ next_at(e) \notin {head_at(p), free_ch_at(p), used_ch_at(p)}
          /\ \A d \in Clients(p) : next_at(e) \notin Fields(d)
      BY <1>2, ClientWords
    <3> QED  BY <3>1, <3>2 DEF link_at
  <2> QED  BY <2>1, <2>2
<1>5. /\ pcur \in StoreAddress /\ free_ch_at(p) \in StoreAddress /\ used_ch_at(p) \in StoreAddress
      /\ free_ch_at(p) # used_ch_at(p)
  BY <1>4, HeaderWords, ArenasApart
<1>6. store = [a \in StoreAddress |-> store[a]]
  BY DEF MemoryInv
<1>7. m = [store EXCEPT ![pcur] = store[next_at(c)],
                        ![free_ch_at(p)] = store[free_ch_at(p)] + 1,
                        ![used_ch_at(p)] = store[used_ch_at(p)] - 1]
  BY <1>4, <1>5, <1>6 DEF Unlink
<1> QED  BY <1>2, <1>4, <1>5, <1>6, <1>7

\* The closed client was the last one of a pool that is not the only one.
LastOne(p) == n_pls > 1 /\ store[used_ch_at(p)] - 1 = 0

\* session_close gives the chunk of the k-th client back to its pool.
LEMMA KeepStep ==
  ASSUME MemoryInv, NEW i \in 1 .. n_pls, NEW p \in Arenas, p = first_clp[i],
         NEW k \in DOMAIN ClientList(first_clp[i]), session_close(i, k), ~ LastOne(p)
  PROVE  /\ MemoryInv'
         /\ Filed(p) /\ k \in 1 .. Len(ClientList(p))
         /\ UNCHANGED <<first_clp, exited>>
         /\ FreeNodesOf(p)' = <<ClientList(p)[k]>> \o FreeNodesOf(p)
         /\ ClientList(p)' = RemoveAt(ClientList(p), k)
         /\ \A a \in StoreAddress \ Words(p) : store'[a] = store[a]
<1> DEFINE f == FreeNodesOf(p)
           u == ClientList(p)
           c == u[k]
           pcur == IF k = 1 THEN client_at(p) ELSE next_at(u[k - 1])
           m == Unlink(p, pcur, c)
<1>1. Filed(p) /\ k \in DOMAIN u
  BY DEF Filed
<1>2. /\ PoolAt(store, p, f, u) /\ f \in Seq(Clients(p)) /\ u \in Seq(Clients(p))
      /\ Len(f) \in Nat /\ Len(u) \in Nat
  BY <1>1, PoolInUse
<1>3. k \in 1 .. Len(u)
  BY <1>1, <1>2, LenProperties
<1>4. /\ ~ exited /\ new \in {nil, c} /\ new' = nil
      /\ IF n_pls > 1 /\ m[used_ch_at(p)] = 0
         THEN first_clp' = RemoveAt(first_clp, i)
         ELSE /\ store' = [m EXCEPT ![link_at(c)] = m[head_at(p)], ![head_at(p)] = c]
              /\ UNCHANGED first_clp
      /\ wrote' = wrote \ {c} /\ UNCHANGED exited
  BY DEF session_close, Unlink
<1> HIDE DEF m, pcur, c
<1>5. /\ c \in Clients(p) /\ pcur \in Words(p) /\ pcur \notin {head_at(p), link_at(c)}
      /\ \A d \in Clients(p) : pcur \notin Fields(d)
      /\ m = [a \in StoreAddress |-> m[a]]
      /\ m[pcur] = store[next_at(c)]
      /\ m[free_ch_at(p)] = store[free_ch_at(p)] + 1
      /\ m[used_ch_at(p)] = store[used_ch_at(p)] - 1
      /\ \A a \in StoreAddress : a \notin {pcur, free_ch_at(p), used_ch_at(p)} =>
           m[a] = store[a]
  <2>1. k \in 1 .. Len(ClientList(p)) /\ c = ClientList(p)[k]
    BY <1>3 DEF c
  <2>2. pcur = IF k = 1 THEN client_at(p) ELSE next_at(ClientList(p)[k - 1])
    BY DEF pcur
  <2>3. m = Unlink(p, pcur, c)
    BY DEF m
  <2> QED  BY <1>1, <2>1, <2>2, <2>3, Unlinked
<1>6. /\ store' = [m EXCEPT ![link_at(c)] = m[head_at(p)], ![head_at(p)] = c]
      /\ UNCHANGED first_clp
  BY <1>4, <1>5 DEF LastOne
<1> DEFINE g == <<c>> \o f
           v == RemoveAt(u, k)
<1> HIDE DEF f, u
<1>7. /\ c = u[k]
      /\ pcur = IF k = 1 THEN client_at(p) ELSE next_at(u[k - 1])
  BY DEF pcur, c
<1> HIDE DEF g, v
<1>8. /\ head_at(p) \in Words(p) /\ free_ch_at(p) \in Words(p) /\ used_ch_at(p) \in Words(p)
      /\ link_at(c) \in Words(p) /\ link_at(c) # head_at(p)
      /\ link_at(c) \notin {free_ch_at(p), used_ch_at(p)}
      /\ head_at(p) \notin {free_ch_at(p), used_ch_at(p)}
      /\ Words(p) \subseteq StoreAddress
  BY <1>5, HeaderWords, ClientWords, ArenasApart DEF link_at
<1>9. /\ store' = [a \in StoreAddress |-> store'[a]]
      /\ store'[link_at(c)] = m[head_at(p)] /\ store'[head_at(p)] = c
      /\ \A a \in StoreAddress : a \notin {link_at(c), head_at(p)} => store'[a] = m[a]
  BY <1>5, <1>6, <1>8
<1>10. /\ store'[pcur] = store[next_at(c)]
       /\ store'[link_at(c)] = store[head_at(p)] /\ store'[head_at(p)] = c
       /\ store'[free_ch_at(p)] = store[free_ch_at(p)] + 1
       /\ store'[used_ch_at(p)] = store[used_ch_at(p)] - 1
       /\ \A a \in StoreAddress :
            a \notin {head_at(p), free_ch_at(p), used_ch_at(p), pcur, link_at(c)} =>
              store'[a] = store[a]
  BY <1>5, <1>8, <1>9
<1>11. PoolAt(store', p, g, v)
  <2>1. GivesBack(store, store', p, pcur, c)
    BY <1>8, <1>10 DEF GivesBack
  <2>2. PoolAt(store', p, <<c>> \o f, RemoveAt(u, k))
    BY <1>2, <1>3, <1>7, <2>1, GivenBack
  <2> QED  BY <2>2 DEF g, v
<1>12. \A a \in StoreAddress \ Words(p) : store'[a] = store[a]
  BY <1>5, <1>8, <1>10
<1>13. /\ Len(v) = Len(u) - 1
       /\ \A n \in 1 .. Len(u) - 1 : v[n] = IF n < k THEN u[n] ELSE u[n + 1]
  BY <1>2, <1>3, RemoveAtProperties DEF v
<1>14. ASSUME NEW d \in wrote'
       PROVE  IF d \in Clients(p)
              THEN /\ \E n \in 1 .. Len(v) : v[n] = d
                   /\ \A a \in Fields(d) : store'[a] = data
              ELSE d \in wrote
  <2>1. d \in wrote /\ d # c
    BY <1>4 DEF c
  <2>2. CASE d \in Clients(p)
    <3>1. PICK n \in 1 .. Len(u) : u[n] = d
      BY <1>1, <2>1, <2>2, InUseWhere DEF MemoryInv, u
    <3>2. \E l \in 1 .. Len(v) : v[l] = d
      <4>1. n # k
        BY <2>1, <3>1, <1>7
      <4>2. CASE n < k
        <5>1. n \in 1 .. Len(u) - 1 /\ v[n] = d
          BY <3>1, <4>2, <1>2, <1>3, <1>13
        <5> QED  BY <5>1, <1>13
      <4>3. CASE n > k
        <5>1. n - 1 \in 1 .. Len(u) - 1 /\ ~ n - 1 < k /\ (n - 1) + 1 = n
          BY <4>3, <1>2, <1>3
        <5>2. v[n - 1] = d
          BY <3>1, <5>1, <1>13
        <5> QED  BY <5>1, <5>2, <1>13
      <4> QED  BY <4>1, <4>2, <4>3, <1>2, <1>3
    <3>3. ASSUME NEW a \in Fields(d) PROVE store'[a] = data
      <4>1. a \in StoreAddress /\ a \notin {head_at(p), free_ch_at(p), used_ch_at(p), client_at(p)}
        BY <1>8, <2>2, ClientWords
      <4>2. a # pcur
        BY <1>5, <2>2
      <4>3. a # link_at(c)
        BY <1>5, <2>1, <2>2, ClientWords DEF link_at
      <4>4. store[a] = data
        BY <2>1 DEF MemoryInv, FieldsKept
      <4> QED  BY <4>1, <4>2, <4>3, <4>4, <1>10
    <3> QED  BY <2>2, <3>2, <3>3
  <2> QED  BY <2>1, <2>2
<1>15. /\ first_clp' \in Seq(Arenas) /\ Len(first_clp') \in 1 .. max_pools
       /\ NoDuplicates(first_clp') /\ exited' \in BOOLEAN
       /\ \A q \in Arenas : Filed(q)' <=> Filed(q) \/ q = p
  BY <1>1, <1>4, <1>6 DEF MemoryInv, n_pls, Filed
<1>16. new' = nil
  BY <1>4
<1>17. MemoryInv' /\ FreeNodesOf(p)' = g /\ ClientList(p)' = v
  BY <1>9, <1>11, <1>12, <1>14, <1>15, <1>16, PoolChanged
<1> QED  BY <1>1, <1>3, <1>4, <1>6, <1>12, <1>17 DEF f, u, g, v, c

\* session_close drops a pool with its last client, unless it is the only one.
LEMMA DropStep ==
  ASSUME MemoryInv, NEW i \in 1 .. n_pls, NEW p \in Arenas, p = first_clp[i],
         NEW k \in DOMAIN ClientList(first_clp[i]), session_close(i, k), LastOne(p)
  PROVE  /\ MemoryInv'
         /\ Filed(p) /\ k \in 1 .. Len(ClientList(p))
         /\ UNCHANGED exited
         /\ first_clp' = RemoveAt(first_clp, i)
         /\ \A q \in Arenas : Filed(q)' <=> Filed(q) /\ q # p
         /\ \A a \in Words(p) :
              store'[a] = IF a \in p .. p + page_size - 1 THEN unmapped ELSE lost
         /\ \A a \in StoreAddress \ Words(p) : store'[a] = store[a]
<1> DEFINE f == FreeNodesOf(p)
           u == ClientList(p)
           c == u[k]
           pcur == IF k = 1 THEN client_at(p) ELSE next_at(u[k - 1])
           m == Unlink(p, pcur, c)
<1>1. Filed(p) /\ k \in DOMAIN u
  BY DEF Filed
<1>2. /\ u \in Seq(Clients(p)) /\ Len(u) \in Nat /\ store[used_ch_at(p)] = Len(u)
  BY <1>1, PoolInUse
<1>3. k \in 1 .. Len(u)
  BY <1>1, <1>2, LenProperties
<1>4. /\ new' = nil
      /\ IF n_pls > 1 /\ m[used_ch_at(p)] = 0
         THEN /\ store' = [a \in StoreAddress |->
                             IF a \in p .. p + page_size - 1 THEN unmapped
                             ELSE IF a \in Words(p) THEN lost ELSE m[a]]
              /\ first_clp' = RemoveAt(first_clp, i)
         ELSE UNCHANGED first_clp
      /\ wrote' = wrote \ {c} /\ UNCHANGED exited
  BY DEF session_close, Unlink
<1> HIDE DEF m, pcur, c
<1>5. /\ c \in Clients(p) /\ pcur \in Words(p)
      /\ m[used_ch_at(p)] = store[used_ch_at(p)] - 1
      /\ \A a \in StoreAddress : a \notin {pcur, free_ch_at(p), used_ch_at(p)} =>
           m[a] = store[a]
  <2>1. k \in 1 .. Len(ClientList(p)) /\ c = ClientList(p)[k]
    BY <1>3 DEF c
  <2>2. pcur = IF k = 1 THEN client_at(p) ELSE next_at(ClientList(p)[k - 1])
    BY DEF pcur
  <2>3. m = Unlink(p, pcur, c)
    BY DEF m
  <2> QED  BY <1>1, <2>1, <2>2, <2>3, Unlinked
<1>6. /\ n_pls > 1 /\ Len(u) = 1
      /\ store' = [a \in StoreAddress |->
                     IF a \in p .. p + page_size - 1 THEN unmapped
                     ELSE IF a \in Words(p) THEN lost ELSE m[a]]
      /\ first_clp' = RemoveAt(first_clp, i)
  BY <1>2, <1>4, <1>5 DEF LastOne
<1>7. p .. p + page_size - 1 \subseteq Words(p) /\ p \in p .. p + page_size - 1
  BY ClientsApart, ArenaHolds, Constants DEF Words
<1>8. /\ \A a \in Words(p) :
           store'[a] = IF a \in p .. p + page_size - 1 THEN unmapped ELSE lost
      /\ \A a \in StoreAddress \ Words(p) : store'[a] = store[a]
      /\ store' = [a \in StoreAddress |-> store'[a]]
  <2>1. Words(p) \subseteq StoreAddress
    BY ArenasApart
  <2>2. \A a \in StoreAddress :
          store'[a] = IF a \in p .. p + page_size - 1 THEN unmapped
                      ELSE IF a \in Words(p) THEN lost ELSE m[a]
    BY <1>6
  <2>3. \A a \in StoreAddress \ Words(p) : m[a] = store[a]
    BY <1>5, HeaderWords
  <2>4. store' = [a \in StoreAddress |-> store'[a]]
    BY <1>6
  <2> QED  BY <2>1, <2>2, <2>3, <2>4, <1>7
<1> DEFINE n == n_pls
           s == first_clp
<1>9. /\ s \in Seq(Arenas) /\ n \in Nat /\ n > 1 /\ n <= max_pools /\ Len(s) = n
      /\ \A j, l \in 1 .. n : s[j] = s[l] => j = l
      /\ i \in 1 .. n /\ p = s[i]
  BY <1>6, LenProperties DEF MemoryInv, n_pls, NoDuplicates
<1>10. /\ first_clp' \in Seq(Arenas) /\ Len(first_clp') = n - 1
       /\ \A j \in 1 .. n - 1 : first_clp'[j] = IF j < i THEN s[j] ELSE s[j + 1]
  <2>1. i \in 1 .. Len(s)
    BY <1>9
  <2> QED  BY <1>6, <1>9, <2>1, RemoveAtProperties
<1> HIDE DEF n, s
<1>11. \A q : Filed(q)' <=> \E j \in 1 .. n - 1 : first_clp'[j] = q
  BY <1>10 DEF Filed, n_pls
<1>12. \A q : Filed(q) <=> \E j \in 1 .. n : s[j] = q
  BY DEF Filed, n, s
<1>13. ASSUME NEW q PROVE Filed(q)' <=> Filed(q) /\ q # p
  <2>1. ASSUME NEW j \in 1 .. n - 1, first_clp'[j] = q
        PROVE  (\E l \in 1 .. n : s[l] = q) /\ q # p
    <3>1. CASE j < i
      <4>1. j \in 1 .. n /\ j # i /\ s[j] = q
        BY <2>1, <3>1, <1>9, <1>10
      <4> QED  BY <4>1, <1>9
    <3>2. CASE ~ j < i
      <4>1. j + 1 \in 1 .. n /\ j + 1 # i /\ s[j + 1] = q
        BY <2>1, <3>2, <1>9, <1>10
      <4> QED  BY <4>1, <1>9
    <3> QED  BY <3>1, <3>2
  <2>2. ASSUME NEW l \in 1 .. n, s[l] = q, q # p
        PROVE  \E j \in 1 .. n - 1 : first_clp'[j] = q
    <3>1. l # i
      BY <2>2, <1>9
    <3>2. CASE l < i
      <4>1. l \in 1 .. n - 1 /\ first_clp'[l] = q
        BY <2>2, <3>2, <1>9, <1>10
      <4> QED  BY <4>1
    <3>3. CASE l > i
      <4>1. l - 1 \in 1 .. n - 1 /\ ~ l - 1 < i /\ (l - 1) + 1 = l
        BY <3>3, <1>9
      <4>2. first_clp'[l - 1] = q
        BY <4>1, <2>2, <1>10
      <4> QED  BY <4>1, <4>2
    <3> QED  BY <3>1, <3>2, <3>3, <1>9
  <2> QED  BY <2>1, <2>2, <1>11, <1>12
<1>14. n_pls' \in 1 .. max_pools /\ NoDuplicates(first_clp')
  <2>1. NoDuplicates(first_clp')
    <3> SUFFICES ASSUME NEW j \in 1 .. n - 1, NEW l \in 1 .. n - 1,
                        first_clp'[j] = first_clp'[l]
                 PROVE  j = l
      BY <1>10 DEF NoDuplicates
    <3>1. PICK a \in 1 .. n : a = (IF j < i THEN j ELSE j + 1) /\ first_clp'[j] = s[a]
      BY <1>9, <1>10
    <3>2. PICK b \in 1 .. n : b = (IF l < i THEN l ELSE l + 1) /\ first_clp'[l] = s[b]
      BY <1>9, <1>10
    <3>3. a = b
      BY <3>1, <3>2, <1>9
    <3> QED  BY <3>1, <3>2, <3>3, <1>9
  <2>2. Len(first_clp') \in 1 .. max_pools
    BY <1>9, <1>10, Constants
  <2> QED  BY <2>1, <2>2 DEF n_pls
<1>15. \A q \in Arenas : q # p =>
         /\ \A a \in Words(q) : store'[a] = store[a]
         /\ Filed(q) => /\ PoolAt(store', q, FreeNodesOf(q), ClientList(q))
                        /\ FreeNodesOf(q)' = FreeNodesOf(q)
                        /\ ClientList(q)' = ClientList(q)
  BY <1>8, OtherPools
<1>16. ASSUME NEW q \in Arenas
       PROVE  IF Filed(q)' THEN PoolAt(store', q, FreeNodesOf(q)', ClientList(q)')
              ELSE store'[q] = unmapped
  <2>1. CASE q = p
    BY <2>1, <1>7, <1>8, <1>13
  <2>2. CASE q # p /\ Filed(q)
    BY <2>2, <1>13, <1>15
  <2>3. CASE q # p /\ ~ Filed(q)
    <3>1. store[q] = unmapped
      BY <2>3 DEF MemoryInv
    <3>2. store'[q] = store[q]
      BY <2>3, <1>15, HeaderWords
    <3> QED  BY <2>3, <3>1, <3>2, <1>13
  <2> QED  BY <2>1, <2>2, <2>3
<1>17. ASSUME NEW d \in wrote' PROVE InUse(d)' /\ \A a \in Fields(d) : store'[a] = data
  <2>1. d \in wrote /\ InUse(d) /\ d # c
    BY <1>4 DEF MemoryInv
  <2>2. PICK q \in Arenas : d \in Clients(q) /\ Filed(q)
    BY <2>1, InUseWhere
  <2>3. \E l \in 1 .. Len(ClientList(q)) : ClientList(q)[l] = d
    BY <2>1, <2>2, InUseWhere
  <2>4. q # p
    <3> SUFFICES ASSUME q = p PROVE FALSE
      OBVIOUS
    <3>1. \E l \in 1 .. Len(u) : u[l] = d
      BY <2>3
    <3>2. k = 1 /\ \A l \in 1 .. Len(u) : l = 1
      BY <1>3, <1>6
    <3> QED  BY <3>1, <3>2, <2>1 DEF c
  <2>5. InUse(d)'
    BY <2>2, <2>3, <2>4, <1>13, <1>15 DEF InUse
  <2>6. ASSUME NEW a \in Fields(d) PROVE store'[a] = data
    <3>1. a \in Words(q) /\ store[a] = data
      BY <2>1, <2>2, ClientWords DEF MemoryInv, FieldsKept
    <3> QED  BY <3>1, <2>4, <1>15
  <2> QED  BY <2>5, <2>6
<1>18. FieldsKept' /\ exited' \in BOOLEAN
  BY <1>4, <1>17 DEF FieldsKept, MemoryInv
<1>19. MemoryInv'
  BY <1>4, <1>8, <1>10, <1>14, <1>16, <1>17, <1>18 DEF MemoryInv
<1> QED  BY <1>1, <1>3, <1>4, <1>6, <1>8, <1>13, <1>19

\* server_handle sets the fields of the new client: both lists of its pool stay.
LEMMA FieldsStep ==
  ASSUME MemoryInv, set_fields
  PROVE  /\ MemoryInv' /\ UNCHANGED <<first_clp, exited>>
         /\ \E p \in Arenas :
              /\ Filed(p)
              /\ FreeNodesOf(p)' = FreeNodesOf(p) /\ ClientList(p)' = ClientList(p)
              /\ \A a \in StoreAddress \ Words(p) : store'[a] = store[a]
<1>1. /\ new # nil /\ InUse(new)
      /\ store' = [a \in StoreAddress |-> IF a \in Fields(new) THEN data ELSE store[a]]
      /\ wrote' = wrote \cup {new} /\ new' = nil
      /\ UNCHANGED <<first_clp, exited>>
  BY DEF set_fields, MemoryInv
<1>2. PICK p \in Arenas : new \in Clients(p) /\ Filed(p)
  BY <1>1, InUseWhere
<1> DEFINE f == FreeNodesOf(p)
           u == ClientList(p)
<1>3. /\ \E k \in 1 .. Len(u) : u[k] = new
      /\ PoolAt(store, p, f, u)
      /\ \A k \in 1 .. Len(f) : f[k] \in Clients(p)
      /\ \A k \in 1 .. Len(u) : u[k] \in Clients(p)
  BY <1>1, <1>2, InUseWhere, PoolInUse
<1> HIDE DEF f, u
<1>4. /\ store' = [a \in StoreAddress |-> store'[a]]
      /\ \A a \in StoreAddress : a \in Fields(new) => store'[a] = data
      /\ \A a \in StoreAddress : a \notin Fields(new) => store'[a] = store[a]
      /\ Words(p) \subseteq StoreAddress
  BY <1>1, ArenasApart
<1>5. \A a \in StoreAddress \ Words(p) : store'[a] = store[a]
  BY <1>2, <1>4, ClientWords
<1>6. PoolAt(store', p, f, u)
  <2>1. \A a \in {head_at(p), free_ch_at(p), used_ch_at(p), client_at(p)} : store'[a] = store[a]
    BY <1>2, <1>4, HeaderWords, ClientWords
  <2>2. ASSUME NEW k \in 1 .. Len(f) PROVE store'[link_at(f[k])] = store[link_at(f[k])]
    <3>1. f[k] \in Clients(p) /\ f[k] # new
      BY <1>3 DEF PoolAt, EachOnce, NothingShared
    <3>2. f[k] \in Words(p) /\ f[k] \notin Fields(new)
      BY <1>2, <3>1, ClientWords
    <3> QED  BY <3>2, <1>4 DEF link_at
  <2>3. ASSUME NEW k \in 1 .. Len(u) PROVE store'[next_at(u[k])] = store[next_at(u[k])]
    <3>1. u[k] \in Clients(p)
      BY <1>3
    <3>2. next_at(u[k]) \in Words(p) /\ next_at(u[k]) \notin Fields(new)
      BY <1>2, <3>1, ClientWords
    <3> QED  BY <3>2, <1>4
  <2> QED  BY <1>3, <2>1, <2>2, <2>3 DEF PoolAt
<1>7. ASSUME NEW d \in wrote'
      PROVE  IF d \in Clients(p)
             THEN /\ \E k \in 1 .. Len(u) : u[k] = d
                  /\ \A a \in Fields(d) : store'[a] = data
             ELSE d \in wrote
  <2>1. CASE d = new
    <3>1. \A a \in Fields(d) : a \in StoreAddress
      BY <2>1, <1>2, <1>4, ClientWords
    <3> QED  BY <2>1, <3>1, <1>2, <1>3, <1>4
  <2>2. CASE d \in wrote
    <3>1. InUse(d) /\ \A a \in Fields(d) : store[a] = data
      BY <2>2 DEF MemoryInv, FieldsKept
    <3>2. ASSUME d \in Clients(p) PROVE \A a \in Fields(d) : a \in StoreAddress
      BY <3>2, <1>4, ClientWords
    <3>3. ASSUME d \in Clients(p) PROVE \E k \in 1 .. Len(u) : u[k] = d
      BY <3>1, <3>3, InUseWhere DEF u
    <3> QED  BY <2>2, <3>1, <3>2, <3>3, <1>4
  <2> QED  BY <2>1, <2>2, <1>1
<1>8. /\ first_clp' \in Seq(Arenas) /\ Len(first_clp') \in 1 .. max_pools
      /\ NoDuplicates(first_clp') /\ exited' \in BOOLEAN
      /\ \A q \in Arenas : Filed(q)' <=> Filed(q) \/ q = p
  BY <1>1, <1>2 DEF MemoryInv, n_pls, Filed
<1>9. new' = nil
  BY <1>1
<1>10. MemoryInv' /\ FreeNodesOf(p)' = f /\ ClientList(p)' = u
  BY <1>4, <1>5, <1>6, <1>7, <1>8, <1>9, PoolChanged
<1> QED  BY <1>1, <1>2, <1>5, <1>10 DEF f, u

\* _start files one pool, with no client.
LEMMA InitStep ==
  ASSUME MemoryInit
  PROVE  /\ MemoryInv /\ exited = FALSE
         /\ \E p \in Arenas :
              /\ first_clp = <<p>>
              /\ FreeNodesOf(p) = Chain(p) /\ ClientList(p) = <<>>
              /\ \A q \in Arenas : Filed(q) <=> q = p
              /\ \A a \in StoreAddress \ Words(p) : store[a] = unmapped
<1> DEFINE z == [a \in StoreAddress |-> unmapped]
<1>1. PICK p \in Arenas :
        /\ store = WithPool(z, p) /\ first_clp = <<p>>
        /\ new = nil /\ wrote = {} /\ exited = FALSE
  BY DEF MemoryInit
<1>2. /\ PoolAt(store, p, Chain(p), <<>>)
      /\ store = [a \in StoreAddress |-> store[a]]
      /\ \A a \in StoreAddress \ Words(p) : store[a] = z[a]
  <2> HIDE DEF z
  <2> QED  BY <1>1, NewlyMade
<1>3. \A a \in StoreAddress \ Words(p) : store[a] = unmapped
  BY <1>2
<1>4. FreeNodesOf(p) = Chain(p) /\ ClientList(p) = <<>>
  BY <1>2, ReadsPool DEF FreeNodesOf, ClientList
<1>5. /\ first_clp \in Seq(Arenas) /\ Len(first_clp) = 1 /\ first_clp[1] = p
      /\ \A q \in Arenas : Filed(q) <=> q = p
  BY <1>1 DEF Filed, n_pls
<1>6. n_pls \in 1 .. max_pools /\ NoDuplicates(first_clp)
  BY <1>5, Constants DEF n_pls, NoDuplicates
<1>7. ASSUME NEW q \in Arenas
      PROVE  IF Filed(q) THEN PoolAt(store, q, FreeNodesOf(q), ClientList(q))
             ELSE store[q] = unmapped
  <2>1. CASE q = p
    BY <2>1, <1>2, <1>4, <1>5
  <2>2. CASE q # p
    <3>1. q \in StoreAddress \ Words(p)
      BY <2>2, HeaderWords, ArenasApart
    <3> QED  BY <2>2, <3>1, <1>3, <1>5
  <2> QED  BY <2>1, <2>2
<1>8. MemoryInv
  BY <1>1, <1>2, <1>5, <1>6, <1>7 DEF MemoryInv, FieldsKept
<1> QED  BY <1>1, <1>3, <1>4, <1>5, <1>8

\* mmap fails: the server exits and memory stays as it is.
LEMMA MemoryStutters ==
  ASSUME MemoryInv, UNCHANGED <<store, first_clp, new, wrote>>, exited' \in BOOLEAN
  PROVE  MemoryInv'
<1>1. /\ \A p : FreeNodesOf(p)' = FreeNodesOf(p) /\ ClientList(p)' = ClientList(p)
      /\ \A p : Filed(p)' <=> Filed(p)
  BY DEF FreeNodesOf, ClientList, Filed, n_pls
<1>2. \A c : InUse(c)' <=> InUse(c)
  BY <1>1 DEF InUse
<1>3. /\ FieldsKept' /\ first_clp' = first_clp /\ store' = store
      /\ new' = new /\ wrote' = wrote
  BY DEF FieldsKept, MemoryInv
<1> QED  BY <1>1, <1>2, <1>3 DEF MemoryInv, n_pls

\* What a step of the client pools in memory keeps.
LEMMA NextMemoryInv == MemoryInv /\ [MemoryNext]_memoryVars => MemoryInv'
<1> SUFFICES ASSUME MemoryInv, [MemoryNext]_memoryVars PROVE MemoryInv'
  OBVIOUS
<1>1. CASE session_new_reuse
  BY <1>1, ReuseStep
<1>2. CASE session_new_grow
  BY <1>2, GrowStep
<1>3. CASE session_new_nomem
  BY <1>3, MemoryStutters DEF session_new_nomem
<1>4. CASE set_fields
  BY <1>4, FieldsStep
<1>5. CASE \E i \in 1 .. n_pls : \E k \in DOMAIN ClientList(first_clp[i]) : session_close(i, k)
  <2>0. PICK i \in 1 .. n_pls : \E k \in DOMAIN ClientList(first_clp[i]) : session_close(i, k)
    BY <1>5
  <2>1. PICK k \in DOMAIN ClientList(first_clp[i]) : session_close(i, k)
    BY <2>0
  <2>2. PICK p \in Arenas : p = first_clp[i]
    BY ElementOfSeq DEF MemoryInv, n_pls
  <2>3. CASE LastOne(p)
    BY <2>1, <2>2, <2>3, DropStep
  <2>4. CASE ~ LastOne(p)
    BY <2>1, <2>2, <2>4, KeepStep
  <2> QED  BY <2>3, <2>4
<1>6. CASE UNCHANGED memoryVars
  BY <1>6, MemoryStutters DEF memoryVars, MemoryInv
<1> QED  BY <1>1, <1>2, <1>3, <1>4, <1>5, <1>6 DEF MemoryNext

\* In every reachable state each pool in use has its chunks on two lists in memory that
\* are linked as its counters say.
THEOREM MemoryInvariant == MemorySpec => []MemoryInv
BY InitStep, NextMemoryInv, PTL DEF MemorySpec

\* What a session wrote into its client stays there until it is closed, whichever other
\* sessions open and close.
THEOREM FieldsAreKept == MemorySpec => []FieldsKept
<1>1. MemoryInv => FieldsKept
  BY DEF MemoryInv
<1> QED  BY <1>1, MemoryInvariant, PTL

-----------------------------------------------------------------------------
(***************************************************************************)
(* The lists in memory are those of ClientPools.                           *)
(***************************************************************************)

\* An address names one chunk of one pool.
LEMMA ChunkNames ==
  ASSUME NEW p \in Arenas
  PROVE  /\ \A i \in ChunkIndex : ChunkAt(chunk_at(p, i)) = <<p, i>>
         /\ \A c \in Clients(p) : ChunkAt(c) \in {p} \X ChunkIndex
         /\ \A c, d \in Clients(p) : ChunkAt(c) = ChunkAt(d) => c = d
<1>1. ASSUME NEW i \in ChunkIndex PROVE ChunkAt(chunk_at(p, i)) = <<p, i>>
  <2> DEFINE a == chunk_at(p, i)
             P(x) == a = chunk_at(x[1], x[2])
  <2>1. <<p, i>> \in Arenas \X ChunkIndex /\ P(<<p, i>>)
    OBVIOUS
  <2>2. ASSUME NEW x \in Arenas \X ChunkIndex, P(x) PROVE x = <<p, i>>
    <3>1. PICK q \in Arenas, j \in ChunkIndex : x = <<q, j>>
      BY <2>2
    <3>2. a = chunk_at(q, j) /\ a \in Clients(q) /\ a \in Clients(p)
      BY <2>2, <3>1 DEF Clients
    <3>3. a \in Words(q) /\ a \in Words(p)
      BY <3>2, ClientWords
    <3>4. q = p
      BY <3>3, ArenasApart
    <3>5. j = i
      <4> SUFFICES ASSUME j # i PROVE FALSE
        OBVIOUS
      <4>1. a \in Nat /\ (a + client_size <= a \/ a + client_size <= a)
        BY <3>2, <3>4, ClientsApart
      <4> QED  BY <4>1, Constants
    <3> QED  BY <3>1, <3>4, <3>5
  <2>3. ChunkAt(a) = CHOOSE x \in Arenas \X ChunkIndex : P(x)
    BY <2>1 DEF ChunkAt
  <2> HIDE DEF P, a
  <2>4. ChunkAt(a) = <<p, i>>
    BY <2>1, <2>2, <2>3
  <2> QED  BY <2>4 DEF a
<1>2. ASSUME NEW c \in Clients(p)
      PROVE  \E i \in ChunkIndex : c = chunk_at(p, i) /\ ChunkAt(c) = <<p, i>>
  BY <1>1 DEF Clients
<1>3. ASSUME NEW c \in Clients(p), NEW d \in Clients(p), ChunkAt(c) = ChunkAt(d)
      PROVE  c = d
  <2>1. PICK i \in ChunkIndex : c = chunk_at(p, i) /\ ChunkAt(c) = <<p, i>>
    BY <1>2
  <2>2. PICK j \in ChunkIndex : d = chunk_at(p, j) /\ ChunkAt(d) = <<p, j>>
    BY <1>2
  <2>3. i = j
    BY <1>3, <2>1, <2>2
  <2> QED  BY <2>1, <2>2, <2>3
<1> QED  BY <1>1, <1>2, <1>3

\* A list of clients by the names of their chunks.
LEMMA NamedList ==
  ASSUME NEW p \in Arenas, NEW s \in Seq(Clients(p))
  PROVE  /\ InPools(s) \in Seq({p} \X ChunkIndex) /\ Len(InPools(s)) = Len(s)
         /\ \A n \in 1 .. Len(s) : InPools(s)[n] = ChunkAt(s[n])
<1>1. Len(s) \in Nat /\ \A n \in 1 .. Len(s) : s[n] \in Clients(p)
  BY LenProperties, ElementOfSeq
<1>2. InPools(s) \in [1 .. Len(s) -> {p} \X ChunkIndex]
  BY <1>1, ChunkNames DEF InPools
<1>3. InPools(s) \in Seq({p} \X ChunkIndex) /\ Len(InPools(s)) = Len(s)
  BY <1>1, <1>2
<1> QED  BY <1>3 DEF InPools

\* Naming the chunks goes with taking from the front, putting in front and unlinking.
LEMMA NamedAfterwards ==
  ASSUME NEW p \in Arenas, NEW s \in Seq(Clients(p))
  PROVE  /\ s # <<>> => Head(InPools(s)) = ChunkAt(s[1]) /\ InPools(Tail(s)) = Tail(InPools(s))
         /\ \A c \in Clients(p) : InPools(<<c>> \o s) = <<ChunkAt(c)>> \o InPools(s)
         /\ \A k \in 1 .. Len(s) : InPools(RemoveAt(s, k)) = RemoveAt(InPools(s), k)
<1> DEFINE t == InPools(s)
           C == {p} \X ChunkIndex
<1>1. /\ t \in Seq(C) /\ Len(t) = Len(s) /\ Len(s) \in Nat
      /\ \A n \in 1 .. Len(s) : t[n] = ChunkAt(s[n])
  BY NamedList, LenProperties
<1> HIDE DEF t, C
<1>2. ASSUME s # <<>> PROVE Head(t) = ChunkAt(s[1]) /\ InPools(Tail(s)) = Tail(t)
  <2>1. /\ Tail(s) \in Seq(Clients(p)) /\ Len(Tail(s)) = Len(s) - 1
        /\ \A n \in 1 .. Len(Tail(s)) : Tail(s)[n] = s[n + 1]
    BY <1>2, HeadTailProperties
  <2>2. Len(s) # 0 /\ t # <<>>
    BY <1>1, <1>2, EmptySeq
  <2>3. /\ Head(t) = t[1] /\ Tail(t) \in Seq(C) /\ Len(Tail(t)) = Len(t) - 1
        /\ \A n \in 1 .. Len(Tail(t)) : Tail(t)[n] = t[n + 1]
    BY <1>1, <2>2, HeadTailProperties
  <2>4. /\ InPools(Tail(s)) \in Seq(C) /\ Len(InPools(Tail(s))) = Len(s) - 1
        /\ \A n \in 1 .. Len(s) - 1 : InPools(Tail(s))[n] = ChunkAt(Tail(s)[n])
    BY <2>1, NamedList DEF C
  <2>5. ASSUME NEW n \in 1 .. Len(s) - 1 PROVE InPools(Tail(s))[n] = Tail(t)[n]
    <3>1. n + 1 \in 1 .. Len(s)
      BY <1>1
    <3> QED  BY <3>1, <1>1, <2>1, <2>3, <2>4
  <2>6. InPools(Tail(s)) = Tail(t)
    BY <1>1, <2>3, <2>4, <2>5, SeqEqual
  <2> QED  BY <1>1, <2>2, <2>3, <2>6
<1>3. ASSUME NEW c \in Clients(p) PROVE InPools(<<c>> \o s) = <<ChunkAt(c)>> \o t
  <2> DEFINE v == <<c>> \o s
             w == <<ChunkAt(c)>> \o t
  <2>1. /\ v \in Seq(Clients(p)) /\ Len(v) = Len(s) + 1
        /\ \A n \in 1 .. Len(s) + 1 : v[n] = IF n = 1 THEN c ELSE s[n - 1]
    BY PushProperties
  <2>2. ChunkAt(c) \in C
    BY ChunkNames DEF C
  <2>3. /\ w \in Seq(C) /\ Len(w) = Len(t) + 1
        /\ \A n \in 1 .. Len(t) + 1 : w[n] = IF n = 1 THEN ChunkAt(c) ELSE t[n - 1]
    BY <1>1, <2>2, PushProperties
  <2> HIDE DEF v, w
  <2>4. /\ InPools(v) \in Seq(C) /\ Len(InPools(v)) = Len(s) + 1
        /\ \A n \in 1 .. Len(s) + 1 : InPools(v)[n] = ChunkAt(v[n])
    BY <2>1, NamedList DEF C
  <2>5. ASSUME NEW n \in 1 .. Len(s) + 1 PROVE InPools(v)[n] = w[n]
    <3>1. n # 1 => n - 1 \in 1 .. Len(s)
      BY <1>1
    <3> QED  BY <3>1, <1>1, <2>1, <2>3, <2>4
  <2>6. InPools(v) = w
    BY <1>1, <2>3, <2>4, <2>5, SeqEqual
  <2> QED  BY <2>6 DEF v, w
<1>4. ASSUME NEW k \in 1 .. Len(s) PROVE InPools(RemoveAt(s, k)) = RemoveAt(t, k)
  <2> DEFINE v == RemoveAt(s, k)
             w == RemoveAt(t, k)
  <2>1. /\ v \in Seq(Clients(p)) /\ Len(v) = Len(s) - 1
        /\ \A n \in 1 .. Len(s) - 1 : v[n] = IF n < k THEN s[n] ELSE s[n + 1]
    BY RemoveAtProperties
  <2>2. k \in 1 .. Len(t)
    BY <1>1
  <2>3. /\ w \in Seq(C) /\ Len(w) = Len(t) - 1
        /\ \A n \in 1 .. Len(t) - 1 : w[n] = IF n < k THEN t[n] ELSE t[n + 1]
    BY <1>1, <2>2, RemoveAtProperties
  <2> HIDE DEF v, w
  <2>4. /\ InPools(v) \in Seq(C) /\ Len(InPools(v)) = Len(s) - 1
        /\ \A n \in 1 .. Len(s) - 1 : InPools(v)[n] = ChunkAt(v[n])
    BY <1>1, <2>1, NamedList DEF C
  <2>5. ASSUME NEW n \in 1 .. Len(s) - 1 PROVE InPools(v)[n] = w[n]
    <3>1. n \in 1 .. Len(s) /\ n + 1 \in 1 .. Len(s)
      BY <1>1
    <3> QED  BY <3>1, <1>1, <2>1, <2>3, <2>4
  <2>6. InPools(v) = w
    BY <1>1, <2>3, <2>4, <2>5, SeqEqual
  <2> QED  BY <2>6 DEF v, w
<1> QED  BY <1>2, <1>3, <1>4 DEF t

\* A pool is mapped as long as it is filed.
LEMMA MappedIfFiled ==
  /\ MemoryInv => \A p \in Arenas : IsMapped(p) <=> Filed(p)
  /\ MemoryInv' => \A p \in Arenas : IsMapped(p)' <=> Filed(p)'
<1>1. ASSUME MemoryInv, NEW p \in Arenas PROVE IsMapped(p) <=> Filed(p)
  BY <1>1, FirstWordSet DEF MemoryInv, IsMapped
<1>2. ASSUME MemoryInv', NEW p \in Arenas PROVE IsMapped(p)' <=> Filed(p)'
  BY <1>2, FirstWordSet DEF MemoryInv, IsMapped
<1> QED  BY <1>1, <1>2

\* What ClientPools sees of a pool in use.
LEMMA SeenInUse ==
  ASSUME MemoryInv, NEW p \in Arenas, Filed(p)
  PROVE  /\ free[p] = InPools(FreeNodesOf(p)) /\ client[p] = InPools(ClientList(p))
         /\ free_ch[p] = Len(FreeNodesOf(p)) /\ used_ch[p] = Len(ClientList(p))
         /\ free_ch[p] = store[free_ch_at(p)] /\ used_ch[p] = store[used_ch_at(p)]
         /\ region[p] = "mapped"
<1>1. IsMapped(p)
  BY MappedIfFiled
<1> QED  BY <1>1, PoolInUse DEF free, client, free_ch, used_ch, region

\* A step that writes to one arena changes what ClientPools sees of that pool alone.
LEMMA SeenAfterwards ==
  ASSUME MemoryInv, MemoryInv', NEW p \in Arenas,
         \A q \in Arenas : q # p => (Filed(q)' <=> Filed(q)),
         \A a \in StoreAddress \ Words(p) : store'[a] = store[a]
  PROVE  /\ free' = [free EXCEPT ![p] = free'[p]]
         /\ client' = [client EXCEPT ![p] = client'[p]]
         /\ free_ch' = [free_ch EXCEPT ![p] = free_ch'[p]]
         /\ used_ch' = [used_ch EXCEPT ![p] = used_ch'[p]]
         /\ region' = [region EXCEPT ![p] = region'[p]]
         /\ Filed(p)' =>
              /\ free'[p] = InPools(FreeNodesOf(p)') /\ client'[p] = InPools(ClientList(p)')
              /\ free_ch'[p] = Len(FreeNodesOf(p)') /\ used_ch'[p] = Len(ClientList(p)')
              /\ region'[p] = "mapped"
         /\ ~ Filed(p)' =>
              /\ free'[p] = <<>> /\ client'[p] = <<>> /\ free_ch'[p] = 0 /\ used_ch'[p] = 0
              /\ region'[p] = IF \E a \in Words(p) : store'[a] # unmapped THEN "leaked"
                              ELSE "unmapped"
<1>1. /\ \A q \in Arenas : IsMapped(q) <=> Filed(q)
      /\ \A q \in Arenas : IsMapped(q)' <=> Filed(q)'
  BY MappedIfFiled
<1>2. ASSUME NEW q \in Arenas, q # p
      PROVE  /\ IsMapped(q)' <=> IsMapped(q)
             /\ \A a \in Words(q) : store'[a] = store[a]
             /\ IsMapped(q) => FreeNodesOf(q)' = FreeNodesOf(q) /\ ClientList(q)' = ClientList(q)
  BY <1>1, <1>2, OtherPools
<1>3. \A q \in Arenas : free_ch_at(q) \in Words(q) /\ used_ch_at(q) \in Words(q)
  BY HeaderWords
<1>4. ASSUME NEW q \in Arenas, q # p
      PROVE  /\ free'[q] = free[q] /\ client'[q] = client[q]
             /\ free_ch'[q] = free_ch[q] /\ used_ch'[q] = used_ch[q]
             /\ region'[q] = region[q]
  <2>1. free'[q] = free[q] /\ client'[q] = client[q]
    BY <1>2, <1>4 DEF free, client
  <2>2. free_ch'[q] = free_ch[q] /\ used_ch'[q] = used_ch[q]
    BY <1>2, <1>3, <1>4 DEF free_ch, used_ch
  <2>3. region'[q] = region[q]
    BY <1>2, <1>4 DEF region
  <2> QED  BY <2>1, <2>2, <2>3
<1>5. free' = [free EXCEPT ![p] = free'[p]]
  BY <1>4 DEF free
<1>6. client' = [client EXCEPT ![p] = client'[p]]
  BY <1>4 DEF client
<1>7. free_ch' = [free_ch EXCEPT ![p] = free_ch'[p]]
  BY <1>4 DEF free_ch
<1>8. used_ch' = [used_ch EXCEPT ![p] = used_ch'[p]]
  BY <1>4 DEF used_ch
<1>9. region' = [region EXCEPT ![p] = region'[p]]
  BY <1>4 DEF region
<1>10. ASSUME Filed(p)'
       PROVE  /\ free'[p] = InPools(FreeNodesOf(p)') /\ client'[p] = InPools(ClientList(p)')
              /\ free_ch'[p] = Len(FreeNodesOf(p)') /\ used_ch'[p] = Len(ClientList(p)')
              /\ region'[p] = "mapped"
  <2>1. IsMapped(p)' /\ PoolAt(store', p, FreeNodesOf(p)', ClientList(p)')
    BY <1>1, <1>10 DEF MemoryInv
  <2>2. /\ store'[free_ch_at(p)] = Len(FreeNodesOf(p)')
        /\ store'[used_ch_at(p)] = Len(ClientList(p)')
    BY <2>1 DEF PoolAt
  <2> QED  BY <2>1, <2>2 DEF free, client, free_ch, used_ch, region
<1>11. ASSUME ~ Filed(p)'
       PROVE  /\ free'[p] = <<>> /\ client'[p] = <<>> /\ free_ch'[p] = 0 /\ used_ch'[p] = 0
              /\ region'[p] = IF \E a \in Words(p) : store'[a] # unmapped THEN "leaked"
                              ELSE "unmapped"
  BY <1>1, <1>11 DEF free, client, free_ch, used_ch, region
<1> QED  BY <1>5, <1>6, <1>7, <1>8, <1>9, <1>10, <1>11

\* Both see the same pools with free chunks.
LEMMA HasFreeSeen ==
  ASSUME MemoryInv
  PROVE  /\ \A j \in 1 .. n_pls : Pools!HasFree(j) <=> HasFree(j)
         /\ Pools!AllFull <=> AllFull
<1>1. ASSUME NEW j \in 1 .. n_pls PROVE Pools!HasFree(j) <=> HasFree(j)
  <2>1. first_clp[j] \in Arenas /\ Filed(first_clp[j])
    BY ElementOfSeq DEF MemoryInv, n_pls, Filed
  <2>2. free_ch[first_clp[j]] = store[free_ch_at(first_clp[j])]
    BY <2>1, SeenInUse
  <2> QED  BY <2>2 DEF Pools!HasFree, HasFree
<1>2. Pools!AllFull <=> AllFull
  BY <1>1 DEF Pools!AllFull, AllFull, Pools!n_pls, n_pls
<1> QED  BY <1>1, <1>2

\* session_new with a chunk of a pool it has, as ClientPools sees it.
LEMMA ReuseImplements ==
  ASSUME MemoryInv, session_new_reuse
  PROVE  \E c \in Pools!Chunk : Pools!session_new(c)
<1>1. MemoryInv' /\ UNCHANGED <<first_clp, exited>> /\ ~ exited
  BY ReuseStep DEF session_new_reuse, CanAccept
<1>2. PICK i \in 1 .. n_pls :
        /\ HasFree(i) /\ \A j \in 1 .. i - 1 : ~ HasFree(j)
        /\ \E p \in Arenas :
             /\ p = first_clp[i]
             /\ Len(FreeNodesOf(p)) > 0
             /\ FreeNodesOf(p)' = Tail(FreeNodesOf(p))
             /\ ClientList(p)' = <<FreeNodesOf(p)[1]>> \o ClientList(p)
             /\ \A a \in StoreAddress \ Words(p) : store'[a] = store[a]
  BY ReuseStep
<1>3. PICK p \in Arenas :
        /\ p = first_clp[i]
        /\ Len(FreeNodesOf(p)) > 0
        /\ FreeNodesOf(p)' = Tail(FreeNodesOf(p))
        /\ ClientList(p)' = <<FreeNodesOf(p)[1]>> \o ClientList(p)
        /\ \A a \in StoreAddress \ Words(p) : store'[a] = store[a]
  BY <1>2
<1>4. \A q : Filed(q)' <=> Filed(q)
  BY <1>1 DEF Filed, n_pls
<1>5. Filed(p)
  BY <1>3 DEF Filed
<1> DEFINE f == FreeNodesOf(p)
           u == ClientList(p)
           c == ChunkAt(f[1])
<1>6. /\ f \in Seq(Clients(p)) /\ u \in Seq(Clients(p)) /\ Len(f) \in Nat /\ Len(f) > 0
      /\ \A k \in 1 .. Len(f) : f[k] \in Clients(p)
      /\ Len(u) \in Nat
  BY <1>3, <1>5, PoolInUse
<1>7. f # <<>> /\ f[1] \in Clients(p)
  BY <1>6, EmptySeq
<1>8. /\ free[p] = InPools(f) /\ client[p] = InPools(u)
      /\ free_ch[p] = Len(f) /\ used_ch[p] = Len(u) /\ region[p] = "mapped"
  BY <1>5, SeenInUse
<1>9. /\ free' = [free EXCEPT ![p] = free'[p]] /\ client' = [client EXCEPT ![p] = client'[p]]
      /\ free_ch' = [free_ch EXCEPT ![p] = free_ch'[p]]
      /\ used_ch' = [used_ch EXCEPT ![p] = used_ch'[p]]
      /\ region' = [region EXCEPT ![p] = region'[p]]
      /\ free'[p] = InPools(FreeNodesOf(p)') /\ client'[p] = InPools(ClientList(p)')
      /\ free_ch'[p] = Len(FreeNodesOf(p)') /\ used_ch'[p] = Len(ClientList(p)')
      /\ region'[p] = "mapped"
  BY <1>1, <1>3, <1>4, <1>5, SeenAfterwards
<1>10. FreeNodesOf(p)' = Tail(f) /\ ClientList(p)' = <<f[1]>> \o u
  BY <1>3
<1> HIDE DEF f, u
<1>11. Len(Tail(f)) = Len(f) - 1 /\ Len(<<f[1]>> \o u) = Len(u) + 1
  BY <1>6, <1>7, HeadTailProperties, PushProperties
<1>12. /\ Head(InPools(f)) = c /\ InPools(Tail(f)) = Tail(InPools(f))
       /\ InPools(<<f[1]>> \o u) = <<c>> \o InPools(u)
  BY <1>6, <1>7, NamedAfterwards
<1>13. c \in Pools!Chunk
  BY <1>7, ChunkNames DEF Pools!Chunk, ChunkIndex
<1> HIDE DEF c
<1>14. Pools!TakeChunk(p, c, free[p], client[p], free_ch[p], used_ch[p])
  <2>1. c = Head(free[p])
    BY <1>8, <1>12
  <2>2. free' = [free EXCEPT ![p] = Tail(free[p])]
    BY <1>8, <1>9, <1>10, <1>12
  <2>3. client' = [client EXCEPT ![p] = <<c>> \o client[p]]
    BY <1>8, <1>9, <1>10, <1>12
  <2>4. free_ch' = [free_ch EXCEPT ![p] = free_ch[p] - 1]
    BY <1>8, <1>9, <1>10, <1>11
  <2>5. used_ch' = [used_ch EXCEPT ![p] = used_ch[p] + 1]
    BY <1>8, <1>9, <1>10, <1>11
  <2> QED  BY <2>1, <2>2, <2>3, <2>4, <2>5 DEF Pools!TakeChunk
<1>15. Pools!FirstWithFree(i)
  <2>1. \A j \in 1 .. n_pls : Pools!HasFree(j) <=> HasFree(j)
    BY HasFreeSeen
  <2>2. \A j \in 1 .. i - 1 : j \in 1 .. n_pls
    BY DEF MemoryInv
  <2> QED  BY <1>2, <2>1, <2>2 DEF Pools!FirstWithFree
<1>16. region' = region
  BY <1>8, <1>9 DEF region
<1>17. Pools!session_new_reuse(c)
  BY <1>1, <1>3, <1>14, <1>15, <1>16 DEF Pools!session_new_reuse, Pools!n_pls, n_pls
<1> QED  BY <1>13, <1>17 DEF Pools!session_new

\* The chain of a new pool is what pool_free_all makes.
LEMMA NamedChain ==
  ASSUME NEW p \in Arenas
  PROVE  /\ Chain(p) \in Seq(Clients(p)) /\ Len(Chain(p)) = max_clients_in_pool
         /\ Chain(p) # <<>> /\ Chain(p)[1] \in Clients(p)
         /\ InPools(Chain(p)) = Pools!pool_free_all(p)
<1> DEFINE N == max_clients_in_pool
           f == Chain(p)
<1>1. N \in Nat /\ N >= 1
  BY Constants
<1>2. \A i \in 1 .. N : N - i \in ChunkIndex
  BY <1>1 DEF ChunkIndex
<1>3. f \in Seq(Clients(p)) /\ Len(f) = N
  <2>1. f \in [1 .. N -> Clients(p)]
    BY <1>2 DEF Chain, Clients
  <2> QED  BY <1>1, <2>1
<1>4. \A i \in 1 .. N : ChunkAt(f[i]) = <<p, N - i>>
  BY <1>2, ChunkNames DEF Chain
<1>5. InPools(f) = [i \in 1 .. N |-> <<p, N - i>>]
  BY <1>3, <1>4 DEF InPools
<1>6. f # <<>> /\ f[1] \in Clients(p)
  BY <1>1, <1>3, ElementOfSeq
<1> QED  BY <1>3, <1>5, <1>6 DEF Pools!pool_free_all

\* session_new with a new pool, as ClientPools sees it.
LEMMA GrowImplements ==
  ASSUME MemoryInv, session_new_grow
  PROVE  \E c \in Pools!Chunk : Pools!session_new(c)
<1>1. /\ MemoryInv' /\ UNCHANGED exited /\ ~ exited /\ AllFull /\ n_pls < max_pools
  BY GrowStep DEF session_new_grow, CanAccept
<1>2. PICK p \in Arenas :
        /\ \A a \in Words(p) : store[a] = unmapped
        /\ ~ Filed(p)
        /\ first_clp' = Append(first_clp, p)
        /\ FreeNodesOf(p)' = Tail(Chain(p))
        /\ ClientList(p)' = <<Chain(p)[1]>> \o <<>>
        /\ \A q \in Arenas : Filed(q)' <=> Filed(q) \/ q = p
        /\ \A a \in StoreAddress \ Words(p) : store'[a] = store[a]
  BY GrowStep
<1> DEFINE f == Chain(p)
           c == ChunkAt(f[1])
<1>3. /\ f \in Seq(Clients(p)) /\ Len(f) = max_clients_in_pool /\ f # <<>> /\ f[1] \in Clients(p)
      /\ InPools(f) = Pools!pool_free_all(p)
  BY NamedChain
<1>4. /\ free' = [free EXCEPT ![p] = free'[p]] /\ client' = [client EXCEPT ![p] = client'[p]]
      /\ free_ch' = [free_ch EXCEPT ![p] = free_ch'[p]]
      /\ used_ch' = [used_ch EXCEPT ![p] = used_ch'[p]]
      /\ region' = [region EXCEPT ![p] = region'[p]]
      /\ free'[p] = InPools(FreeNodesOf(p)') /\ client'[p] = InPools(ClientList(p)')
      /\ free_ch'[p] = Len(FreeNodesOf(p)') /\ used_ch'[p] = Len(ClientList(p)')
      /\ region'[p] = "mapped"
  BY <1>1, <1>2, SeenAfterwards
<1>5. region[p] = "unmapped"
  <2>1. ~ IsMapped(p)
    BY <1>2, MappedIfFiled
  <2> QED  BY <1>2, <2>1 DEF region
<1>6. FreeNodesOf(p)' = Tail(f) /\ ClientList(p)' = <<f[1]>> \o <<>>
  BY <1>2
<1> HIDE DEF f
<1>7. /\ Len(Tail(f)) = max_clients_in_pool - 1
      /\ <<>> \in Seq(Clients(p)) /\ Len(<<f[1]>> \o <<>>) = 1
  BY <1>3, HeadTailProperties
<1>8. /\ Head(InPools(f)) = c /\ InPools(Tail(f)) = Tail(InPools(f))
      /\ InPools(<<f[1]>> \o <<>>) = <<c>> \o <<>>
  <2>1. InPools(<<f[1]>> \o <<>>) = <<c>> \o InPools(<<>>)
    BY <1>3, <1>7, NamedAfterwards
  <2>2. InPools(<<>>) = <<>>
    <3>1. InPools(<<>>) \in Seq({p} \X ChunkIndex) /\ Len(InPools(<<>>)) = 0
      BY <1>7, NamedList
    <3> QED  BY <3>1, EmptySeq
  <2>3. Head(InPools(f)) = c /\ InPools(Tail(f)) = Tail(InPools(f))
    BY <1>3, NamedAfterwards
  <2> QED  BY <2>1, <2>2, <2>3
<1>9. c \in Pools!Chunk
  BY <1>3, ChunkNames DEF Pools!Chunk, ChunkIndex
<1> HIDE DEF c
<1>10. Pools!TakeChunk(p, c, Pools!pool_free_all(p), <<>>, max_clients_in_pool, 0)
  <2>1. c = Head(Pools!pool_free_all(p))
    BY <1>3, <1>8
  <2>2. free' = [free EXCEPT ![p] = Tail(Pools!pool_free_all(p))]
    BY <1>3, <1>4, <1>6, <1>8
  <2>3. client' = [client EXCEPT ![p] = <<c>> \o <<>>]
    BY <1>4, <1>6, <1>8
  <2>4. free_ch' = [free_ch EXCEPT ![p] = max_clients_in_pool - 1]
    BY <1>4, <1>6, <1>7
  <2>5. used_ch' = [used_ch EXCEPT ![p] = 0 + 1]
    BY <1>4, <1>6, <1>7
  <2> QED  BY <2>1, <2>2, <2>3, <2>4, <2>5 DEF Pools!TakeChunk
<1>11. region' = [region EXCEPT ![p] = "mapped"]
  BY <1>4
<1>12. Pools!AllFull /\ Pools!n_pls < max_pools
  BY <1>1, HasFreeSeen DEF Pools!n_pls, n_pls
<1>13. Pools!session_new_grow(c)
  BY <1>1, <1>2, <1>5, <1>10, <1>11, <1>12 DEF Pools!session_new_grow
<1> QED  BY <1>9, <1>13 DEF Pools!session_new

\* session_close finds the client it closes, and no other, on the lists ClientPools sees.
LEMMA FoundSeen ==
  ASSUME MemoryInv, NEW i \in 1 .. n_pls, NEW p \in Arenas, p = first_clp[i],
         NEW k \in 1 .. Len(ClientList(p)), NEW c, c = ChunkAt(ClientList(p)[k])
  PROVE  c \in Pools!Chunk /\ k \in DOMAIN client[p] /\ Pools!FoundAt(c, i, k)
<1> DEFINE u == ClientList(p)
<1>1. Filed(p)
  BY DEF Filed
<1>2. /\ u \in Seq(Clients(p)) /\ Len(u) \in Nat
      /\ \A n \in 1 .. Len(u) : u[n] \in Clients(p)
      /\ \A n, l \in 1 .. Len(u) : u[n] = u[l] => n = l
  <2>1. PoolAt(store, p, FreeNodesOf(p), u) /\ u \in Seq(Clients(p)) /\ Len(u) \in Nat
    BY <1>1, PoolInUse
  <2> HIDE DEF u
  <2>2. \A n \in 1 .. Len(u) : u[n] \in Clients(p)
    BY <2>1, ElementOfSeq
  <2> QED  BY <2>1, <2>2 DEF PoolAt, EachOnce, NoDuplicates
<1>3. client[p] = InPools(u)
  BY <1>1, SeenInUse
<1>4. k \in 1 .. Len(u) /\ c = ChunkAt(u[k])
  OBVIOUS
<1> HIDE DEF u
<1>5. /\ Len(client[p]) = Len(u) /\ DOMAIN client[p] = 1 .. Len(u)
      /\ \A n \in 1 .. Len(u) : client[p][n] = ChunkAt(u[n])
  <2>1. /\ client[p] \in Seq({p} \X ChunkIndex) /\ Len(client[p]) = Len(u)
        /\ \A n \in 1 .. Len(u) : client[p][n] = ChunkAt(u[n])
    BY <1>2, <1>3, NamedList
  <2>2. DOMAIN client[p] = 1 .. Len(client[p])
    BY <2>1, LenProperties
  <2> QED  BY <2>1, <2>2
<1>6. c \in {p} \X ChunkIndex
  BY <1>2, <1>4, ChunkNames
<1>7. client[p][k] = c /\ \A m \in 1 .. k - 1 : client[p][m] # c
  <2>1. \A m \in 1 .. k - 1 : m \in 1 .. Len(u) /\ m # k
    BY <1>2, <1>4
  <2>2. \A m \in 1 .. Len(u) : ChunkAt(u[m]) = ChunkAt(u[k]) => u[m] = u[k]
    BY <1>2, <1>4, ChunkNames
  <2> QED  BY <2>1, <2>2, <1>2, <1>4, <1>5
<1>8. ASSUME NEW j \in 1 .. i - 1 PROVE ~ Pools!Contains(client[first_clp[j]], c)
  <2>1. j \in 1 .. n_pls /\ j # i
    BY DEF MemoryInv
  <2>2. PICK q \in Arenas : q = first_clp[j] /\ Filed(q)
    BY <2>1, ElementOfSeq DEF MemoryInv, n_pls, Filed
  <2>3. q # p
    BY <2>1, <2>2 DEF MemoryInv, NoDuplicates, n_pls
  <2>4. client[q] = InPools(ClientList(q)) /\ ClientList(q) \in Seq(Clients(q))
    BY <2>2, SeenInUse, PoolInUse
  <2>5. client[q] \in Seq({q} \X ChunkIndex)
    BY <2>4, NamedList
  <2>6. \A n \in 1 .. Len(client[q]) : client[q][n] \in {q} \X ChunkIndex
    BY <2>5, ElementOfSeq
  <2>7. \A n \in 1 .. Len(client[q]) : client[q][n] # c
    BY <2>3, <2>6, <1>6
  <2> QED  BY <2>2, <2>7 DEF Pools!Contains
<1>9. Pools!FoundAt(c, i, k)
  BY <1>7, <1>8 DEF Pools!FoundAt
<1> QED  BY <1>4, <1>5, <1>6, <1>9 DEF Pools!Chunk, ChunkIndex

\* session_close of a client whose pool stays, as ClientPools sees it.
LEMMA KeepImplements ==
  ASSUME MemoryInv, NEW i \in 1 .. n_pls, NEW p \in Arenas, p = first_clp[i],
         NEW k \in DOMAIN ClientList(first_clp[i]), session_close(i, k), ~ LastOne(p)
  PROVE  \E c \in Pools!Chunk : Pools!session_close_chunk(c)
<1> DEFINE f == FreeNodesOf(p)
           u == ClientList(p)
           c == ChunkAt(u[k])
<1>1. /\ MemoryInv' /\ Filed(p) /\ k \in 1 .. Len(u) /\ UNCHANGED <<first_clp, exited>>
      /\ FreeNodesOf(p)' = <<u[k]>> \o f /\ ClientList(p)' = RemoveAt(u, k)
      /\ \A a \in StoreAddress \ Words(p) : store'[a] = store[a]
  BY KeepStep
<1>2. ~ exited
  BY DEF session_close
<1>3. \A q : Filed(q)' <=> Filed(q)
  BY <1>1 DEF Filed, n_pls
<1>4. /\ free[p] = InPools(f) /\ client[p] = InPools(u)
      /\ free_ch[p] = Len(f) /\ used_ch[p] = Len(u) /\ used_ch[p] = store[used_ch_at(p)]
      /\ region[p] = "mapped"
  BY <1>1, SeenInUse
<1>5. /\ free' = [free EXCEPT ![p] = free'[p]] /\ client' = [client EXCEPT ![p] = client'[p]]
      /\ free_ch' = [free_ch EXCEPT ![p] = free_ch'[p]]
      /\ used_ch' = [used_ch EXCEPT ![p] = used_ch'[p]]
      /\ region' = [region EXCEPT ![p] = region'[p]]
      /\ free'[p] = InPools(FreeNodesOf(p)') /\ client'[p] = InPools(ClientList(p)')
      /\ free_ch'[p] = Len(FreeNodesOf(p)') /\ used_ch'[p] = Len(ClientList(p)')
      /\ region'[p] = "mapped"
  BY <1>1, <1>3, SeenAfterwards
<1>6. /\ f \in Seq(Clients(p)) /\ u \in Seq(Clients(p)) /\ Len(f) \in Nat /\ Len(u) \in Nat
      /\ u[k] \in Clients(p)
  BY <1>1, PoolInUse
<1>7. c \in Pools!Chunk /\ k \in DOMAIN client[p] /\ Pools!FoundAt(c, i, k)
  BY <1>1, FoundSeen
<1> DEFINE g == <<u[k]>> \o f
           v == RemoveAt(u, k)
<1>8. /\ Len(g) = Len(f) + 1 /\ Len(v) = Len(u) - 1
      /\ InPools(g) = <<c>> \o free[p] /\ InPools(v) = Pools!RemoveAt(client[p], k)
  <2> HIDE DEF f, u
  <2>1. PICK d \in Clients(p) : d = u[k] /\ c = ChunkAt(d)
    BY <1>6
  <2>2. InPools(<<d>> \o f) = <<ChunkAt(d)>> \o InPools(f) /\ Len(<<d>> \o f) = Len(f) + 1
    BY <1>6, NamedAfterwards, PushProperties
  <2>3. InPools(v) = RemoveAt(InPools(u), k) /\ Len(v) = Len(u) - 1
    BY <1>1, <1>6, NamedAfterwards, RemoveAtProperties
  <2>4. Pools!RemoveAt(InPools(u), k) = RemoveAt(InPools(u), k)
    BY DEF Pools!RemoveAt, RemoveAt
  <2> QED  BY <2>1, <2>2, <2>3, <2>4, <1>4
<1>9. FreeNodesOf(p)' = g /\ ClientList(p)' = v
  BY <1>1
<1> HIDE DEF f, u, g, v, c
<1>10. Pools!KeepPool(p, k, c)
  <2>1. client' = [client EXCEPT ![p] = Pools!RemoveAt(client[p], k)]
    BY <1>5, <1>8, <1>9
  <2>2. used_ch' = [used_ch EXCEPT ![p] = used_ch[p] - 1]
    BY <1>4, <1>5, <1>8, <1>9
  <2>3. free_ch' = [free_ch EXCEPT ![p] = free_ch[p] + 1]
    BY <1>4, <1>5, <1>8, <1>9
  <2>4. free' = [free EXCEPT ![p] = <<c>> \o free[p]]
    BY <1>5, <1>8, <1>9
  <2>5. region' = region
    BY <1>4, <1>5 DEF region
  <2> QED  BY <2>1, <2>2, <2>3, <2>4, <2>5, <1>1 DEF Pools!KeepPool
<1>11. ~ Pools!LastOfPool(p)
  BY <1>4 DEF Pools!LastOfPool, LastOne, Pools!n_pls, n_pls
<1>12. Pools!session_close_chunk(c)
  BY <1>1, <1>2, <1>7, <1>10, <1>11 DEF Pools!session_close_chunk, Pools!n_pls, n_pls
<1> QED  BY <1>7, <1>12

\* session_close of the last client of a pool, as ClientPools sees it: the pages behind
\* the first one stay mapped.
LEMMA DropImplements ==
  ASSUME MemoryInv, NEW i \in 1 .. n_pls, NEW p \in Arenas, p = first_clp[i],
         NEW k \in DOMAIN ClientList(first_clp[i]), session_close(i, k), LastOne(p),
         arena_size > page_size
  PROVE  \E c \in Pools!Chunk : Pools!session_close_chunk(c)
<1> DEFINE u == ClientList(p)
           c == ChunkAt(u[k])
<1>1. /\ MemoryInv' /\ Filed(p) /\ k \in 1 .. Len(u) /\ UNCHANGED exited
      /\ first_clp' = RemoveAt(first_clp, i)
      /\ \A q \in Arenas : Filed(q)' <=> Filed(q) /\ q # p
      /\ \A a \in Words(p) : store'[a] = IF a \in p .. p + page_size - 1 THEN unmapped ELSE lost
      /\ \A a \in StoreAddress \ Words(p) : store'[a] = store[a]
  BY DropStep
<1>2. ~ exited
  BY DEF session_close
<1>3. used_ch[p] = store[used_ch_at(p)]
  BY <1>1, SeenInUse
<1>4. /\ free' = [free EXCEPT ![p] = free'[p]] /\ client' = [client EXCEPT ![p] = client'[p]]
      /\ free_ch' = [free_ch EXCEPT ![p] = free_ch'[p]]
      /\ used_ch' = [used_ch EXCEPT ![p] = used_ch'[p]]
      /\ region' = [region EXCEPT ![p] = region'[p]]
      /\ free'[p] = <<>> /\ client'[p] = <<>> /\ free_ch'[p] = 0 /\ used_ch'[p] = 0
      /\ region'[p] = IF \E a \in Words(p) : store'[a] # unmapped THEN "leaked" ELSE "unmapped"
  BY <1>1, SeenAfterwards
<1>5. region'[p] = "leaked"
  <2>1. p + page_size \in Words(p) /\ p + page_size \notin p .. p + page_size - 1
    BY ClientsApart, ArenaHolds, Constants DEF Words
  <2>2. store'[p + page_size] = lost /\ lost # unmapped
    BY <1>1, <2>1, ClientMemoryAssumption
  <2> QED  BY <1>4, <2>1, <2>2
<1>6. c \in Pools!Chunk /\ k \in DOMAIN client[p] /\ Pools!FoundAt(c, i, k)
  BY <1>1, FoundSeen
<1> HIDE DEF c, u
<1>7. Pools!DropPool(p, i)
  BY <1>1, <1>4, <1>5 DEF Pools!DropPool, Pools!RemoveAt, RemoveAt
<1>8. Pools!LastOfPool(p)
  BY <1>3 DEF Pools!LastOfPool, LastOne, Pools!n_pls, n_pls
<1>9. Pools!session_close_chunk(c)
  BY <1>1, <1>2, <1>6, <1>7, <1>8 DEF Pools!session_close_chunk, Pools!n_pls, n_pls
<1> QED  BY <1>6, <1>9

\* A step that leaves lists, pools and exited as they are is none that ClientPools sees.
LEMMA SetFieldsImplements ==
  ASSUME MemoryInv, set_fields
  PROVE  UNCHANGED Pools!poolVars
<1>1. MemoryInv' /\ UNCHANGED <<first_clp, exited>>
  BY FieldsStep
<1>2. PICK p \in Arenas :
        /\ Filed(p)
        /\ FreeNodesOf(p)' = FreeNodesOf(p) /\ ClientList(p)' = ClientList(p)
        /\ \A a \in StoreAddress \ Words(p) : store'[a] = store[a]
  BY FieldsStep
<1>3. \A q : Filed(q)' <=> Filed(q)
  BY <1>1 DEF Filed, n_pls
<1>4. /\ free[p] = InPools(FreeNodesOf(p)) /\ client[p] = InPools(ClientList(p))
      /\ free_ch[p] = Len(FreeNodesOf(p)) /\ used_ch[p] = Len(ClientList(p))
      /\ region[p] = "mapped"
  BY <1>2, SeenInUse
<1>5. /\ free' = [free EXCEPT ![p] = free'[p]] /\ client' = [client EXCEPT ![p] = client'[p]]
      /\ free_ch' = [free_ch EXCEPT ![p] = free_ch'[p]]
      /\ used_ch' = [used_ch EXCEPT ![p] = used_ch'[p]]
      /\ region' = [region EXCEPT ![p] = region'[p]]
      /\ free'[p] = InPools(FreeNodesOf(p)') /\ client'[p] = InPools(ClientList(p)')
      /\ free_ch'[p] = Len(FreeNodesOf(p)') /\ used_ch'[p] = Len(ClientList(p)')
      /\ region'[p] = "mapped"
  BY <1>1, <1>2, <1>3, SeenAfterwards
<1>6. /\ free'[p] = free[p] /\ client'[p] = client[p] /\ free_ch'[p] = free_ch[p]
      /\ used_ch'[p] = used_ch[p] /\ region'[p] = region[p]
  BY <1>2, <1>4, <1>5
<1>7. free' = free /\ client' = client
  BY <1>5, <1>6 DEF free, client
<1>8. free_ch' = free_ch /\ used_ch' = used_ch /\ region' = region
  <2>1. free_ch' = [free_ch EXCEPT ![p] = free_ch[p]]
    BY <1>5, <1>6
  <2>2. used_ch' = [used_ch EXCEPT ![p] = used_ch[p]]
    BY <1>5, <1>6
  <2>3. region' = [region EXCEPT ![p] = region[p]]
    BY <1>5, <1>6
  <2>4. /\ free_ch = [q \in Arenas |-> free_ch[q]] /\ used_ch = [q \in Arenas |-> used_ch[q]]
        /\ region = [q \in Arenas |-> region[q]]
    BY DEF free_ch, used_ch, region
  <2> QED  BY <2>1, <2>2, <2>3, <2>4
<1> QED  BY <1>1, <1>7, <1>8 DEF Pools!poolVars

\* The same of a step that leaves memory and the pools as they are.
LEMMA SameMemorySeen ==
  ASSUME UNCHANGED <<store, first_clp>>
  PROVE  UNCHANGED <<first_clp, free, free_ch, used_ch, client, region>>
<1>1. \A p : /\ FreeNodesOf(p)' = FreeNodesOf(p) /\ ClientList(p)' = ClientList(p)
             /\ IsMapped(p)' <=> IsMapped(p)
  BY DEF FreeNodesOf, ClientList, IsMapped
<1>2. free' = free /\ client' = client
  BY <1>1 DEF free, client
<1>3. free_ch' = free_ch /\ used_ch' = used_ch /\ region' = region
  BY <1>1 DEF free_ch, used_ch, region
<1> QED  BY <1>2, <1>3

\* _start, as ClientPools sees it.
LEMMA MemoryInitImplements == MemoryInit => Pools!PoolsInit
<1> SUFFICES ASSUME MemoryInit PROVE Pools!PoolsInit
  OBVIOUS
<1>1. MemoryInv /\ exited = FALSE
  BY InitStep
<1>2. PICK p \in Arenas :
        /\ first_clp = <<p>>
        /\ FreeNodesOf(p) = Chain(p) /\ ClientList(p) = <<>>
        /\ \A q \in Arenas : Filed(q) <=> q = p
        /\ \A a \in StoreAddress \ Words(p) : store[a] = unmapped
  BY InitStep
<1>3. /\ InPools(Chain(p)) = Pools!pool_free_all(p) /\ Len(Chain(p)) = max_clients_in_pool
      /\ InPools(<<>>) = <<>> /\ Len(<<>>) = 0
  <2>1. <<>> \in Seq(Clients(p)) /\ Len(<<>>) = 0
    OBVIOUS
  <2>2. InPools(<<>>) \in Seq({p} \X ChunkIndex) /\ Len(InPools(<<>>)) = 0
    BY <2>1, NamedList
  <2>3. InPools(<<>>) = <<>>
    BY <2>2, EmptySeq
  <2> QED  BY <2>1, <2>3, NamedChain
<1>4. /\ free[p] = Pools!pool_free_all(p) /\ client[p] = <<>>
      /\ free_ch[p] = max_clients_in_pool /\ used_ch[p] = 0 /\ region[p] = "mapped"
  <2>1. Filed(p)
    BY <1>2
  <2> QED  BY <2>1, <1>1, <1>2, <1>3, SeenInUse
<1>5. ASSUME NEW q \in Arenas, q # p
      PROVE  /\ free[q] = <<>> /\ client[q] = <<>> /\ free_ch[q] = 0 /\ used_ch[q] = 0
             /\ region[q] = "unmapped"
  <2>1. ~ IsMapped(q)
    BY <1>1, <1>2, <1>5, MappedIfFiled
  <2>2. \A a \in Words(q) : store[a] = unmapped
    BY <1>2, <1>5, ArenasApart
  <2> QED  BY <2>1, <2>2 DEF free, client, free_ch, used_ch, region
<1>6. free = [q \in Arenas |-> IF q = p THEN Pools!pool_free_all(p) ELSE <<>>]
  BY <1>4, <1>5 DEF free
<1>7. client = [q \in Arenas |-> <<>>]
  BY <1>4, <1>5 DEF client
<1>8. free_ch = [q \in Arenas |-> IF q = p THEN max_clients_in_pool ELSE 0]
  BY <1>4, <1>5 DEF free_ch
<1>9. used_ch = [q \in Arenas |-> 0]
  BY <1>4, <1>5 DEF used_ch
<1>10. region = [q \in Arenas |-> IF q = p THEN "mapped" ELSE "unmapped"]
  BY <1>4, <1>5 DEF region
<1> QED  BY <1>1, <1>2, <1>6, <1>7, <1>8, <1>9, <1>10 DEF Pools!PoolsInit

\* Every step in memory is a step of ClientPools, or none.
LEMMA MemoryNextImplements ==
  ASSUME arena_size > page_size
  PROVE  MemoryInv /\ [MemoryNext]_memoryVars => [Pools!PoolsNext]_(Pools!poolVars)
<1> SUFFICES ASSUME MemoryInv, [MemoryNext]_memoryVars
             PROVE  Pools!PoolsNext \/ UNCHANGED Pools!poolVars
  OBVIOUS
<1>1. CASE session_new_reuse
  BY <1>1, ReuseImplements DEF Pools!PoolsNext
<1>2. CASE session_new_grow
  BY <1>2, GrowImplements DEF Pools!PoolsNext
<1>3. CASE session_new_nomem
  <2>1. /\ ~ exited /\ AllFull /\ n_pls < max_pools /\ exited' = TRUE
        /\ UNCHANGED <<store, first_clp>>
    BY <1>3 DEF session_new_nomem, CanAccept
  <2>2. UNCHANGED <<first_clp, free, free_ch, used_ch, client, region>>
    BY <2>1, SameMemorySeen
  <2>3. Pools!AllFull /\ Pools!n_pls < max_pools
    BY <2>1, HasFreeSeen DEF Pools!n_pls, n_pls
  <2> QED  BY <2>1, <2>2, <2>3 DEF Pools!session_new_nomem, Pools!PoolsNext
<1>4. CASE set_fields
  BY <1>4, SetFieldsImplements
<1>5. CASE \E i \in 1 .. n_pls : \E k \in DOMAIN ClientList(first_clp[i]) : session_close(i, k)
  <2>1. PICK i \in 1 .. n_pls : \E k \in DOMAIN ClientList(first_clp[i]) : session_close(i, k)
    BY <1>5
  <2>2. PICK k \in DOMAIN ClientList(first_clp[i]) : session_close(i, k)
    BY <2>1
  <2>3. PICK p \in Arenas : p = first_clp[i]
    BY ElementOfSeq DEF MemoryInv, n_pls
  <2>4. \E c \in Pools!Chunk : Pools!session_close_chunk(c)
    <3>1. CASE LastOne(p)
      BY <2>2, <2>3, <3>1, DropImplements
    <3>2. CASE ~ LastOne(p)
      BY <2>2, <2>3, <3>2, KeepImplements
    <3> QED  BY <3>1, <3>2
  <2> QED  BY <2>4 DEF Pools!PoolsNext
<1>6. CASE UNCHANGED memoryVars
  BY <1>6, SameMemorySeen DEF memoryVars, Pools!poolVars
<1> QED  BY <1>1, <1>2, <1>3, <1>4, <1>5, <1>6 DEF MemoryNext

\* Where a pool takes more than a page, as the server's do, the lists read from memory
\* are the sequences of ClientPools, step by step: the unlinking in session_close and
\* the links pool.c writes over what was a client keep each chunk on one list.
THEOREM MemoryImplementsPools ==
  ASSUME arena_size > page_size
  PROVE  MemorySpec => PoolsSpec
<1>1. MemoryInv /\ [MemoryNext]_memoryVars => [Pools!PoolsNext]_(Pools!poolVars)
  BY MemoryNextImplements
<1> QED  BY <1>1, MemoryInitImplements, MemoryInvariant, PTL
         DEF MemorySpec, PoolsSpec, Pools!PoolsSpec

-----------------------------------------------------------------------------
(***************************************************************************)
(* What is proved of ClientPools holds in memory.                          *)
(***************************************************************************)

Proved == INSTANCE ClientPoolsProofs WITH Regions <- Arenas

\* The mapping of ClientMemory names the same steps in both instances.
LEMMA SameInit == Pools!PoolsInit => Proved!PoolsInit
BY DEF Pools!PoolsInit, Proved!PoolsInit, Pools!pool_free_all, Proved!pool_free_all

LEMMA SameNext ==
  [Pools!PoolsNext]_(Pools!poolVars) => [Proved!PoolsNext]_(Proved!poolVars)
<1>2. ASSUME NEW c, Pools!session_new_reuse(c) PROVE Proved!session_new_reuse(c)
  BY <1>2
  DEF Pools!session_new_reuse, Pools!FirstWithFree, Pools!HasFree, Pools!TakeChunk, Pools!n_pls,
      Proved!session_new_reuse, Proved!FirstWithFree, Proved!HasFree, Proved!TakeChunk,
      Proved!n_pls
<1>3. ASSUME NEW c, Pools!session_new_grow(c) PROVE Proved!session_new_grow(c)
  BY <1>3
  DEF Pools!session_new_grow, Pools!AllFull, Pools!HasFree, Pools!TakeChunk, Pools!n_pls,
      Pools!pool_free_all,
      Proved!session_new_grow, Proved!AllFull, Proved!HasFree, Proved!TakeChunk, Proved!n_pls,
      Proved!pool_free_all
<1>4. ASSUME Pools!session_new_nomem PROVE Proved!session_new_nomem
  BY <1>4
  DEF Pools!session_new_nomem, Pools!AllFull, Pools!HasFree, Pools!n_pls,
      Proved!session_new_nomem, Proved!AllFull, Proved!HasFree, Proved!n_pls
<1>5. ASSUME NEW c, Pools!session_close_chunk(c) PROVE Proved!session_close_chunk(c)
  <2>1. /\ ~ exited
        /\ \E i \in 1 .. Pools!n_pls : \E k \in DOMAIN client[first_clp[i]] :
             LET p == first_clp[i]
             IN  /\ Pools!FoundAt(c, i, k)
                 /\ \/ Pools!LastOfPool(p)   /\ Pools!DropPool(p, i)
                    \/ ~ Pools!LastOfPool(p) /\ Pools!KeepPool(p, k, c)
        /\ UNCHANGED exited
    BY <1>5 DEF Pools!session_close_chunk
  <2>2. ASSUME NEW i, NEW k, Pools!FoundAt(c, i, k) PROVE Proved!FoundAt(c, i, k)
    BY <2>2 DEF Pools!FoundAt, Pools!Contains, Proved!FoundAt, Proved!Contains
  <2>3. ASSUME NEW p PROVE Pools!LastOfPool(p) <=> Proved!LastOfPool(p)
    BY DEF Pools!LastOfPool, Pools!n_pls, Proved!LastOfPool, Proved!n_pls
  <2>4. ASSUME NEW p, NEW i, Pools!DropPool(p, i) PROVE Proved!DropPool(p, i)
    BY <2>4 DEF Pools!DropPool, Pools!RemoveAt, Proved!DropPool, Proved!RemoveAt
  <2>5. ASSUME NEW p, NEW k, Pools!KeepPool(p, k, c) PROVE Proved!KeepPool(p, k, c)
    BY <2>5 DEF Pools!KeepPool, Pools!RemoveAt, Proved!KeepPool, Proved!RemoveAt
  <2>6. Pools!n_pls = Proved!n_pls
    BY DEF Pools!n_pls, Proved!n_pls
  <2> QED  BY <2>1, <2>2, <2>3, <2>4, <2>5, <2>6 DEF Proved!session_close_chunk
<1>6. Pools!Chunk = Proved!Chunk
  BY DEF Pools!Chunk, Proved!Chunk
<1>7. ASSUME UNCHANGED Pools!poolVars PROVE UNCHANGED Proved!poolVars
  BY <1>7 DEF Pools!poolVars, Proved!poolVars
<1> QED
  BY <1>2, <1>3, <1>4, <1>5, <1>6, <1>7
  DEF Pools!PoolsNext, Pools!session_new, Proved!PoolsNext, Proved!session_new

LEMMA PoolsAreProved == PoolsSpec => Proved!PoolsSpec
BY SameInit, SameNext, PTL DEF PoolsSpec, Pools!PoolsSpec, Proved!PoolsSpec

LEMMA ProvedAssumption == max_pools \in Nat \ {0} /\ max_clients_in_pool \in Nat \ {0}
BY ClientMemoryAssumption

\* The words session_new and session_close read and write implement the allocator the server
\* relies on: a client struct in use is given to nobody else, and one that comes back was out.
THEOREM MemoryImplementsAllocator ==
  ASSUME arena_size > page_size
  PROVE  MemorySpec => Proved!AllocatorSpec
<1>1. Proved!PoolsSpec => Proved!AllocatorSpec
  BY ProvedAssumption, Proved!PoolsImplementAllocator
<1> QED  BY <1>1, PoolsAreProved, MemoryImplementsPools, PTL

\* When session_new finds no pool with a free client and the array is full, the lists read
\* from memory hold all clients there can be.
THEOREM MemoryRejectsOnlyWhenFull ==
  ASSUME arena_size > page_size
  PROVE  MemorySpec => []Proved!RejectOnlyWhenFull
<1>1. Proved!PoolsSpec => []Proved!RejectOnlyWhenFull
  BY ProvedAssumption, Proved!RejectsOnlyWhenFull
<1> QED  BY <1>1, PoolsAreProved, MemoryImplementsPools, PTL
=============================================================================
