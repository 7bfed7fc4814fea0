---------------------------- MODULE ClientMemory ----------------------------
(***************************************************************************)
(* The client pools of chat_server.c in memory: the arena of a pool starts *)
(* with the struct client_pool, the client structs follow.  The link of    *)
(* the free list lies over the first word of a client (fd and buf_used),   *)
(* the link of the client list is its last word (next), and both lists are *)
(* whatever is read there.  ClientPools, where they are sequences, is what *)
(* this implements.                                                        *)
(*                                                                         *)
(* A word holds nil, an address, a counter, or a client's data; unmapped   *)
(* where nothing is mapped; lost in the pages of a dropped pool that stay  *)
(* mapped, whatever they held.                                             *)
(***************************************************************************)
EXTENDS Integers, FiniteSets, SequencesExt, Lists

CONSTANTS
  Arenas,               \* addresses at which mmap may place a pool's arena
  page_size,            \* sizes are numbers of words
  client_size,          \* sizeof(client)
  max_pools, max_clients_in_pool,
  data, unmapped, lost  \* what a word may hold that is no number

pool_size == client_size * max_clients_in_pool
\* The fields of struct client_pool that change: head, free_ch, used_ch, client.
header_size == 4

VARIABLES
  store,      \* the memory
  first_clp,  \* serv->first_clp[0 .. n_pls-1]
  new,        \* the client session_new returned last, until server_handle sets its
              \* fields, or nil
  wrote,      \* the clients whose fields were set
  exited      \* sys_exit(1) was called because mmap failed

memoryVars == <<store, first_clp, new, wrote, exited>>

nil == 0
n_pls == Len(first_clp)

-----------------------------------------------------------------------------

\* arena_create rounds up to whole pages.
rounded_up(size) == ((size - 1) \div page_size + 1) * page_size
arena_size == rounded_up(pool_size + header_size)
Words(p) == p .. p + arena_size - 1

ASSUME ClientMemoryAssumption ==
  /\ page_size \in Nat /\ page_size >= header_size
  /\ client_size \in Nat /\ client_size >= 2
  /\ max_pools \in Nat \ {0} /\ max_clients_in_pool \in Nat \ {0}
  /\ Arenas \subseteq Nat \ {0}
  \* bound: no arena is placed over the page that a dropped one gave back
  /\ \A p, q \in Arenas : p # q => p + arena_size <= q \/ q + arena_size <= p
  /\ data \notin Int /\ unmapped \notin Int /\ lost \notin Int
  /\ unmapped \notin {data, lost}

\* Addresses of the fields of the pool at p.
head_at(p)    == p
free_ch_at(p) == p + 1
used_ch_at(p) == p + 2
client_at(p)  == p + 3

ChunkIndex == 0 .. max_clients_in_pool - 1
chunk_at_OneWordShort(p, i) == p + header_size + i * (client_size - 1)
chunk_at(p, i) == p + header_size + i * client_size

\* Addresses of the two links of the client struct at c.
link_at(c) == c
next_at_First(c) == c
next_at(c) == c + client_size - 1
Fields(c) == (c .. c + client_size - 1) \ {next_at(c)}

\* The words of all arenas.
StoreAddress == UNION {Words(p) : p \in Arenas}

\* session_new_clp: pages of zeros, then the header and what pool_free_all links.
NewPool(p) ==
  [a \in Words(p) |->
     CASE a = head_at(p)    -> chunk_at(p, max_clients_in_pool - 1)
       [] a = free_ch_at(p) -> max_clients_in_pool
       [] \E i \in ChunkIndex \ {0} : a = link_at(chunk_at(p, i)) ->
            chunk_at(p, (CHOOSE i \in ChunkIndex \ {0} : a = link_at(chunk_at(p, i))) - 1)
       [] OTHER             -> 0]
WithPool(m, p) == [a \in StoreAddress |-> IF a \in Words(p) THEN NewPool(p)[a] ELSE m[a]]

\* pool_get and the counters: memory m after the first free chunk of p was taken.
Taken(m, p) ==
  [m EXCEPT ![head_at(p)] = m[link_at(m[head_at(p)])],
            ![free_ch_at(p)] = @ - 1,
            ![used_ch_at(p)] = @ + 1]

HasFree(i) == store[free_ch_at(first_clp[i])] > 0
AllFull == \A i \in 1 .. n_pls : ~ HasFree(i)
CanAccept == ~ exited /\ new = nil

\* A chunk of the first pool that counts a free one.
session_new_reuse ==
  /\ CanAccept
  /\ \E i \in 1 .. n_pls :
       /\ HasFree(i) /\ \A j \in 1 .. i - 1 : ~ HasFree(j)
       /\ LET p == first_clp[i]
              c == store[head_at(p)]
          IN  store' = [Taken(store, p) EXCEPT ![next_at(c)] = store[client_at(p)],
                                               ![client_at(p)] = c]
              /\ new' = c
  /\ UNCHANGED <<first_clp, wrote, exited>>

\* The first chunk of a new pool: c->next is not set.
session_new_grow ==
  /\ CanAccept /\ AllFull /\ n_pls < max_pools
  /\ \E p \in Arenas :
       /\ \A a \in Words(p) : store[a] = unmapped
       /\ first_clp' = Append(first_clp, p)
       /\ LET m == WithPool(store, p)
              c == m[head_at(p)]
          IN  store' = [Taken(m, p) EXCEPT ![client_at(p)] = c] /\ new' = c
  /\ UNCHANGED <<wrote, exited>>

session_new_nomem ==
  /\ CanAccept /\ AllFull /\ n_pls < max_pools
  /\ exited' = TRUE
  /\ UNCHANGED <<store, first_clp, new, wrote>>

-----------------------------------------------------------------------------

\* The free list and the client list of p, as they are read from memory.
FreeNodesOf(p) ==
  ListFrom(store[head_at(p)], [a \in StoreAddress |-> store[link_at(a)]], max_clients_in_pool)
ClientList(p) ==
  ListFrom(store[client_at(p)],
           [a \in {c \in StoreAddress : next_at(c) \in StoreAddress} |-> store[next_at(a)]],
           max_clients_in_pool)

\* session_close finds its client as the k-th of pool i, *pcur being the word that
\* points to it, and unlinks it.  A client whose fields are not set is closed when
\* epoll_ctl failed.
session_close(i, k) ==
  LET p == first_clp[i]
      clients == ClientList(p)
      c == clients[k]
      pcur == IF k = 1 THEN client_at(p) ELSE next_at(clients[k - 1])
      unlinked == [store EXCEPT ![pcur] = store[next_at(c)],
                                ![free_ch_at(p)] = @ + 1,
                                ![used_ch_at(p)] = @ - 1]
  IN  /\ ~ exited /\ new \in {nil, c}
      /\ new' = nil
      /\ IF n_pls > 1 /\ unlinked[used_ch_at(p)] = 0
         THEN /\ store' = [a \in StoreAddress |->
                             IF a \in p .. p + page_size - 1 THEN unmapped
                             ELSE IF a \in Words(p) THEN lost ELSE unlinked[a]]
              /\ first_clp' = RemoveAt(first_clp, i)
         ELSE /\ store' = [unlinked EXCEPT ![link_at(c)] = unlinked[head_at(p)],
                                           ![head_at(p)] = c]
              /\ UNCHANGED first_clp
      /\ wrote' = wrote \ {c}
      /\ UNCHANGED exited

\* server_handle sets fd, buf_used, name_used and name_ok; what the client sends fills
\* the rest.
set_fields ==
  /\ ~ exited /\ new # nil
  /\ store' = [a \in StoreAddress |-> IF a \in Fields(new) THEN data ELSE store[a]]
  /\ wrote' = wrote \cup {new}
  /\ new' = nil
  /\ UNCHANGED <<first_clp, exited>>

-----------------------------------------------------------------------------

\* _start files the first pool.
MemoryInit ==
  \E p \in Arenas :
    /\ store = WithPool([a \in StoreAddress |-> unmapped], p)
    /\ first_clp = <<p>>
    /\ new = nil
    /\ wrote = {}
    /\ exited = FALSE

MemoryNext ==
  \/ session_new_reuse \/ session_new_grow \/ session_new_nomem \/ set_fields
  \/ \E i \in 1 .. n_pls : \E k \in DOMAIN ClientList(first_clp[i]) : session_close(i, k)

MemorySpec == MemoryInit /\ [][MemoryNext]_memoryVars

-----------------------------------------------------------------------------
(***************************************************************************)
(* Properties.                                                             *)
(***************************************************************************)

\* What a session wrote into its client stays there until it is closed, whichever
\* other sessions open and close: no link is stored over a field of a client in use.
FieldsKept == \A c \in wrote : \A a \in Fields(c) : store[a] = data

\* The lists read from memory are those of ClientPools, step by step.  The end of a
\* new pool's client list is a word nobody wrote (chat_server.c:335).
IsMapped(p) == store[p] # unmapped
ChunkAt(a) ==
  IF \E c \in Arenas \X ChunkIndex : a = chunk_at(c[1], c[2])
  THEN CHOOSE c \in Arenas \X ChunkIndex : a = chunk_at(c[1], c[2])
  ELSE <<a, nil>>
InPools(list) == [n \in 1 .. Len(list) |-> ChunkAt(list[n])]

free    == [p \in Arenas |-> IF IsMapped(p) THEN InPools(FreeNodesOf(p)) ELSE <<>>]
client  == [p \in Arenas |-> IF IsMapped(p) THEN InPools(ClientList(p)) ELSE <<>>]
free_ch == [p \in Arenas |-> IF IsMapped(p) THEN store[free_ch_at(p)] ELSE 0]
used_ch == [p \in Arenas |-> IF IsMapped(p) THEN store[used_ch_at(p)] ELSE 0]
region  == [p \in Arenas |->
              IF IsMapped(p) THEN "mapped"
              ELSE IF \E a \in Words(p) : store[a] # unmapped THEN "leaked"
              ELSE "unmapped"]
Pools == INSTANCE ClientPools WITH Regions <- Arenas
PoolsSpec == Pools!PoolsSpec
=============================================================================
