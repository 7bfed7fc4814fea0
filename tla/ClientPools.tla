---------------------------- MODULE ClientPools ----------------------------
(***************************************************************************)
(* The memory of chat_server.c: up to max_pools pools of                   *)
(* max_clients_in_pool client chunks each, filed in serv->first_clp.  A    *)
(* pool is one arena obtained with mmap; its first page holds the          *)
(* client_pool header and the first chunks.  Each pool keeps               *)
(*   - p.head, the free list of pool.c, here the sequence free[p] whose    *)
(*     first element is p.head;                                            *)
(*   - client, the list of its clients linked by client.next, here the     *)
(*     sequence client[p] whose first element is clp->client;              *)
(*   - the counters free_ch and used_ch, kept beside both lists.           *)
(* session_new takes a chunk, session_close gives it back and drops a pool *)
(* that became empty.  The server is one thread, so each is one step.      *)
(***************************************************************************)
EXTENDS Integers, FiniteSets, SequencesExt, Lists

CONSTANTS
  Regions,             \* addresses at which mmap may place a pool's arena
  max_pools,           \* length of the array serv->first_clp
  max_clients_in_pool  \* chunks in one pool

ASSUME PoolsAssumption ==
  /\ max_pools \in Nat \ {0}
  /\ max_clients_in_pool \in Nat \ {0}

VARIABLES
  first_clp,  \* serv->first_clp[0 .. n_pls-1]: the pools in use, in order
  free,       \* free[p]: the chunks on p's free list, p.head first
  free_ch,    \* free_ch[p]: clp->free_ch
  used_ch,    \* used_ch[p]: clp->used_ch
  client,     \* client[p]: the chunks on clp->client's list, newest first
  region,     \* what is mapped at each address
  exited      \* TRUE once sys_exit(1) was called for want of memory

poolVars == <<first_clp, free, free_ch, used_ch, client, region, exited>>

-----------------------------------------------------------------------------

\* A chunk is known by the pool's address and its index in p.buf.
Chunk == Regions \X (0 .. max_clients_in_pool - 1)
PoolOf(c) == c[1]
ChunksOf(p) == {p} \X (0 .. max_clients_in_pool - 1)

\* "mapped": a pool lives there.  "leaked": session_close unmapped the first
\* page of a pool's arena and no pointer to the other pages is left.
RegionState == {"unmapped", "mapped", "leaked"}

n_pls == Len(first_clp)

\* pool_free_all pushes the chunks in the order of their addresses.
pool_free_all(p) ==
  [i \in 1 .. max_clients_in_pool |-> <<p, max_clients_in_pool - i>>]

-----------------------------------------------------------------------------

\* pool_get and the bookkeeping of session_new: the chunk at the head of the
\* free list of pool p becomes the head of its client list.  The lists and
\* counters the step starts from are arguments: session_new_clp may just have
\* created them.
TakeChunk(p, c, freeList, clientList, nfree, nused) ==
  /\ c = Head(freeList)
  /\ free'    = [free    EXCEPT ![p] = Tail(freeList)]
  /\ client'  = [client  EXCEPT ![p] = <<c>> \o clientList]
  /\ free_ch' = [free_ch EXCEPT ![p] = nfree - 1]
  /\ used_ch' = [used_ch EXCEPT ![p] = nused + 1]

\* The pools are searched in the order of the array: pool i is the first that
\* still counts a free chunk.
HasFree_KeepsOneBack(i) == free_ch[first_clp[i]] > 1
HasFree(i) == free_ch[first_clp[i]] > 0
FirstWithFree(i) ==
  /\ HasFree(i)
  /\ \A j \in 1 .. i - 1 : ~ HasFree(j)
AllFull == \A i \in 1 .. n_pls : ~ HasFree(i)

\* session_new finds a chunk in a pool it has.
session_new_reuse(c) ==
  /\ ~ exited
  /\ \E i \in 1 .. n_pls :
       /\ FirstWithFree(i)
       /\ LET p == first_clp[i]
          IN  TakeChunk(p, c, free[p], client[p], free_ch[p], used_ch[p])
  /\ UNCHANGED <<first_clp, region, exited>>

session_new_grow_NoLimit(c) ==
  /\ ~ exited
  /\ AllFull
  /\ \E p \in Regions :
       /\ region[p] = "unmapped"
       /\ region' = [region EXCEPT ![p] = "mapped"]
       /\ first_clp' = Append(first_clp, p)
       /\ TakeChunk(p, c, pool_free_all(p), <<>>, max_clients_in_pool, 0)
  /\ UNCHANGED exited

\* session_new_clp files a new pool at the end of the array; session_new then
\* takes its first chunk.
session_new_grow(c) ==
  /\ ~ exited
  /\ AllFull
  /\ n_pls < max_pools
  /\ \E p \in Regions :
       /\ region[p] = "unmapped"
       /\ region' = [region EXCEPT ![p] = "mapped"]
       /\ first_clp' = Append(first_clp, p)
       /\ TakeChunk(p, c, pool_free_all(p), <<>>, max_clients_in_pool, 0)
  /\ UNCHANGED exited

session_new(c) == session_new_reuse(c) \/ session_new_grow(c)

\* mmap fails, which it may do at any time and must do when no address is
\* left: arena_create prints and calls sys_exit(1).
session_new_nomem ==
  /\ ~ exited
  /\ AllFull
  /\ n_pls < max_pools
  /\ exited' = TRUE
  /\ UNCHANGED <<first_clp, free, free_ch, used_ch, client, region>>

\* session_new returns nil: the condition under which server_handle rejects.
session_new_nil == AllFull /\ n_pls = max_pools

-----------------------------------------------------------------------------

\* The client list of pool i is the first that holds c, at place k.
FoundAt(c, i, k) ==
  /\ client[first_clp[i]][k] = c
  /\ \A m \in 1 .. k - 1 : client[first_clp[i]][m] # c
  /\ \A j \in 1 .. i - 1 : ~ Contains(client[first_clp[j]], c)

KeepPool_FreeChForgotten(p, k, c) ==
  /\ client'  = [client  EXCEPT ![p] = RemoveAt(@, k)]
  /\ used_ch' = [used_ch EXCEPT ![p] = @ - 1]
  /\ free'    = [free    EXCEPT ![p] = <<c>> \o @]
  /\ UNCHANGED <<first_clp, region, free_ch>>

\* The chunk goes back to the head of its pool's free list.
KeepPool(p, k, c) ==
  /\ client'  = [client  EXCEPT ![p] = RemoveAt(@, k)]
  /\ used_ch' = [used_ch EXCEPT ![p] = @ - 1]
  /\ free_ch' = [free_ch EXCEPT ![p] = @ + 1]
  /\ free'    = [free    EXCEPT ![p] = <<c>> \o @]
  /\ UNCHANGED <<first_clp, region>>

DropPool_NoShift(p, i) ==
  /\ region'    = [region  EXCEPT ![p] = "leaked"]
  /\ client'    = [client  EXCEPT ![p] = <<>>]
  /\ used_ch'   = [used_ch EXCEPT ![p] = 0]
  /\ free_ch'   = [free_ch EXCEPT ![p] = 0]
  /\ free'      = [free    EXCEPT ![p] = <<>>]
  /\ first_clp' = Front(first_clp)

\* The first page of the arena is unmapped and with it the pool's lists and
\* counters; the pools behind it move one place to the left.
DropPool(p, i) ==
  /\ region'    = [region  EXCEPT ![p] = "leaked"]
  /\ client'    = [client  EXCEPT ![p] = <<>>]
  /\ used_ch'   = [used_ch EXCEPT ![p] = 0]
  /\ free_ch'   = [free_ch EXCEPT ![p] = 0]
  /\ free'      = [free    EXCEPT ![p] = <<>>]
  /\ first_clp' = RemoveAt(first_clp, i)

LastOfPool_AlsoTheOnlyOne(p) == used_ch[p] - 1 = 0
LastOfPool_TestedTooEarly(p) == n_pls > 1 /\ used_ch[p] = 0
LastOfPool_OneLeft(p) == n_pls > 1 /\ used_ch[p] - 1 <= 1

\* The closed client was the last one of a pool that is not the only one.
LastOfPool(p) == n_pls > 1 /\ used_ch[p] - 1 = 0

\* What session_close does to the memory of a client it finds.
session_close_chunk(c) ==
  /\ ~ exited
  /\ \E i \in 1 .. n_pls : \E k \in DOMAIN client[first_clp[i]] :
       LET p == first_clp[i]
       IN  /\ FoundAt(c, i, k)
           /\ \/ LastOfPool(p)   /\ DropPool(p, i)
              \/ ~ LastOfPool(p) /\ KeepPool(p, k, c)
  /\ UNCHANGED exited

-----------------------------------------------------------------------------

\* _start files the first pool before it opens the listening socket.
PoolsInit ==
  \E p \in Regions :
    /\ first_clp = <<p>>
    /\ free    = [q \in Regions |-> IF q = p THEN pool_free_all(p) ELSE <<>>]
    /\ free_ch = [q \in Regions |-> IF q = p THEN max_clients_in_pool ELSE 0]
    /\ used_ch = [q \in Regions |-> 0]
    /\ client  = [q \in Regions |-> <<>>]
    /\ region  = [q \in Regions |-> IF q = p THEN "mapped" ELSE "unmapped"]
    /\ exited  = FALSE

PoolsNext ==
  \/ \E c \in Chunk : session_new(c)
  \/ \E c \in Chunk : session_close_chunk(c)
  \/ session_new_nomem

PoolsSpec == PoolsInit /\ [][PoolsNext]_poolVars

-----------------------------------------------------------------------------
(***************************************************************************)
(* Properties.                                                             *)
(***************************************************************************)

PoolsTypeOK ==
  /\ first_clp \in Seq(Regions)
  /\ n_pls \in 1 .. max_pools
  /\ free \in [Regions -> Seq(Chunk)]
  /\ client \in [Regions -> Seq(Chunk)]
  /\ free_ch \in [Regions -> Int]
  /\ used_ch \in [Regions -> Int]
  /\ region \in [Regions -> RegionState]
  /\ exited \in BOOLEAN

\* The array first_clp holds every mapped pool once and nothing else: shifting
\* it after a pool was dropped loses no pool and leaves no dangling pointer, so
\* no list is ever walked in memory that session_close has unmapped.
FiledIffMapped ==
  /\ \A i, j \in 1 .. n_pls : first_clp[i] = first_clp[j] => i = j
  /\ \A p \in Regions :
       region[p] = "mapped" <=> \E i \in 1 .. n_pls : first_clp[i] = p

\* The counters free_ch and used_ch, which session_new and session_close test
\* in place of the lists, are the lengths of the lists.
CountersMatchLists ==
  \A p \in Regions :
    /\ free_ch[p] = Len(free[p])
    /\ used_ch[p] = Len(client[p])

\* Every chunk of a pool in use is either free or a client's, and is so once:
\* pool_get never hands out a chunk that is linked as a client, and no chunk is
\* lost when clients close in an order other than the one they came in.
ChunksAccounted ==
  \A p \in Regions :
    /\ region[p] = "mapped" =>
         free_ch[p] + used_ch[p] = max_clients_in_pool
    /\ region[p] # "mapped" => free[p] = <<>> /\ client[p] = <<>>
    /\ free[p] \in Seq(ChunksOf(p))
    /\ client[p] \in Seq(ChunksOf(p))
    /\ EachOnce(free[p], client[p])

\* Whenever there is more than one pool each of them has a client: session_close
\* drops a pool with its last client, also the pool _start made, and the last
\* pool is never dropped.
NoEmptySparePool ==
  n_pls > 1 => \A i \in 1 .. n_pls : used_ch[first_clp[i]] > 0

\* session_new returns nil, and the server turns a client away, only when
\* max_pools * max_clients_in_pool sessions are open: pools filled in order and
\* dropped out of order never hide a free chunk.
LiveChunks == UNION {ToSet(client[p]) : p \in Regions}
RejectOnlyWhenFull ==
  session_new_nil => Cardinality(LiveChunks) = max_pools * max_clients_in_pool

\* session_new and session_close implement the allocator the server relies on.
Allocator == INSTANCE SessionAllocator WITH live <- LiveChunks
AllocatorSpec == Allocator!Spec

=============================================================================
