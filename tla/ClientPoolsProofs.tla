------------------------- MODULE ClientPoolsProofs -------------------------
(***************************************************************************)
(* Proofs about ClientPools for any number of pools, of chunks per pool    *)
(* and of addresses.                                                       *)
(***************************************************************************)
EXTENDS ClientPools, DataLemmas, FunctionTheorems

-----------------------------------------------------------------------------
\* A pool that pool_free_all has just linked has max_clients_in_pool different
\* chunks of its own.
LEMMA FreshPool ==
  ASSUME NEW p \in Regions
  PROVE  /\ pool_free_all(p) \in Seq(ChunksOf(p))
         /\ Len(pool_free_all(p)) = max_clients_in_pool
         /\ EachOnce(pool_free_all(p), <<>>)
<1> DEFINE f == pool_free_all(p)
<1>0. max_clients_in_pool \in Nat \ {0}
  BY PoolsAssumption
<1>1. /\ DOMAIN f = 1 .. max_clients_in_pool
      /\ \A i \in 1 .. max_clients_in_pool : f[i] = <<p, max_clients_in_pool - i>>
  BY DEF pool_free_all
<1>2. \A i \in 1 .. max_clients_in_pool : f[i] \in ChunksOf(p)
  BY <1>0, <1>1 DEF ChunksOf
<1>3. f \in [1 .. max_clients_in_pool -> ChunksOf(p)]
  BY <1>2 DEF pool_free_all
<1>4. f \in Seq(ChunksOf(p)) /\ Len(f) = max_clients_in_pool
  <2>1. f \in Seq(ChunksOf(p))
    BY <1>0, <1>3, SeqDef
  <2> QED  BY <2>1, <1>0, <1>1, LenProperties
<1>5. NoDuplicates(f)
  <2> SUFFICES ASSUME NEW i \in 1 .. Len(f), NEW j \in 1 .. Len(f), f[i] = f[j]
               PROVE  i = j
    BY DEF NoDuplicates
  <2>1. max_clients_in_pool - i = max_clients_in_pool - j
    BY <1>1, <1>4
  <2> QED  BY <2>1, <1>0, <1>4
<1> QED  BY <1>4, <1>5 DEF EachOnce, NoDuplicates, NothingShared

-----------------------------------------------------------------------------
(***************************************************************************)
(* The inductive invariant.  NoEmptySparePool is part of it: a pool may be *)
(* dropped only because another one is left, and the counters, not the     *)
(* lists, decide which.                                                    *)
(***************************************************************************)

IInv ==
  /\ PoolsTypeOK
  /\ FiledIffMapped
  /\ CountersMatchLists
  /\ ChunksAccounted
  /\ NoEmptySparePool

\* _start leaves one pool, all of it free.
LEMMA InitIInv == PoolsInit => IInv
<1> SUFFICES ASSUME PoolsInit PROVE IInv
  OBVIOUS
<1>0. PICK p \in Regions :
        /\ first_clp = <<p>>
        /\ free    = [q \in Regions |-> IF q = p THEN pool_free_all(p) ELSE <<>>]
        /\ free_ch = [q \in Regions |-> IF q = p THEN max_clients_in_pool ELSE 0]
        /\ used_ch = [q \in Regions |-> 0]
        /\ client  = [q \in Regions |-> <<>>]
        /\ region  = [q \in Regions |-> IF q = p THEN "mapped" ELSE "unmapped"]
        /\ exited  = FALSE
  BY DEF PoolsInit
<1>1. n_pls = 1 /\ first_clp[1] = p /\ first_clp \in Seq(Regions)
  BY <1>0 DEF n_pls
<1>2. \A q \in Regions : /\ free[q] \in Seq(ChunksOf(q))
                         /\ client[q] \in Seq(ChunksOf(q))
                         /\ EachOnce(free[q], client[q])
                         /\ free_ch[q] = Len(free[q])
                         /\ used_ch[q] = Len(client[q])
  <2> SUFFICES ASSUME NEW q \in Regions
               PROVE  /\ free[q] \in Seq(ChunksOf(q))
                      /\ client[q] \in Seq(ChunksOf(q))
                      /\ EachOnce(free[q], client[q])
                      /\ free_ch[q] = Len(free[q])
                      /\ used_ch[q] = Len(client[q])
    OBVIOUS
  <2>1. CASE q = p
    BY <2>1, <1>0, FreshPool
  <2>2. CASE q # p
    BY <2>2, <1>0 DEF EachOnce, NoDuplicates, NothingShared
  <2> QED  BY <2>1, <2>2
<1>3. PoolsTypeOK
  <2>1. \A q \in Regions : Seq(ChunksOf(q)) \subseteq Seq(Chunk)
    BY SeqMonotonic DEF ChunksOf, Chunk
  <2>2. free \in [Regions -> Seq(Chunk)] /\ client \in [Regions -> Seq(Chunk)]
    BY <2>1, <1>2, <1>0
  <2>3. free_ch \in [Regions -> Int] /\ used_ch \in [Regions -> Int]
    BY <1>0, PoolsAssumption
  <2>4. region \in [Regions -> RegionState]
    BY <1>0 DEF RegionState
  <2>5. n_pls \in 1 .. max_pools
    BY <1>1, PoolsAssumption
  <2>6. exited \in BOOLEAN
    BY <1>0
  <2> QED  BY <2>2, <2>3, <2>4, <2>5, <2>6, <1>1 DEF PoolsTypeOK
<1>4. FiledIffMapped
  BY <1>0, <1>1 DEF FiledIffMapped
<1>5. CountersMatchLists
  BY <1>2 DEF CountersMatchLists
<1>6. ChunksAccounted
  BY <1>0, <1>2, FreshPool DEF ChunksAccounted
<1>7. NoEmptySparePool
  BY <1>1 DEF NoEmptySparePool
<1> QED  BY <1>3, <1>4, <1>5, <1>6, <1>7 DEF IInv

\* What session_new and session_close leave behind is accounted for when they
\* change the lists, the counters and the mapping of one pool p alone and leave
\* that pool right: f and u are its lists after the step, nf and nu its
\* counters, r says whether it is mapped.
LEMMA OnePoolChanged ==
  ASSUME IInv, NEW p \in Regions,
         NEW f \in Seq(ChunksOf(p)), NEW u \in Seq(ChunksOf(p)),
         NEW nf \in Int, NEW nu \in Int, NEW r \in RegionState,
         free'    = [free    EXCEPT ![p] = f],
         client'  = [client  EXCEPT ![p] = u],
         free_ch' = [free_ch EXCEPT ![p] = nf],
         used_ch' = [used_ch EXCEPT ![p] = nu],
         region'  = [region  EXCEPT ![p] = r],
         EachOnce(f, u), nf = Len(f), nu = Len(u),
         r = "mapped" => nf + nu = max_clients_in_pool,
         r # "mapped" => f = <<>> /\ u = <<>>
  PROVE  /\ CountersMatchLists' /\ ChunksAccounted'
         /\ free' \in [Regions -> Seq(Chunk)] /\ client' \in [Regions -> Seq(Chunk)]
         /\ free_ch' \in [Regions -> Int] /\ used_ch' \in [Regions -> Int]
         /\ region' \in [Regions -> RegionState]
<1>1. /\ free'[p] = f /\ client'[p] = u /\ region'[p] = r
      /\ free_ch'[p] = nf /\ used_ch'[p] = nu
  BY DEF IInv, PoolsTypeOK
<1>2. \A q \in Regions \ {p} :
        /\ free'[q] = free[q] /\ client'[q] = client[q] /\ region'[q] = region[q]
        /\ free_ch'[q] = free_ch[q] /\ used_ch'[q] = used_ch[q]
  BY DEF IInv, PoolsTypeOK
<1>3. CountersMatchLists'
  BY <1>1, <1>2 DEF IInv, CountersMatchLists
<1>4. ChunksAccounted'
  <2> SUFFICES ASSUME NEW q \in Regions
               PROVE  /\ region'[q] = "mapped" =>
                           free_ch'[q] + used_ch'[q] = max_clients_in_pool
                      /\ region'[q] # "mapped" => free'[q] = <<>> /\ client'[q] = <<>>
                      /\ free'[q] \in Seq(ChunksOf(q))
                      /\ client'[q] \in Seq(ChunksOf(q))
                      /\ EachOnce(free[q], client[q])'
    BY DEF ChunksAccounted
  <2>1. CASE q = p
    <3>1. EachOnce(free[p], client[p])'
      BY <1>1 DEF EachOnce, NoDuplicates, NothingShared
    <3> QED  BY <2>1, <3>1, <1>1
  <2>2. CASE q # p
    <3>1. EachOnce(free[q], client[q])'
      BY <1>2, <2>2 DEF IInv, ChunksAccounted, EachOnce, NoDuplicates, NothingShared
    <3> QED  BY <2>2, <3>1, <1>2 DEF IInv, ChunksAccounted
  <2> QED  BY <2>1, <2>2
<1>5. f \in Seq(Chunk) /\ u \in Seq(Chunk)
  BY SeqMonotonic DEF ChunksOf, Chunk
<1> QED  BY <1>3, <1>4, <1>5 DEF IInv, PoolsTypeOK

\* A pool in the array is mapped, and so its chunks are all free or used.
LEMMA FiledPool ==
  ASSUME IInv, NEW i \in 1 .. n_pls
  PROVE  /\ first_clp[i] \in Regions /\ region[first_clp[i]] = "mapped"
         /\ LET p == first_clp[i]
            IN  /\ free[p] \in Seq(ChunksOf(p)) /\ client[p] \in Seq(ChunksOf(p))
                /\ EachOnce(free[p], client[p])
                /\ free_ch[p] = Len(free[p]) /\ free_ch[p] \in Int
                /\ used_ch[p] = Len(client[p]) /\ used_ch[p] \in Nat
                /\ free_ch[p] + used_ch[p] = max_clients_in_pool
<1>1. first_clp[i] \in Regions /\ region[first_clp[i]] = "mapped"
  BY ElementOfSeq DEF IInv, PoolsTypeOK, FiledIffMapped, n_pls
<1>2. used_ch[first_clp[i]] \in Nat
  BY <1>1, LenProperties DEF IInv, PoolsTypeOK, CountersMatchLists
<1> QED  BY <1>1, <1>2 DEF IInv, PoolsTypeOK, CountersMatchLists, ChunksAccounted

-----------------------------------------------------------------------------
(***************************************************************************)
(* One lemma per action.                                                   *)
(***************************************************************************)

\* session_new finds a free chunk in a pool it has.
LEMMA ReuseStep ==
  ASSUME IInv, NEW c, session_new_reuse(c)
  PROVE  IInv'
<1>0. PICK i \in 1 .. n_pls :
        /\ FirstWithFree(i)
        /\ LET p == first_clp[i]
           IN  TakeChunk(p, c, free[p], client[p], free_ch[p], used_ch[p])
  BY DEF session_new_reuse
<1> DEFINE p == first_clp[i]
<1>1. UNCHANGED <<first_clp, region, exited>>
  BY DEF session_new_reuse
<1>2. /\ c = Head(free[p])
      /\ free'    = [free    EXCEPT ![p] = Tail(free[p])]
      /\ client'  = [client  EXCEPT ![p] = <<c>> \o client[p]]
      /\ free_ch' = [free_ch EXCEPT ![p] = free_ch[p] - 1]
      /\ used_ch' = [used_ch EXCEPT ![p] = used_ch[p] + 1]
  BY <1>0 DEF TakeChunk
<1>3. free_ch[p] > 0
  BY <1>0 DEF FirstWithFree, HasFree
<1>4. /\ p \in Regions /\ region[p] = "mapped"
      /\ free[p] \in Seq(ChunksOf(p)) /\ client[p] \in Seq(ChunksOf(p))
      /\ EachOnce(free[p], client[p])
      /\ free_ch[p] = Len(free[p]) /\ used_ch[p] = Len(client[p])
  BY FiledPool
<1>5. free_ch[p] \in Int /\ used_ch[p] \in Nat /\ free_ch[p] + used_ch[p] = max_clients_in_pool
  BY FiledPool
<1> HIDE DEF p
<1>6. /\ Tail(free[p]) \in Seq(ChunksOf(p)) /\ Len(Tail(free[p])) = Len(free[p]) - 1
      /\ <<c>> \o client[p] \in Seq(ChunksOf(p))
      /\ Len(<<c>> \o client[p]) = Len(client[p]) + 1
      /\ EachOnce(Tail(free[p]), <<c>> \o client[p])
  BY <1>2, <1>3, <1>4, TakeKeepsEachOnce
<1>7. (free_ch[p] - 1) + (used_ch[p] + 1) = max_clients_in_pool
  BY <1>5
<1>8. region' = [region EXCEPT ![p] = "mapped"]
  BY <1>1, <1>4 DEF IInv, PoolsTypeOK
<1>9. free_ch[p] - 1 = Len(Tail(free[p])) /\ used_ch[p] + 1 = Len(<<c>> \o client[p])
  BY <1>4, <1>6
<1>10. /\ CountersMatchLists' /\ ChunksAccounted'
       /\ free' \in [Regions -> Seq(Chunk)] /\ client' \in [Regions -> Seq(Chunk)]
       /\ free_ch' \in [Regions -> Int] /\ used_ch' \in [Regions -> Int]
       /\ region' \in [Regions -> RegionState]
  <2>1. free_ch[p] - 1 \in Int /\ used_ch[p] + 1 \in Int /\ "mapped" \in RegionState
    BY <1>5 DEF RegionState
  <2> QED  BY <2>1, <1>2, <1>4, <1>6, <1>7, <1>8, <1>9, OnePoolChanged
<1>11. PoolsTypeOK'
  BY <1>1, <1>10 DEF IInv, PoolsTypeOK, n_pls
<1>12. FiledIffMapped'
  BY <1>1 DEF IInv, FiledIffMapped, n_pls
<1>13. NoEmptySparePool'
  <2> SUFFICES ASSUME n_pls' > 1, NEW j \in 1 .. n_pls'
               PROVE  used_ch'[first_clp'[j]] > 0
    BY DEF NoEmptySparePool
  <2>1. j \in 1 .. n_pls /\ n_pls > 1
    BY <1>1 DEF n_pls
  <2>2. first_clp[j] \in Regions /\ used_ch[first_clp[j]] > 0
    BY <2>1, FiledPool DEF IInv, NoEmptySparePool
  <2> QED  BY <2>2, <1>1, <1>2, <1>5 DEF IInv, PoolsTypeOK
<1> QED  BY <1>10, <1>11, <1>12, <1>13 DEF IInv

\* session_new files a new pool and takes its first chunk.
LEMMA GrowStep ==
  ASSUME IInv, NEW c, session_new_grow(c)
  PROVE  IInv'
<1>0. PICK p \in Regions :
        /\ region[p] = "unmapped"
        /\ region' = [region EXCEPT ![p] = "mapped"]
        /\ first_clp' = Append(first_clp, p)
        /\ TakeChunk(p, c, pool_free_all(p), <<>>, max_clients_in_pool, 0)
  BY DEF session_new_grow
<1>1. AllFull /\ n_pls < max_pools /\ exited' = exited
  BY DEF session_new_grow
<1> DEFINE f == pool_free_all(p)
<1>2. /\ c = Head(f)
      /\ free'    = [free    EXCEPT ![p] = Tail(f)]
      /\ client'  = [client  EXCEPT ![p] = <<c>> \o <<>>]
      /\ free_ch' = [free_ch EXCEPT ![p] = max_clients_in_pool - 1]
      /\ used_ch' = [used_ch EXCEPT ![p] = 0 + 1]
  BY <1>0 DEF TakeChunk
<1>3. f \in Seq(ChunksOf(p)) /\ Len(f) = max_clients_in_pool /\ EachOnce(f, <<>>)
  BY FreshPool
<1> HIDE DEF f
<1>4. max_clients_in_pool \in Nat \ {0} /\ max_pools \in Nat \ {0}
  BY PoolsAssumption
<1>5. /\ Tail(f) \in Seq(ChunksOf(p)) /\ Len(Tail(f)) = Len(f) - 1
      /\ <<c>> \o <<>> \in Seq(ChunksOf(p)) /\ Len(<<c>> \o <<>>) = Len(<<>>) + 1
      /\ EachOnce(Tail(f), <<c>> \o <<>>)
  <2> DEFINE u == <<>>
  <2>1. u \in Seq(ChunksOf(p)) /\ EachOnce(f, u)
    BY <1>3
  <2>2. Len(f) > 0
    BY <1>3, <1>4
  <2> HIDE DEF u
  <2>3. /\ Tail(f) \in Seq(ChunksOf(p)) /\ Len(Tail(f)) = Len(f) - 1
        /\ <<Head(f)>> \o u \in Seq(ChunksOf(p))
        /\ Len(<<Head(f)>> \o u) = Len(u) + 1
        /\ EachOnce(Tail(f), <<Head(f)>> \o u)
    BY <2>1, <2>2, <1>3, TakeKeepsEachOnce
  <2> QED  BY <2>3, <1>2 DEF u
<1>6. /\ CountersMatchLists' /\ ChunksAccounted'
      /\ free' \in [Regions -> Seq(Chunk)] /\ client' \in [Regions -> Seq(Chunk)]
      /\ free_ch' \in [Regions -> Int] /\ used_ch' \in [Regions -> Int]
      /\ region' \in [Regions -> RegionState]
  <2>1. /\ max_clients_in_pool - 1 \in Int /\ 0 + 1 \in Int
        /\ (max_clients_in_pool - 1) + (0 + 1) = max_clients_in_pool
        /\ max_clients_in_pool - 1 = Len(Tail(f)) /\ 0 + 1 = Len(<<c>> \o <<>>)
    BY <1>3, <1>4, <1>5
  <2>2. "mapped" \in RegionState
    BY DEF RegionState
  <2> QED  BY <2>1, <2>2, <1>0, <1>2, <1>5, OnePoolChanged
<1>7. /\ first_clp' \in Seq(Regions) /\ n_pls' = n_pls + 1 /\ n_pls \in Nat
      /\ \A j \in 1 .. n_pls : first_clp'[j] = first_clp[j]
      /\ first_clp'[n_pls + 1] = p
  BY <1>0, AppendProperties DEF IInv, PoolsTypeOK, n_pls
<1>8. PoolsTypeOK'
  <2>1. n_pls' \in 1 .. max_pools
    BY <1>1, <1>4, <1>7
  <2> QED  BY <2>1, <1>1, <1>6, <1>7 DEF IInv, PoolsTypeOK
<1>9. \A j \in 1 .. n_pls : first_clp[j] \in Regions /\ first_clp[j] # p
  BY <1>0, FiledPool
<1>10. FiledIffMapped'
  <2>1. ASSUME NEW j \in 1 .. n_pls', NEW m \in 1 .. n_pls',
               first_clp'[j] = first_clp'[m]
        PROVE  j = m
    BY <2>1, <1>7, <1>9 DEF IInv, FiledIffMapped
  <2>2. ASSUME NEW q \in Regions
        PROVE  region'[q] = "mapped" <=> \E j \in 1 .. n_pls' : first_clp'[j] = q
    <3>1. CASE q = p
      <4>1. region'[q] = "mapped"
        BY <3>1, <1>0 DEF IInv, PoolsTypeOK
      <4>2. n_pls + 1 \in 1 .. n_pls' /\ first_clp'[n_pls + 1] = q
        BY <3>1, <1>7
      <4> QED  BY <4>1, <4>2
    <3>2. CASE q # p
      <4>1. region'[q] = region[q]
        BY <3>2, <1>0 DEF IInv, PoolsTypeOK
      <4>2. (\E j \in 1 .. n_pls' : first_clp'[j] = q)
              <=> (\E j \in 1 .. n_pls : first_clp[j] = q)
        BY <3>2, <1>7
      <4> QED  BY <4>1, <4>2 DEF IInv, FiledIffMapped
    <3> QED  BY <3>1, <3>2
  <2> QED  BY <2>1, <2>2 DEF FiledIffMapped
<1>11. NoEmptySparePool'
  <2> SUFFICES ASSUME NEW j \in 1 .. n_pls'
               PROVE  used_ch'[first_clp'[j]] > 0
    BY DEF NoEmptySparePool
  <2>1. CASE j = n_pls + 1
    BY <2>1, <1>2, <1>7 DEF IInv, PoolsTypeOK
  <2>2. CASE j # n_pls + 1
    <3>1. j \in 1 .. n_pls
      BY <2>2, <1>7
    <3> DEFINE q == first_clp[j]
    <3>2. ~ (free_ch[q] > 0)
      BY <3>1, <1>1 DEF AllFull, HasFree
    <3>3. free_ch[q] \in Int /\ used_ch[q] \in Nat /\ free_ch[q] + used_ch[q] = max_clients_in_pool
      BY <3>1, FiledPool
    <3>4. used_ch[q] > 0
      BY <3>2, <3>3, <1>4
    <3>5. used_ch'[q] = used_ch[q] /\ first_clp'[j] = q
      BY <3>1, <1>2, <1>7, <1>9 DEF IInv, PoolsTypeOK
    <3> QED  BY <3>4, <3>5
  <2> QED  BY <2>1, <2>2
<1> QED  BY <1>6, <1>8, <1>10, <1>11 DEF IInv

\* session_close gives a chunk back to a pool it keeps.
LEMMA KeepStep ==
  ASSUME IInv, NEW c, NEW i \in 1 .. n_pls, NEW k \in DOMAIN client[first_clp[i]],
         FoundAt(c, i, k), ~ LastOfPool(first_clp[i]),
         KeepPool(first_clp[i], k, c), exited' = exited
  PROVE  IInv'
<1> DEFINE p == first_clp[i]
<1>1. /\ client'  = [client  EXCEPT ![p] = RemoveAt(client[p], k)]
      /\ used_ch' = [used_ch EXCEPT ![p] = used_ch[p] - 1]
      /\ free_ch' = [free_ch EXCEPT ![p] = free_ch[p] + 1]
      /\ free'    = [free    EXCEPT ![p] = <<c>> \o free[p]]
      /\ UNCHANGED <<first_clp, region>>
  BY DEF KeepPool
<1>2. c = client[p][k] /\ ~ (n_pls > 1 /\ used_ch[p] - 1 = 0)
  BY DEF FoundAt, LastOfPool
<1>3. /\ p \in Regions /\ region[p] = "mapped"
      /\ free[p] \in Seq(ChunksOf(p)) /\ client[p] \in Seq(ChunksOf(p))
      /\ EachOnce(free[p], client[p])
      /\ free_ch[p] = Len(free[p]) /\ used_ch[p] = Len(client[p])
  BY FiledPool
<1>4. free_ch[p] \in Int /\ used_ch[p] \in Nat /\ free_ch[p] + used_ch[p] = max_clients_in_pool
  BY FiledPool
<1>5. k \in 1 .. Len(client[p])
  BY <1>3, LenProperties
<1> HIDE DEF p
<1>6. /\ RemoveAt(client[p], k) \in Seq(ChunksOf(p))
      /\ Len(RemoveAt(client[p], k)) = Len(client[p]) - 1
      /\ <<c>> \o free[p] \in Seq(ChunksOf(p))
      /\ Len(<<c>> \o free[p]) = Len(free[p]) + 1
      /\ EachOnce(<<c>> \o free[p], RemoveAt(client[p], k))
  <2> DEFINE f == free[p]
             u == client[p]
  <2>1. f \in Seq(ChunksOf(p)) /\ u \in Seq(ChunksOf(p)) /\ EachOnce(f, u)
    BY <1>3
  <2>2. k \in 1 .. Len(u) /\ c = u[k]
    BY <1>2, <1>5
  <2> HIDE DEF f, u
  <2>3. /\ RemoveAt(u, k) \in Seq(ChunksOf(p)) /\ Len(RemoveAt(u, k)) = Len(u) - 1
        /\ <<u[k]>> \o f \in Seq(ChunksOf(p)) /\ Len(<<u[k]>> \o f) = Len(f) + 1
        /\ EachOnce(<<u[k]>> \o f, RemoveAt(u, k))
    BY <2>1, <2>2, GiveKeepsEachOnce
  <2> QED  BY <2>2, <2>3 DEF f, u
<1>7. (free_ch[p] + 1) + (used_ch[p] - 1) = max_clients_in_pool
  BY <1>4
<1>8. free_ch[p] + 1 = Len(<<c>> \o free[p]) /\ used_ch[p] - 1 = Len(RemoveAt(client[p], k))
  BY <1>3, <1>6
<1>9. region' = [region EXCEPT ![p] = "mapped"]
  BY <1>1, <1>3 DEF IInv, PoolsTypeOK
<1>10. /\ CountersMatchLists' /\ ChunksAccounted'
       /\ free' \in [Regions -> Seq(Chunk)] /\ client' \in [Regions -> Seq(Chunk)]
       /\ free_ch' \in [Regions -> Int] /\ used_ch' \in [Regions -> Int]
       /\ region' \in [Regions -> RegionState]
  <2>1. free_ch[p] + 1 \in Int /\ used_ch[p] - 1 \in Int /\ "mapped" \in RegionState
    BY <1>4 DEF RegionState
  <2> QED  BY <2>1, <1>1, <1>3, <1>6, <1>7, <1>8, <1>9, OnePoolChanged
<1>11. PoolsTypeOK'
  BY <1>1, <1>10 DEF IInv, PoolsTypeOK, n_pls
<1>12. FiledIffMapped'
  BY <1>1 DEF IInv, FiledIffMapped, n_pls
<1>13. NoEmptySparePool'
  <2> SUFFICES ASSUME n_pls' > 1, NEW j \in 1 .. n_pls'
               PROVE  used_ch'[first_clp'[j]] > 0
    BY DEF NoEmptySparePool
  <2>1. j \in 1 .. n_pls /\ n_pls > 1 /\ first_clp'[j] = first_clp[j]
    BY <1>1 DEF n_pls
  <2>2. first_clp[j] \in Regions /\ used_ch[first_clp[j]] > 0
    BY <2>1, FiledPool DEF IInv, NoEmptySparePool
  <2>3. CASE first_clp[j] = p
    <3>1. used_ch'[p] = used_ch[p] - 1
      BY <1>1, <1>3 DEF IInv, PoolsTypeOK
    <3>2. used_ch[p] > 0 /\ used_ch[p] - 1 # 0
      BY <2>1, <2>2, <2>3, <1>2
    <3>3. used_ch[p] - 1 > 0
      BY <3>2, <1>4
    <3> QED  BY <2>1, <2>3, <3>1, <3>3
  <2>4. CASE first_clp[j] # p
    BY <2>1, <2>2, <2>4, <1>1 DEF IInv, PoolsTypeOK
  <2> QED  BY <2>3, <2>4
<1> QED  BY <1>10, <1>11, <1>12, <1>13 DEF IInv

\* session_close drops a pool with its last client.
LEMMA DropStep ==
  ASSUME IInv, NEW c, NEW i \in 1 .. n_pls,
         LastOfPool(first_clp[i]), DropPool(first_clp[i], i), exited' = exited
  PROVE  IInv'
<1> DEFINE p == first_clp[i]
<1>1. /\ region'  = [region  EXCEPT ![p] = "leaked"]
      /\ client'  = [client  EXCEPT ![p] = <<>>]
      /\ used_ch' = [used_ch EXCEPT ![p] = 0]
      /\ free_ch' = [free_ch EXCEPT ![p] = 0]
      /\ free'    = [free    EXCEPT ![p] = <<>>]
      /\ first_clp' = RemoveAt(first_clp, i)
  BY DEF DropPool
<1>2. p \in Regions
  BY FiledPool
<1>3. n_pls > 1 /\ n_pls \in Nat /\ n_pls <= max_pools /\ max_pools \in Nat
  BY PoolsAssumption, LenProperties DEF LastOfPool, IInv, PoolsTypeOK, n_pls
<1>4. /\ first_clp' \in Seq(Regions)
      /\ n_pls' = n_pls - 1
      /\ \A j \in 1 .. n_pls - 1 :
           first_clp'[j] = IF j < i THEN first_clp[j] ELSE first_clp[j + 1]
  BY <1>1, RemoveAtProperties DEF IInv, PoolsTypeOK, n_pls
<1>5. \A j, m \in 1 .. n_pls : first_clp[j] = first_clp[m] => j = m
  BY DEF IInv, FiledIffMapped
<1>6. \A j \in 1 .. n_pls' : \E m \in 1 .. n_pls :
         /\ m # i /\ first_clp'[j] = first_clp[m]
         /\ m = IF j < i THEN j ELSE j + 1
  <2> SUFFICES ASSUME NEW j \in 1 .. n_pls'
               PROVE  \E m \in 1 .. n_pls :
                        /\ m # i /\ first_clp'[j] = first_clp[m]
                        /\ m = IF j < i THEN j ELSE j + 1
    OBVIOUS
  <2>1. CASE j < i
    BY <2>1, <1>3, <1>4
  <2>2. CASE ~ (j < i)
    <3>1. j + 1 \in 1 .. n_pls /\ j + 1 # i /\ first_clp'[j] = first_clp[j + 1]
      BY <2>2, <1>3, <1>4
    <3> QED  BY <2>2, <3>1
  <2> QED  BY <2>1, <2>2
<1>7. \A m \in 1 .. n_pls : m # i => \E j \in 1 .. n_pls' : first_clp'[j] = first_clp[m]
  <2> SUFFICES ASSUME NEW m \in 1 .. n_pls, m # i
               PROVE  \E j \in 1 .. n_pls' : first_clp'[j] = first_clp[m]
    OBVIOUS
  <2>1. CASE m < i
    <3>1. m \in 1 .. n_pls' /\ first_clp'[m] = first_clp[m]
      BY <2>1, <1>3, <1>4
    <3> QED  BY <3>1
  <2>2. CASE ~ (m < i)
    <3>1. m - 1 \in 1 .. n_pls' /\ ~ (m - 1 < i) /\ (m - 1) + 1 = m
      BY <2>2, <1>3, <1>4
    <3>2. first_clp'[m - 1] = first_clp[m]
      BY <3>1, <1>4
    <3> QED  BY <3>1, <3>2
  <2> QED  BY <2>1, <2>2
<1>8. \A m \in 1 .. n_pls : first_clp[m] \in Regions
  BY FiledPool
<1> HIDE DEF p
<1>9. /\ CountersMatchLists' /\ ChunksAccounted'
      /\ free' \in [Regions -> Seq(Chunk)] /\ client' \in [Regions -> Seq(Chunk)]
      /\ free_ch' \in [Regions -> Int] /\ used_ch' \in [Regions -> Int]
      /\ region' \in [Regions -> RegionState]
  <2>1. <<>> \in Seq(ChunksOf(p)) /\ Len(<<>>) = 0 /\ 0 \in Int
    OBVIOUS
  <2>2. EachOnce(<<>>, <<>>)
    BY DEF EachOnce, NoDuplicates, NothingShared
  <2>3. "leaked" \in RegionState /\ "leaked" # "mapped"
    BY DEF RegionState
  <2> QED  BY <2>1, <2>2, <2>3, <1>1, <1>2, OnePoolChanged
<1>10. PoolsTypeOK'
  <2>1. n_pls' \in 1 .. max_pools
    BY <1>3, <1>4
  <2> QED  BY <2>1, <1>4, <1>9 DEF IInv, PoolsTypeOK
<1>11. FiledIffMapped'
  <2>1. ASSUME NEW j \in 1 .. n_pls', NEW m \in 1 .. n_pls',
               first_clp'[j] = first_clp'[m]
        PROVE  j = m
    <3>1. PICK a \in 1 .. n_pls : /\ first_clp'[j] = first_clp[a] /\ a # i
                                  /\ a = IF j < i THEN j ELSE j + 1
      BY <1>6
    <3>2. PICK b \in 1 .. n_pls : /\ first_clp'[m] = first_clp[b] /\ b # i
                                  /\ b = IF m < i THEN m ELSE m + 1
      BY <1>6
    <3>3. a = b
      BY <2>1, <3>1, <3>2, <1>5
    <3> QED  BY <3>1, <3>2, <3>3, <1>3, <1>4
  <2>2. ASSUME NEW q \in Regions
        PROVE  region'[q] = "mapped" <=> \E j \in 1 .. n_pls' : first_clp'[j] = q
    <3>1. CASE q = p
      <4>1. region'[q] # "mapped"
        BY <3>1, <1>1 DEF IInv, PoolsTypeOK
      <4>2. \A j \in 1 .. n_pls' : first_clp'[j] # q
        BY <3>1, <1>5, <1>6 DEF p
      <4> QED  BY <4>1, <4>2
    <3>2. CASE q # p
      <4>1. region'[q] = region[q]
        BY <3>2, <1>1 DEF IInv, PoolsTypeOK
      <4>2. (\E m \in 1 .. n_pls : first_clp[m] = q)
              <=> (\E j \in 1 .. n_pls' : first_clp'[j] = q)
        BY <3>2, <1>6, <1>7 DEF p
      <4> QED  BY <4>1, <4>2 DEF IInv, FiledIffMapped
    <3> QED  BY <3>1, <3>2
  <2> QED  BY <2>1, <2>2 DEF FiledIffMapped
<1>12. NoEmptySparePool'
  <2> SUFFICES ASSUME NEW j \in 1 .. n_pls'
               PROVE  used_ch'[first_clp'[j]] > 0
    BY DEF NoEmptySparePool
  <2>1. PICK m \in 1 .. n_pls : m # i /\ first_clp'[j] = first_clp[m]
    BY <1>6
  <2>2. used_ch[first_clp[m]] > 0 /\ first_clp[m] # p
    BY <2>1, <1>3, <1>5 DEF IInv, NoEmptySparePool, p
  <2> QED  BY <2>1, <2>2, <1>1, <1>8 DEF IInv, PoolsTypeOK
<1> QED  BY <1>9, <1>10, <1>11, <1>12 DEF IInv

\* Every step of the pools keeps the invariant.
LEMMA NextIInv == IInv /\ [PoolsNext]_poolVars => IInv'
<1> SUFFICES ASSUME IInv, [PoolsNext]_poolVars PROVE IInv'
  OBVIOUS
<1>1. ASSUME NEW c \in Chunk, session_new_reuse(c) PROVE IInv'
  BY <1>1, ReuseStep
<1>2. ASSUME NEW c \in Chunk, session_new_grow(c) PROVE IInv'
  BY <1>2, GrowStep
<1>3. ASSUME NEW c \in Chunk, session_close_chunk(c) PROVE IInv'
  <2>1. PICK i \in 1 .. n_pls : \E k \in DOMAIN client[first_clp[i]] :
          /\ FoundAt(c, i, k)
          /\ \/ LastOfPool(first_clp[i])   /\ DropPool(first_clp[i], i)
             \/ ~ LastOfPool(first_clp[i]) /\ KeepPool(first_clp[i], k, c)
    BY <1>3 DEF session_close_chunk
  <2>2. PICK k \in DOMAIN client[first_clp[i]] :
          /\ FoundAt(c, i, k)
          /\ \/ LastOfPool(first_clp[i])   /\ DropPool(first_clp[i], i)
             \/ ~ LastOfPool(first_clp[i]) /\ KeepPool(first_clp[i], k, c)
    BY <2>1
  <2>3. exited' = exited
    BY <1>3 DEF session_close_chunk
  <2> QED  BY <2>2, <2>3, DropStep, KeepStep
<1>4. CASE session_new_nomem
  BY <1>4 DEF session_new_nomem, IInv, PoolsTypeOK, FiledIffMapped,
              CountersMatchLists, ChunksAccounted, NoEmptySparePool, n_pls,
              EachOnce, NoDuplicates, NothingShared
<1>5. CASE UNCHANGED poolVars
  BY <1>5 DEF poolVars, IInv, PoolsTypeOK, FiledIffMapped,
              CountersMatchLists, ChunksAccounted, NoEmptySparePool, n_pls,
              EachOnce, NoDuplicates, NothingShared
<1> QED  BY <1>1, <1>2, <1>3, <1>4, <1>5 DEF PoolsNext, session_new

-----------------------------------------------------------------------------

\* The pools keep their invariant for any number of pools and chunks: no list is
\* walked in unmapped memory, the counters can be trusted, and every chunk is
\* in exactly one place.
THEOREM PoolsInvariant == PoolsSpec => []IInv
BY InitIInv, NextIInv, PTL DEF PoolsSpec

\* The parts of the invariant the runs check, by name.
THEOREM PoolsCorrect ==
  PoolsSpec => [](/\ PoolsTypeOK /\ FiledIffMapped /\ CountersMatchLists
                  /\ ChunksAccounted /\ NoEmptySparePool)
<1>1. IInv => /\ PoolsTypeOK /\ FiledIffMapped /\ CountersMatchLists
              /\ ChunksAccounted /\ NoEmptySparePool
  BY DEF IInv
<1> QED  BY <1>1, PoolsInvariant, PTL

-----------------------------------------------------------------------------
(***************************************************************************)
(* The pools implement the allocator: a chunk is handed out only while no  *)
(* session holds it, and closing a session gives back that chunk alone.    *)
(***************************************************************************)

\* The chunks in use, element by element.
LEMMA LiveElements ==
  ASSUME NEW cl, \A p \in Regions : cl[p] \in Seq(Chunk)
  PROVE  \A x : x \in UNION {ToSet(cl[p]) : p \in Regions}
                  <=> \E p \in Regions : \E k \in 1 .. Len(cl[p]) : cl[p][k] = x
<1>1. \A p \in Regions : DOMAIN cl[p] = 1 .. Len(cl[p])
  BY LenProperties
<1> QED  BY <1>1 DEF ToSet

\* The chunks the allocator sees in use are those on the client lists.
LEMMA LiveNow ==
  ASSUME IInv
  PROVE  \A x : x \in LiveChunks
                  <=> \E p \in Regions : \E k \in 1 .. Len(client[p]) : client[p][k] = x
BY LiveElements DEF IInv, PoolsTypeOK, LiveChunks

\* The same of the next state.
LEMMA LiveNext ==
  ASSUME IInv'
  PROVE  \A x : x \in LiveChunks'
                  <=> \E p \in Regions : \E k \in 1 .. Len(client'[p]) : client'[p][k] = x
<1>1. \A p \in Regions : client'[p] \in Seq(Chunk)
  BY DEF IInv, PoolsTypeOK
<1> HIDE DEF IInv
<1> QED  BY <1>1, LiveElements DEF LiveChunks

\* Two pools share no chunk.
LEMMA OwnChunks ==
  ASSUME IInv, NEW p \in Regions, NEW q \in Regions, NEW k \in 1 .. Len(client[q]),
         client[q][k] \in ChunksOf(p)
  PROVE  q = p
<1>1. client[q][k] \in ChunksOf(q)
  BY ElementOfSeq DEF IInv, ChunksAccounted
<1> QED  BY <1>1 DEF ChunksOf

\* A chunk that was on no list of the pool before is new to all sessions.
LEMMA TakeImplements ==
  ASSUME IInv, IInv', NEW p \in Regions, NEW c \in ChunksOf(p),
         client' = [client EXCEPT ![p] = <<c>> \o client[p]],
         \A k \in 1 .. Len(client[p]) : client[p][k] # c
  PROVE  Allocator!session_new(c)
<1>1. /\ Len(client'[p]) = Len(client[p]) + 1 /\ Len(client[p]) \in Nat
      /\ \A k \in 1 .. Len(client[p]) + 1 :
           client'[p][k] = IF k = 1 THEN c ELSE client[p][k - 1]
  <2>1. client[p] \in Seq(ChunksOf(p)) /\ client'[p] = <<c>> \o client[p]
    BY DEF IInv, ChunksAccounted, PoolsTypeOK
  <2> QED  BY <2>1, PushProperties, LenProperties
<1>2. \A q \in Regions \ {p} : client'[q] = client[q]
  BY DEF IInv, PoolsTypeOK
<1>3. c \notin LiveChunks
  <2> SUFFICES ASSUME NEW q \in Regions, NEW k \in 1 .. Len(client[q]), client[q][k] = c
               PROVE  FALSE
    BY LiveNow
  <2> QED  BY OwnChunks
<1>4. ASSUME NEW x PROVE x \in LiveChunks' <=> x \in LiveChunks \/ x = c
  <2>1. ASSUME x \in LiveChunks' PROVE x \in LiveChunks \/ x = c
    <3>0. PICK q \in Regions : \E k \in 1 .. Len(client'[q]) : client'[q][k] = x
      BY <2>1, LiveNext
    <3>1. PICK k \in 1 .. Len(client'[q]) : client'[q][k] = x
      BY <3>0
    <3>2. CASE q # p
      BY <3>1, <3>2, <1>2, LiveNow
    <3>3. CASE q = p /\ k # 1
      <4>1. k - 1 \in 1 .. Len(client[p]) /\ client[p][k - 1] = x
        BY <3>1, <3>3, <1>1
      <4> QED  BY <4>1, LiveNow
    <3>4. CASE q = p /\ k = 1
      BY <3>1, <3>4, <1>1
    <3> QED  BY <3>2, <3>3, <3>4
  <2>2. ASSUME x = c PROVE x \in LiveChunks'
    <3>1. 1 \in 1 .. Len(client'[p]) /\ client'[p][1] = c
      BY <1>1
    <3> QED  BY <2>2, <3>1, LiveNext
  <2>3. ASSUME x \in LiveChunks PROVE x \in LiveChunks'
    <3>0. PICK q \in Regions : \E k \in 1 .. Len(client[q]) : client[q][k] = x
      BY <2>3, LiveNow
    <3>1. PICK k \in 1 .. Len(client[q]) : client[q][k] = x
      BY <3>0
    <3>2. CASE q # p
      BY <3>1, <3>2, <1>2, LiveNext
    <3>3. CASE q = p
      <4>1. k + 1 \in 1 .. Len(client'[p]) /\ client'[p][k + 1] = x
        BY <3>1, <3>3, <1>1
      <4> QED  BY <4>1, LiveNext
    <3> QED  BY <3>2, <3>3
  <2> QED  BY <2>1, <2>2, <2>3
<1>5. LiveChunks' = LiveChunks \cup {c}
  BY <1>4
<1> QED  BY <1>3, <1>5 DEF Allocator!session_new

\* Taking the k-th client out of the list of its pool ends that session alone.
LEMMA GiveImplements ==
  ASSUME IInv, IInv', NEW p \in Regions, NEW k \in 1 .. Len(client[p]),
         client' = [client EXCEPT ![p] = RemoveAt(client[p], k)]
  PROVE  Allocator!session_close(client[p][k])
<1> DEFINE c == client[p][k]
<1>1. /\ Len(client'[p]) = Len(client[p]) - 1 /\ Len(client[p]) \in Nat
      /\ \A j \in 1 .. Len(client[p]) - 1 :
           client'[p][j] = IF j < k THEN client[p][j] ELSE client[p][j + 1]
  <2> DEFINE u == client[p]
  <2>1. u \in Seq(ChunksOf(p)) /\ client'[p] = RemoveAt(u, k) /\ k \in 1 .. Len(u)
    BY DEF IInv, ChunksAccounted, PoolsTypeOK
  <2> HIDE DEF u
  <2>2. /\ Len(RemoveAt(u, k)) = Len(u) - 1 /\ Len(u) \in Nat
        /\ \A j \in 1 .. Len(u) - 1 :
             RemoveAt(u, k)[j] = IF j < k THEN u[j] ELSE u[j + 1]
    BY <2>1, RemoveAtProperties, LenProperties
  <2> QED  BY <2>1, <2>2 DEF u
<1>2. \A q \in Regions \ {p} : client'[q] = client[q]
  BY DEF IInv, PoolsTypeOK
<1>3. \A i, j \in 1 .. Len(client[p]) : client[p][i] = client[p][j] => i = j
  BY DEF IInv, ChunksAccounted, EachOnce, NoDuplicates
<1>4. c \in ChunksOf(p)
  BY ElementOfSeq DEF IInv, ChunksAccounted
<1>5. c \in LiveChunks
  BY LiveNow
<1>6. ASSUME NEW x PROVE x \in LiveChunks' <=> x \in LiveChunks /\ x # c
  <2>1. ASSUME x \in LiveChunks' PROVE x \in LiveChunks /\ x # c
    <3>0. PICK q \in Regions : \E j \in 1 .. Len(client'[q]) : client'[q][j] = x
      BY <2>1, LiveNext
    <3>1. PICK j \in 1 .. Len(client'[q]) : client'[q][j] = x
      BY <3>0
    <3>2. CASE q # p
      <4>1. j \in 1 .. Len(client[q]) /\ client[q][j] = x
        BY <3>1, <3>2, <1>2
      <4> QED  BY <4>1, <3>2, <1>4, LiveNow, OwnChunks
    <3>3. CASE q = p
      <4>1. PICK m \in 1 .. Len(client[p]) : m # k /\ client[p][m] = x
        <5>1. CASE j < k
          BY <5>1, <3>1, <3>3, <1>1
        <5>2. CASE ~ (j < k)
          <6>1. j + 1 \in 1 .. Len(client[p]) /\ j + 1 # k /\ client[p][j + 1] = x
            BY <5>2, <3>1, <3>3, <1>1
          <6> QED  BY <6>1
        <5> QED  BY <5>1, <5>2
      <4> QED  BY <4>1, <1>3, LiveNow
    <3> QED  BY <3>2, <3>3
  <2>2. ASSUME x \in LiveChunks, x # c PROVE x \in LiveChunks'
    <3>0. PICK q \in Regions : \E j \in 1 .. Len(client[q]) : client[q][j] = x
      BY <2>2, LiveNow
    <3>1. PICK j \in 1 .. Len(client[q]) : client[q][j] = x
      BY <3>0
    <3>2. CASE q # p
      BY <3>1, <3>2, <1>2, LiveNext
    <3>3. CASE q = p /\ j < k
      <4>1. j \in 1 .. Len(client'[p]) /\ client'[p][j] = x
        BY <3>1, <3>3, <1>1
      <4> QED  BY <4>1, LiveNext
    <3>4. CASE q = p /\ ~ (j < k)
      <4>1. j # k
        BY <2>2, <3>1, <3>4
      <4>2. j - 1 \in 1 .. Len(client'[p]) /\ ~ (j - 1 < k) /\ (j - 1) + 1 = j
        BY <3>1, <3>4, <4>1, <1>1
      <4>3. client'[p][j - 1] = x
        BY <3>1, <3>4, <4>2, <1>1
      <4> QED  BY <4>2, <4>3, LiveNext
    <3> QED  BY <3>2, <3>3, <3>4
  <2> QED  BY <2>1, <2>2
<1>7. LiveChunks' = LiveChunks \ {c}
  BY <1>6
<1> QED  BY <1>5, <1>7 DEF Allocator!session_close

\* No session holds a chunk when the server starts.
LEMMA InitImplements == PoolsInit => Allocator!Init
<1> SUFFICES ASSUME PoolsInit PROVE LiveChunks = {}
  BY DEF Allocator!Init
<1>1. client = [q \in Regions |-> <<>>]
  BY DEF PoolsInit
<1> QED  BY <1>1 DEF LiveChunks, ToSet

\* The chunk session_new takes was no session's.
LEMMA NewImplements ==
  ASSUME IInv, IInv', NEW c \in Chunk, session_new(c)
  PROVE  Allocator!session_new(c)
<1>1. CASE session_new_reuse(c)
  <2>1. PICK i \in 1 .. n_pls :
          /\ FirstWithFree(i)
          /\ LET p == first_clp[i]
             IN  TakeChunk(p, c, free[p], client[p], free_ch[p], used_ch[p])
    BY <1>1 DEF session_new_reuse
  <2> DEFINE p == first_clp[i]
             f == free[p]
             u == client[p]
  <2>2. c = Head(f) /\ client' = [client EXCEPT ![p] = <<c>> \o u] /\ free_ch[p] > 0
    BY <2>1 DEF TakeChunk, FirstWithFree, HasFree
  <2>3. /\ p \in Regions /\ f \in Seq(ChunksOf(p)) /\ free_ch[p] = Len(f)
        /\ EachOnce(f, u)
    BY FiledPool
  <2> HIDE DEF p, f
  <2>4. f # <<>> /\ 1 \in 1 .. Len(f) /\ c = f[1]
    BY <2>2, <2>3, LenProperties
  <2>5. c \in ChunksOf(p)
    BY <2>3, <2>4, ElementOfSeq
  <2>6. \A k \in 1 .. Len(u) : u[k] # c
    BY <2>3, <2>4 DEF EachOnce, NothingShared
  <2>7. Allocator!session_new(c)
    BY <2>2, <2>3, <2>5, <2>6, TakeImplements
  <2> QED  BY <2>7
<1>2. CASE session_new_grow(c)
  <2>1. PICK p \in Regions :
          /\ region[p] = "unmapped"
          /\ TakeChunk(p, c, pool_free_all(p), <<>>, max_clients_in_pool, 0)
    BY <1>2 DEF session_new_grow
  <2> DEFINE f == pool_free_all(p)
  <2>2. c = Head(f) /\ client' = [client EXCEPT ![p] = <<c>> \o <<>>]
    BY <2>1 DEF TakeChunk
  <2>3. client[p] = <<>>
    BY <2>1 DEF IInv, ChunksAccounted
  <2>4. f \in Seq(ChunksOf(p)) /\ Len(f) = max_clients_in_pool
    BY FreshPool
  <2> HIDE DEF f
  <2>5. c \in ChunksOf(p)
    <3>1. f # <<>> /\ 1 \in 1 .. Len(f) /\ c = f[1]
      BY <2>2, <2>4, PoolsAssumption
    <3> QED  BY <3>1, <2>4, ElementOfSeq
  <2>6. /\ client' = [client EXCEPT ![p] = <<c>> \o client[p]]
        /\ \A k \in 1 .. Len(client[p]) : client[p][k] # c
    BY <2>2, <2>3
  <2>7. Allocator!session_new(c)
    BY <2>5, <2>6, TakeImplements
  <2> QED  BY <2>7
<1> QED  BY <1>1, <1>2 DEF session_new

\* session_close ends the session it is called for and no other.
LEMMA CloseImplements ==
  ASSUME IInv, IInv', NEW c, session_close_chunk(c)
  PROVE  Allocator!session_close(c)
<1>1. PICK i \in 1 .. n_pls : \E k \in DOMAIN client[first_clp[i]] :
        /\ FoundAt(c, i, k)
        /\ \/ LastOfPool(first_clp[i])   /\ DropPool(first_clp[i], i)
           \/ ~ LastOfPool(first_clp[i]) /\ KeepPool(first_clp[i], k, c)
  BY DEF session_close_chunk
<1> DEFINE p == first_clp[i]
<1>2. PICK k \in DOMAIN client[p] :
        /\ FoundAt(c, i, k)
        /\ \/ LastOfPool(p)   /\ DropPool(p, i)
           \/ ~ LastOfPool(p) /\ KeepPool(p, k, c)
  BY <1>1
<1>3. c = client[p][k]
  BY <1>2 DEF FoundAt
<1>4. /\ p \in Regions /\ client[p] \in Seq(ChunksOf(p)) /\ used_ch[p] = Len(client[p])
  BY FiledPool
<1>5. used_ch[p] \in Nat
  BY FiledPool
<1>6. k \in 1 .. Len(client[p])
  BY <1>4, LenProperties
<1>7. client' = [client EXCEPT ![p] = RemoveAt(client[p], k)]
  <2>1. CASE KeepPool(p, k, c)
    BY <2>1 DEF KeepPool
  <2>2. CASE LastOfPool(p) /\ DropPool(p, i)
    <3>1. used_ch[p] = 1
      BY <2>2, <1>5 DEF LastOfPool
    <3>2. client' = [client EXCEPT ![p] = <<>>]
      BY <2>2 DEF DropPool
    <3> DEFINE u == client[p]
    <3>3. u \in Seq(ChunksOf(p)) /\ Len(u) = 1 /\ k \in 1 .. Len(u)
      BY <1>4, <1>6, <3>1
    <3> HIDE DEF u
    <3>6. RemoveAt(u, k) \in Seq(ChunksOf(p)) /\ Len(RemoveAt(u, k)) = Len(u) - 1
      BY <3>3, RemoveAtProperties
    <3>4. RemoveAt(u, k) \in Seq(ChunksOf(p)) /\ Len(RemoveAt(u, k)) = 0
      BY <3>3, <3>6
    <3>5. RemoveAt(u, k) = <<>>
      BY <3>4, EmptySeq
    <3> QED  BY <3>2, <3>5 DEF u
  <2> QED  BY <1>2, <2>1, <2>2
<1> HIDE DEF p
<1>8. Allocator!session_close(c)
  BY <1>3, <1>4, <1>6, <1>7, GiveImplements
<1> QED  BY <1>8

\* Every step of the pools is a step of the allocator, or none.
LEMMA NextImplements ==
  IInv /\ IInv' /\ [PoolsNext]_poolVars => [Allocator!Next]_LiveChunks
<1> SUFFICES ASSUME IInv, IInv', [PoolsNext]_poolVars
             PROVE  Allocator!Next \/ UNCHANGED LiveChunks
  OBVIOUS
<1>1. ASSUME NEW c \in Chunk, session_new(c) PROVE Allocator!Next
  BY <1>1, NewImplements DEF Allocator!Next
<1>2. ASSUME NEW c \in Chunk, session_close_chunk(c) PROVE Allocator!Next
  BY <1>2, CloseImplements DEF Allocator!Next
<1>3. CASE session_new_nomem
  BY <1>3 DEF session_new_nomem, LiveChunks
<1>4. CASE UNCHANGED poolVars
  BY <1>4 DEF poolVars, LiveChunks
<1> QED  BY <1>1, <1>2, <1>3, <1>4 DEF PoolsNext

\* session_new and session_close behave as the allocator of SessionAllocator,
\* for any number of pools and chunks.
THEOREM PoolsImplementAllocator == PoolsSpec => AllocatorSpec
<1>1. PoolsInit => Allocator!Init
  BY InitImplements
<1>2. IInv /\ IInv' /\ [PoolsNext]_poolVars => [Allocator!Next]_LiveChunks
  BY NextImplements
<1> QED  BY <1>1, <1>2, PoolsInvariant, PTL DEF PoolsSpec, AllocatorSpec, Allocator!Spec

-----------------------------------------------------------------------------
(***************************************************************************)
(* When session_new returns nil.                                           *)
(***************************************************************************)

\* If no pool counts a free chunk every chunk of the pools in use is a client's,
\* so there are as many clients as there are chunks in the pools.
LEMMA AllFullLive ==
  ASSUME IInv, AllFull
  PROVE  Cardinality(LiveChunks) = n_pls * max_clients_in_pool
<1> DEFINE Places == (1 .. n_pls) \X (1 .. max_clients_in_pool)
           F == [x \in Places |-> client[first_clp[x[1]]][x[2]]]
<1>1. n_pls \in Nat /\ max_clients_in_pool \in Nat
  BY PoolsAssumption DEF IInv, PoolsTypeOK
<1>2. \A i \in 1 .. n_pls : /\ first_clp[i] \in Regions
                            /\ Len(client[first_clp[i]]) = max_clients_in_pool
  <2> SUFFICES ASSUME NEW i \in 1 .. n_pls
               PROVE  /\ first_clp[i] \in Regions
                      /\ Len(client[first_clp[i]]) = max_clients_in_pool
    OBVIOUS
  <2>1. /\ first_clp[i] \in Regions
        /\ free_ch[first_clp[i]] = Len(free[first_clp[i]])
        /\ used_ch[first_clp[i]] = Len(client[first_clp[i]])
        /\ free_ch[first_clp[i]] + used_ch[first_clp[i]] = max_clients_in_pool
        /\ used_ch[first_clp[i]] \in Nat
    BY FiledPool
  <2>2. Len(free[first_clp[i]]) \in Nat
    BY <2>1, LenProperties DEF IInv, PoolsTypeOK
  <2>3. free_ch[first_clp[i]] = 0
    BY <2>1, <2>2 DEF AllFull, HasFree
  <2> QED  BY <2>1, <2>3, <1>1
<1>3. ASSUME NEW i \in 1 .. n_pls, NEW k \in 1 .. max_clients_in_pool
      PROVE  client[first_clp[i]][k] \in LiveChunks
  BY <1>2, LiveNow
<1>4. F \in [Places -> LiveChunks]
  BY <1>3
<1>5. \A x, y \in Places : F[x] = F[y] => x = y
  <2> SUFFICES ASSUME NEW i \in 1 .. n_pls, NEW k \in 1 .. max_clients_in_pool,
                      NEW j \in 1 .. n_pls, NEW m \in 1 .. max_clients_in_pool,
                      client[first_clp[i]][k] = client[first_clp[j]][m]
               PROVE  i = j /\ k = m
    OBVIOUS
  <2>1. /\ first_clp[i] \in Regions /\ k \in 1 .. Len(client[first_clp[i]])
        /\ first_clp[j] \in Regions /\ m \in 1 .. Len(client[first_clp[j]])
    BY <1>2
  <2>2. client[first_clp[i]][k] \in ChunksOf(first_clp[i])
    BY <2>1, ElementOfSeq DEF IInv, ChunksAccounted
  <2>3. first_clp[i] = first_clp[j]
    BY <2>1, <2>2, OwnChunks
  <2>4. i = j
    BY <2>3 DEF IInv, FiledIffMapped
  <2>5. NoDuplicates(client[first_clp[i]])
    BY <2>1 DEF IInv, ChunksAccounted, EachOnce
  <2>6. k = m
    BY <2>1, <2>4, <2>5 DEF NoDuplicates
  <2> QED  BY <2>4, <2>6
<1>6. \A c \in LiveChunks : \E x \in Places : F[x] = c
  <2> SUFFICES ASSUME NEW c \in LiveChunks
               PROVE  \E x \in Places : F[x] = c
    OBVIOUS
  <2>1. PICK p \in Regions : \E k \in 1 .. Len(client[p]) : client[p][k] = c
    BY LiveNow
  <2>2. PICK k \in 1 .. Len(client[p]) : client[p][k] = c
    BY <2>1
  <2>3. region[p] = "mapped"
    BY <2>2 DEF IInv, ChunksAccounted
  <2>4. PICK i \in 1 .. n_pls : first_clp[i] = p
    BY <2>3 DEF IInv, FiledIffMapped
  <2>5. <<i, k>> \in Places /\ F[<<i, k>>] = c
    BY <2>2, <2>4, <1>2
  <2> QED  BY <2>5
<1>7. F \in Bijection(Places, LiveChunks)
  <2> HIDE DEF F, Places
  <2> QED  BY <1>4, <1>5, <1>6, Fun_IsBij
<1>8. IsFiniteSet(Places) /\ Cardinality(Places) = n_pls * max_clients_in_pool
  <2> DEFINE I == 1 .. n_pls
             K == 1 .. max_clients_in_pool
  <2>1. IsFiniteSet(I) /\ Cardinality(I) = n_pls
    BY <1>1, FS_Interval
  <2>2. IsFiniteSet(K) /\ Cardinality(K) = max_clients_in_pool
    BY <1>1, FS_Interval
  <2> HIDE DEF I, K
  <2>3. IsFiniteSet(I \X K) /\ Cardinality(I \X K) = Cardinality(I) * Cardinality(K)
    BY <2>1, <2>2, FS_Product
  <2> QED  BY <2>1, <2>2, <2>3 DEF I, K
<1> HIDE DEF F, Places
<1>9. ExistsBijection(Places, LiveChunks)
  BY <1>7 DEF ExistsBijection
<1> QED  BY <1>8, <1>9, FS_Bijection

\* A pool that is full, in whatever order its clients came and went, has a client in
\* each of its chunks, and all max_pools pools are.
LEMMA RejectsWhenFull == IInv => RejectOnlyWhenFull
BY AllFullLive DEF RejectOnlyWhenFull, session_new_nil

\* The server turns a client away only when max_pools * max_clients_in_pool sessions
\* are open: no chunk is ever hidden from session_new.
THEOREM RejectsOnlyWhenFull == PoolsSpec => []RejectOnlyWhenFull
BY PoolsInvariant, RejectsWhenFull, PTL

=============================================================================
