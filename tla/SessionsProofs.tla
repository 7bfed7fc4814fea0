--------------------------- MODULE SessionsProofs ---------------------------
(***************************************************************************)
(* Proofs about the sessions of ChatServer, for any number of pools,       *)
(* chunks, connections, descriptors, events and bytes: whose memory the    *)
(* kernel's pointers point to, whose socket a descriptor is, and how far   *)
(* the buffers are filled.                                                 *)
(***************************************************************************)
EXTENDS ChatServer, ClientPoolsProofs, DataLemmas

-----------------------------------------------------------------------------
(***************************************************************************)
(* Kept, for any sequence: what epoll_wait reports, and what close leaves  *)
(* of epoll's list.                                                        *)
(***************************************************************************)

\* What Kept has after n elements of s, r being the result so far.
KeptSoFar(s, S, T, r, n) ==
  /\ r \in Seq(T) /\ Len(r) <= n
  /\ \A i \in 1 .. Len(r) : r[i] \in S /\ \E j \in 1 .. n : r[i] = s[j]
  /\ \A j \in 1 .. n : s[j] \in S => \E i \in 1 .. Len(r) : r[i] = s[j]
  /\ (\A i, j \in 1 .. Len(s) : s[i] = s[j] => i = j) =>
       \A i, j \in 1 .. Len(r) : r[i] = r[j] => i = j

\* One more element of s, kept or not.
LEMMA KeptStep ==
  ASSUME NEW T, NEW s \in Seq(T), NEW S, NEW n \in 1 .. Len(s), NEW r,
         KeptSoFar(s, S, T, r, n - 1)
  PROVE  KeptSoFar(s, S, T, IF s[n] \in S THEN Append(r, s[n]) ELSE r, n)
<1>0. Len(s) \in Nat /\ n \in Nat /\ s[n] \in T
  BY LenProperties, ElementOfSeq
<1>1. r \in Seq(T) /\ Len(r) \in Nat /\ Len(r) <= n - 1
  BY LenProperties DEF KeptSoFar
<1>2. CASE s[n] \notin S
  <2>1. \A j \in 1 .. n : s[j] \in S => j \in 1 .. n - 1
    BY <1>2, <1>0
  <2>2. \A j \in 1 .. n - 1 : j \in 1 .. n
    BY <1>0
  <2> QED  BY <1>0, <1>1, <1>2, <2>1, <2>2 DEF KeptSoFar
<1>3. CASE s[n] \in S
  <2> DEFINE q == Append(r, s[n])
  <2>1. /\ q \in Seq(T) /\ Len(q) = Len(r) + 1
        /\ \A i \in 1 .. Len(r) : q[i] = r[i]
        /\ q[Len(r) + 1] = s[n]
    BY <1>0, <1>1, AppendProperties
  <2> HIDE DEF q
  <2>2. \A i \in 1 .. Len(q) : q[i] \in S /\ \E j \in 1 .. n : q[i] = s[j]
    <3> SUFFICES ASSUME NEW i \in 1 .. Len(q)
                 PROVE  q[i] \in S /\ \E j \in 1 .. n : q[i] = s[j]
      OBVIOUS
    <3>1. CASE i \in 1 .. Len(r)
      <4>1. PICK j \in 1 .. n - 1 : r[i] = s[j]
        BY <3>1 DEF KeptSoFar
      <4> QED  BY <3>1, <4>1, <2>1, <1>0 DEF KeptSoFar
    <3>2. CASE i = Len(r) + 1
      BY <3>2, <2>1, <1>3, <1>0
    <3> QED  BY <3>1, <3>2, <2>1, <1>1
  <2>3. \A j \in 1 .. n : s[j] \in S => \E i \in 1 .. Len(q) : q[i] = s[j]
    <3> SUFFICES ASSUME NEW j \in 1 .. n, s[j] \in S
                 PROVE  \E i \in 1 .. Len(q) : q[i] = s[j]
      OBVIOUS
    <3>1. CASE j = n
      BY <3>1, <2>1, <1>1
    <3>2. CASE j # n
      <4>1. j \in 1 .. n - 1
        BY <3>2, <1>0
      <4>2. PICK i \in 1 .. Len(r) : r[i] = s[j]
        BY <4>1 DEF KeptSoFar
      <4> QED  BY <4>2, <2>1, <1>1
    <3> QED  BY <3>1, <3>2
  <2>4. ASSUME \A i, j \in 1 .. Len(s) : s[i] = s[j] => i = j,
               NEW i \in 1 .. Len(q), NEW j \in 1 .. Len(q), q[i] = q[j]
        PROVE  i = j
    <3>1. \A k \in 1 .. Len(r) : r[k] # s[n]
      <4> SUFFICES ASSUME NEW k \in 1 .. Len(r), r[k] = s[n] PROVE FALSE
        OBVIOUS
      <4>1. PICK m \in 1 .. n - 1 : r[k] = s[m]
        BY DEF KeptSoFar
      <4>2. m \in 1 .. Len(s) /\ n \in 1 .. Len(s) /\ m # n
        BY <1>0
      <4>3. \A a, b \in 1 .. Len(s) : s[a] = s[b] => a = b
        BY <2>4
      <4> QED  BY <4>1, <4>2, <4>3
    <3>2. \A k, m \in 1 .. Len(r) : r[k] = r[m] => k = m
      BY <2>4 DEF KeptSoFar
    <3>3. \A k \in 1 .. Len(q) : k \in 1 .. Len(r) \/ k = Len(r) + 1
      BY <2>1, <1>1
    <3>4. CASE i \in 1 .. Len(r) /\ j \in 1 .. Len(r)
      BY <3>2, <3>4, <2>1, <2>4
    <3>5. CASE i = Len(r) + 1 /\ j \in 1 .. Len(r)
      BY <3>1, <3>5, <2>1, <2>4
    <3>6. CASE i \in 1 .. Len(r) /\ j = Len(r) + 1
      BY <3>1, <3>6, <2>1, <2>4
    <3>7. CASE i = Len(r) + 1 /\ j = Len(r) + 1
      BY <3>7
    <3> QED  BY <3>3, <3>4, <3>5, <3>6, <3>7, <2>4
  <2> QED  BY <2>1, <2>2, <2>3, <2>4, <1>1, <1>3, <1>0 DEF KeptSoFar, q
<1> QED  BY <1>2, <1>3

\* Kept(s, S) has the elements of s that are in S and no others, and none twice
\* if s has none twice: the events epoll_wait reports, and what close leaves of
\* epoll's list.
LEMMA KeptProperties ==
  ASSUME NEW T, NEW s \in Seq(T), NEW S
  PROVE  KeptSoFar(s, S, T, Kept(s, S), Len(s))
<1> DEFINE N == Len(s)
           Body(f, n) == IF n = 0 THEN <<>>
                         ELSE IF s[n] \in S THEN Append(f[n - 1], s[n]) ELSE f[n - 1]
           G == {m \in 0 .. N : \E f : f = [n \in 0 .. m |-> Body(f, n)]}
<1>0. N \in Nat
  BY LenProperties
<1>1. 0 \in G
  <2> DEFINE z == [n \in 0 .. 0 |-> <<>>]
  <2>1. z = [n \in 0 .. 0 |-> Body(z, n)]
    OBVIOUS
  <2> HIDE DEF z
  <2> QED  BY <2>1, <1>0
<1>2. ASSUME NEW m \in 0 .. N - 1, m \in G PROVE m + 1 \in G
  <2>1. PICK f : f = [n \in 0 .. m |-> Body(f, n)]
    BY <1>2
  <2> DEFINE g == [n \in 0 .. m + 1 |-> IF n = m + 1 THEN Body(f, m + 1) ELSE f[n]]
  <2>2. \A n \in 0 .. m + 1 : g[n] = Body(g, n)
    <3> SUFFICES ASSUME NEW n \in 0 .. m + 1 PROVE g[n] = Body(g, n)
      OBVIOUS
    <3>1. n # 0 => g[n - 1] = f[n - 1]
      BY <1>0
    <3>2. CASE n = m + 1
      BY <3>1, <3>2, <1>0
    <3>3. CASE n # m + 1
      <4>1. n \in 0 .. m /\ g[n] = f[n]
        BY <3>3, <1>0
      <4>2. f[n] = Body(f, n)
        BY <2>1, <4>1
      <4> QED  BY <4>1, <4>2, <3>1
    <3> QED  BY <3>2, <3>3
  <2>3. g = [n \in 0 .. m + 1 |-> Body(g, n)]
    <3>1. g = [n \in 0 .. m + 1 |-> g[n]]
      OBVIOUS
    <3> HIDE DEF g
    <3> QED  BY <3>1, <2>2
  <2>4. m + 1 \in 0 .. N
    BY <1>0
  <2> HIDE DEF g
  <2> QED  BY <2>3, <2>4
<1>3. N \in G
  <2>1. \A m \in 0 .. N - 1 : m \in G => m + 1 \in G
    BY <1>2
  <2> HIDE DEF G
  <2>2. \A m \in 0 .. N : m \in G
    BY <1>0, <1>1, <2>1, UpTo
  <2> QED  BY <2>2, <1>0
<1> DEFINE kept == CHOOSE f : f = [n \in 0 .. N |-> Body(f, n)]
<1>4. kept = [n \in 0 .. N |-> Body(kept, n)]
  BY <1>3
<1>5. Kept(s, S) = kept[N]
  BY DEF Kept
<1> HIDE DEF kept
<1>6. kept[0] = <<>> /\ \A n \in 1 .. N :
        kept[n] = IF s[n] \in S THEN Append(kept[n - 1], s[n]) ELSE kept[n - 1]
  <2>1. \A n \in 0 .. N : kept[n] = Body(kept, n)
    BY <1>4
  <2>2. 0 \in 0 .. N /\ \A n \in 1 .. N : n \in 0 .. N /\ n # 0
    BY <1>0
  <2>3. kept[0] = <<>>
    BY <2>1, <2>2
  <2> QED  BY <2>1, <2>2, <2>3
<1> DEFINE H == {m \in 0 .. N : KeptSoFar(s, S, T, kept[m], m)}
<1>7. 0 \in H
  <2>1. /\ <<>> \in Seq(T) /\ Len(<<>>) = 0
        /\ \A i \in 1 .. 0 : FALSE
    BY EmptySeq
  <2>2. KeptSoFar(s, S, T, <<>>, 0)
    BY <2>1 DEF KeptSoFar
  <2> QED  BY <1>0, <1>6, <2>2
<1>8. ASSUME NEW m \in 0 .. N - 1, m \in H PROVE m + 1 \in H
  <2>1. m + 1 \in 1 .. N /\ (m + 1) - 1 = m
    BY <1>0
  <2>2. KeptSoFar(s, S, T, kept[m], m)
    BY <1>8
  <2>3. KeptSoFar(s, S, T, IF s[m + 1] \in S THEN Append(kept[m], s[m + 1]) ELSE kept[m],
                  m + 1)
    BY <2>1, <2>2, KeptStep
  <2> QED  BY <2>1, <2>3, <1>6
<1>9. N \in H
  <2>1. \A m \in 0 .. N - 1 : m \in H => m + 1 \in H
    BY <1>8
  <2> HIDE DEF H
  <2>2. \A m \in 0 .. N : m \in H
    BY <1>0, <1>7, <2>1, UpTo
  <2> QED  BY <2>2, <1>0
<1> QED  BY <1>5, <1>9


-----------------------------------------------------------------------------
(***************************************************************************)
(* The pools in the server: whatever it does to them is session_new,       *)
(* session_close or nothing, so what ClientPoolsProofs shows of the pools  *)
(* alone holds in the running server.                                      *)
(***************************************************************************)

\* session_close finds the client on a list of a pool, so it is a chunk.
LEMMA ClosedIsChunk ==
  ASSUME IInv, NEW c, session_close_chunk(c)
  PROVE  c \in Chunk
<1>1. PICK i \in 1 .. n_pls : \E k \in DOMAIN client[first_clp[i]] :
        FoundAt(c, i, k)
  BY DEF session_close_chunk
<1>2. PICK k \in DOMAIN client[first_clp[i]] : FoundAt(c, i, k)
  BY <1>1
<1>3. first_clp[i] \in Regions
  BY <1>1, FiledPool
<1>4. client[first_clp[i]] \in Seq(Chunk)
  BY <1>3 DEF IInv, PoolsTypeOK
<1>5. client[first_clp[i]][k] = c
  BY <1>2 DEF FoundAt
<1> QED  BY <1>2, <1>4, <1>5, ElementOfSeq, LenProperties

\* A handler that closes a session makes a step of the pools.
LEMMA ClosingUsesPools ==
  ASSUME IInv, NEW c, NEW m, NEW own, NEW all,
         Closing(c, m, own, all)
  PROVE  PoolsNext
<1>1. session_close_chunk(c)
  BY DEF Closing
<1> QED  BY <1>1, ClosedIsChunk DEF PoolsNext

\* Every step of the server or of a peer is a step of the pools or leaves them.
LEMMA NextUsesPools == IInv /\ [Next]_vars => [PoolsNext]_poolVars
<1> SUFFICES ASSUME IInv, [Next]_vars PROVE PoolsNext \/ UNCHANGED poolVars
  OBVIOUS
<1>1. CASE epoll_wait
  BY <1>1 DEF epoll_wait
<1>16. CASE server_init \/ create_epoll \/ register_listener
  BY <1>16 DEF server_init, create_epoll, register_listener, StartStep
<1>2. CASE interrupted \/ accept_fails \/ accept_drained \/ accept_rejects
  BY <1>2 DEF interrupted, accept_fails, accept_drained, accept_rejects, vars
<1>3. CASE accept_client
  BY <1>3 DEF accept_client, PoolsNext
<1>4. CASE accept_nomem
  BY <1>4 DEF accept_nomem, PoolsNext
<1>5. CASE register
  BY <1>5 DEF register
<1>6. CASE register_fails
  BY <1>6, ClosingUsesPools DEF register_fails
<1>7. CASE name_read_more \/ name_read_done
  BY <1>7 DEF name_read_more, name_read_done
<1>8. CASE name_read_too_long
  BY <1>8, ClosingUsesPools DEF name_read_too_long
<1>9. CASE name_read_closes
  BY <1>9, ClosingUsesPools DEF name_read_closes
<1>10. CASE line_read_more \/ line_read_done
  BY <1>10 DEF line_read_more, line_read_done
<1>11. CASE line_read_too_long
  BY <1>11, ClosingUsesPools DEF line_read_too_long
<1>12. CASE line_read_eof
  BY <1>12, ClosingUsesPools DEF line_read_eof
<1>13. CASE line_read_error
  BY <1>13, ClosingUsesPools DEF line_read_error
<1>14. CASE PeerNext
  BY <1>14 DEF PeerNext
<1>15. CASE UNCHANGED vars
  BY <1>15 DEF vars
<1> QED
  BY <1>1, <1>2, <1>3, <1>4, <1>5, <1>6, <1>7, <1>8, <1>9, <1>10, <1>11, <1>12,
     <1>13, <1>14, <1>15, <1>16
  DEF Next, ServerNext

\* In the running server, too, no list is walked in unmapped memory, the counters
\* match the lists and every chunk is in exactly one place.
THEOREM ServerKeepsPools ==
  Spec => [](/\ PoolsTypeOK /\ FiledIffMapped /\ CountersMatchLists
             /\ ChunksAccounted /\ NoEmptySparePool)
<1>1. Init => IInv
  BY InitIInv DEF Init
<1>2. IInv /\ [Next]_vars => IInv'
  BY NextUsesPools, NextIInv
<1>3. IInv => /\ PoolsTypeOK /\ FiledIffMapped /\ CountersMatchLists
              /\ ChunksAccounted /\ NoEmptySparePool
  BY DEF IInv
<1> QED  BY <1>1, <1>2, <1>3, PTL DEF Spec

\* The event loop uses the pools as their specification allows.
THEOREM ServerImplementsPools == Spec => PoolsSpec
<1>1. Init => PoolsInit /\ IInv
  BY InitIInv DEF Init
<1>2. IInv /\ [Next]_vars => IInv'
  BY NextUsesPools, NextIInv
<1>3. IInv /\ [Next]_vars => [PoolsNext]_poolVars
  BY NextUsesPools
<1> QED  BY <1>1, <1>2, <1>3, PTL DEF Spec, PoolsSpec

\* A chunk the server hands to a new client belongs to no other client, and
\* closing a client frees its chunk alone.
THEOREM ServerImplementsAllocator == Spec => AllocatorSpec
BY ServerImplementsPools, PoolsImplementAllocator, PTL

\* The running server turns a client away only when it holds max_pools *
\* max_clients_in_pool clients, those of failed registrations not counted.
THEOREM ServerRejectsOnlyWhenFull == Spec => []RejectOnlyWhenFull
BY ServerImplementsPools, RejectsOnlyWhenFull, PTL

-----------------------------------------------------------------------------
(***************************************************************************)
(* The inductive invariant.                                                *)
(***************************************************************************)

\* The kernel's side of it.  Connections in the queue wait there once; an open
\* descriptor has a file of its own; epoll's list has registered files only, each
\* once.
KernelTypes ==
  /\ stage \in [Conn -> Stage]
  /\ fdt \in [Fd -> Conn \cup {"free", "stdin"}]
  /\ queue \in Seq(Conn) /\ rx \in [Conn -> Seq(Bytes)]
  /\ sent \in [Conn -> 0 .. MaxSent]
  /\ fin \in [Conn -> BOOLEAN] /\ err \in [Conn -> {"ok", "reset", "pipe"}]
  /\ reg \in [File -> Chunk \cup {nil, serv}] /\ ready \in Seq(File)
QueueWaits ==
  /\ \A i \in 1 .. Len(queue) : stage[queue[i]] = "queued"
  /\ NoDuplicates(queue)
FilesOpen ==
  /\ \A fd \in Fd : fdt[fd] \in Conn => stage[fdt[fd]] = "open"
  /\ \A fd, other \in Fd : fdt[fd] \in Conn /\ fdt[fd] = fdt[other] => fd = other
ReadyRegistered ==
  /\ \A i \in 1 .. Len(ready) : reg[ready[i]] # nil
  /\ NoDuplicates(ready)
KernelInv == KernelTypes /\ QueueWaits /\ FilesOpen /\ ReadyRegistered

\* A registered connection is the socket of the session its pointer points to.
RegisteredSessions ==
  /\ reg[serv] \in {nil, serv}
  /\ \A s \in Conn : reg[s] # nil =>
       reg[s] \in Sessions /\ FileOf(mem[reg[s]].fd) = s

\* The memory of the clients: BuffersBounded, whether or not the server runs.
Filled(m) ==
  /\ m.buf_used \in 0 .. max_line_len
  /\ m.name_used \in 0 .. max_name_len
  /\ m.name_ok => m.name_used < max_name_len /\ m.name[m.name_used + 1] = "nul"
MemoryInv ==
  /\ mem \in [Chunk -> Client]
  /\ \A c \in Sessions : Filled(mem[c])

\* The thread's side.  The unhandled events are for sessions that are there, each one
\* once, and none for the session of the running handler.
ThreadTypes ==
  /\ pc \in {"listen", "epoll_create1", "epoll_add",
             "epoll_wait", "accept", "epoll_ctl", "name_read", "line_read"}
  /\ evt \in Seq(Chunk \cup {serv}) /\ Len(evt) <= max_events
  /\ cur \in Chunk \cup {nil} /\ off \in Int
EventsPending ==
  /\ \A i \in 1 .. Len(evt) : evt[i] # serv => evt[i] \in Sessions
  /\ NoDuplicates(evt)
HandlerReads ==
  /\ pc \in {"name_read", "line_read"} =>
       cur \in LiveChunks /\ \A i \in 1 .. Len(evt) : evt[i] # cur
  /\ pc = "name_read" =>
       ~ mem[cur].name_ok /\ off \in 0 .. max_name_len /\ off <= mem[cur].name_used
  /\ pc = "line_read" =>
       mem[cur].name_ok /\ off \in 0 .. max_line_len /\ off <= mem[cur].buf_used
ThreadInv == ThreadTypes /\ EventsPending /\ HandlerReads

\* Between accept4 and epoll_ctl.
HandlerAccepts ==
  /\ sock \in Fd \cup {garbage}
  /\ pc = "epoll_ctl" =>
       /\ cur \in LiveChunks
       /\ sock \in Fd /\ fdt[sock] \in Conn /\ reg[fdt[sock]] = nil

SInv ==
  /\ IInv /\ killed \in BOOLEAN
  /\ KernelInv /\ RegisteredSessions /\ MemoryInv /\ ThreadInv /\ HandlerAccepts

-----------------------------------------------------------------------------
(***************************************************************************)
(* Chunks.                                                                 *)
(***************************************************************************)

\* The chunks of clients are in mapped pools.
LiveInMapped == \A c \in LiveChunks : c \in Chunk /\ region[PoolOf(c)] = "mapped"

\* The pools count them in pools they have filed.
LEMMA LiveMapped == IInv => LiveInMapped
<1> SUFFICES ASSUME IInv, NEW c \in LiveChunks
             PROVE  c \in Chunk /\ region[PoolOf(c)] = "mapped"
  BY DEF LiveInMapped
<1>1. PICK p \in Regions : \E k \in 1 .. Len(client[p]) : client[p][k] = c
  BY LiveNow
<1>2. PICK k \in 1 .. Len(client[p]) : client[p][k] = c
  BY <1>1
<1>3. region[p] = "mapped" /\ client[p] \in Seq(ChunksOf(p))
  BY <1>2 DEF IInv, ChunksAccounted
<1>4. c \in ChunksOf(p)
  BY <1>2, <1>3, ElementOfSeq
<1> QED  BY <1>3, <1>4 DEF ChunksOf, Chunk, PoolOf

\* The same of the next state.
LEMMA LiveMappedNext == IInv' => LiveInMapped'
BY LiveMapped, PTL

-----------------------------------------------------------------------------
(***************************************************************************)
(* The next handler.                                                       *)
(***************************************************************************)

\* Whichever handler comes next, it starts with a session that is there and is not
\* among the events left, and with an offset inside its buffer.
LEMMA HandlerStarts ==
  ASSUME NEW events \in Seq(Chunk \cup {serv}), Len(events) <= max_events,
         NoDuplicates(events), LiveChunks' \subseteq Chunk,
         \A i \in 1 .. Len(events) : events[i] # serv => events[i] \in LiveChunks',
         MemoryInv', HandleNext(events)
  PROVE  ThreadInv' /\ pc' # "epoll_ctl" /\ pc' # "listen"
<1>1. pc' \in {"epoll_wait", "accept", "name_read", "line_read"}
  BY DEF HandleNext
<1>2. Sessions' = LiveChunks'
  BY <1>1 DEF Sessions
<1>3. CASE events = <<>>
  <2>1. pc' = "epoll_wait" /\ evt' = <<>> /\ cur' = nil /\ off' = 0
    BY <1>3 DEF HandleNext
  <2>2. evt' \in Seq(Chunk \cup {serv}) /\ Len(evt') = 0 /\ 0 <= max_events
    BY <2>1, ServerAssumption
  <2> QED  BY <2>1, <2>2 DEF ThreadInv, ThreadTypes, EventsPending, HandlerReads, NoDuplicates
<1>4. CASE events # <<>>
  <2> DEFINE rest == Tail(events)
             first == Head(events)
  <2>1. /\ Len(events) \in Nat /\ 1 \in 1 .. Len(events) /\ first = events[1]
        /\ rest \in Seq(Chunk \cup {serv}) /\ Len(rest) = Len(events) - 1
        /\ \A i \in 1 .. Len(rest) : rest[i] = events[i + 1]
    BY <1>4, HeadTailProperties, LenProperties, EmptySeq
  <2>2. evt' = rest
    BY <1>4 DEF HandleNext
  <2> HIDE DEF rest
  <2>3. \A i \in 1 .. Len(rest) : i + 1 \in 1 .. Len(events) /\ i + 1 # 1
    BY <2>1
  <2>4. \A i \in 1 .. Len(rest) : rest[i] # first
    BY <2>1, <2>3 DEF NoDuplicates
  <2>5. EventsPending'
    <3>1. \A i \in 1 .. Len(rest) : rest[i] # serv => rest[i] \in LiveChunks'
      BY <2>1, <2>3
    <3>2. NoDuplicates(rest)
      BY <2>1, <2>3 DEF NoDuplicates
    <3> QED  BY <3>1, <3>2, <2>2, <1>2 DEF EventsPending, NoDuplicates
  <2>6. evt' \in Seq(Chunk \cup {serv}) /\ Len(evt') <= max_events
    BY <2>1, <2>2, ServerAssumption
  <2>7. CASE first = serv
    <3>1. pc' = "accept" /\ cur' = nil /\ off' = 0
      BY <2>7, <1>4 DEF HandleNext
    <3> QED  BY <3>1, <2>5, <2>6 DEF ThreadInv, ThreadTypes, HandlerReads
  <2>8. CASE first # serv
    <3>1. cur' = first /\ cur' \in LiveChunks' /\ cur' \in Chunk
      BY <2>1, <2>8, <1>4 DEF HandleNext
    <3>2. mem'[cur'] \in Client /\ Filled(mem'[cur'])
      BY <3>1, <1>2 DEF MemoryInv
    <3> DEFINE m == mem'[cur']
    <3>3. \/ ~ m.name_ok /\ pc' = "name_read" /\ off' = m.name_used
          \/ m.name_ok   /\ pc' = "line_read" /\ off' = m.buf_used
      BY <3>1, <2>8, <1>4 DEF HandleNext
    <3>4. m.name_used \in 0 .. max_name_len /\ m.buf_used \in 0 .. max_line_len
      BY <3>2 DEF Filled
    <3>5. off' \in Int
      BY <3>3, <3>4, ServerAssumption
    <3>6. HandlerReads'
      BY <3>1, <3>3, <3>4, <2>2, <2>4, ServerAssumption DEF HandlerReads
    <3> QED  BY <3>1, <3>5, <3>6, <2>5, <2>6, <1>1 DEF ThreadInv, ThreadTypes
  <2> QED  BY <2>7, <2>8
<1> QED  BY <1>1, <1>3, <1>4

-----------------------------------------------------------------------------
(***************************************************************************)
(* The fields of a client.                                                 *)
(***************************************************************************)

\* Storing in the fields of a client leaves a client.
LEMMA FieldsStored ==
  ASSUME NEW m \in Client
  PROVE  /\ \A fd \in Fd \cup {garbage} : \A b \in Int :
              /\ [m EXCEPT !.fd = fd] \in Client
              /\ [m EXCEPT !.fd = fd, !.buf_used = b] \in Client
              /\ \A n \in Int : \A ok \in BOOLEAN :
                   [m EXCEPT !.fd = fd, !.buf_used = b, !.name_used = n, !.name_ok = ok]
                     \in Client
         /\ \A name \in [1 .. max_name_len -> Byte] : \A n \in Int :
              /\ [m EXCEPT !.name = name, !.name_used = n] \in Client
              /\ \A ok \in BOOLEAN :
                   [m EXCEPT !.name = name, !.name_ok = ok, !.name_used = n] \in Client
         /\ \A buf \in [1 .. max_line_len -> Byte] : \A b \in Int :
              [m EXCEPT !.buf = buf, !.buf_used = b] \in Client
<1> DEFINE F == Fd \cup {garbage}
           I == Int
           Ok == BOOLEAN
           B == [1 .. max_line_len -> Byte]
           N == [1 .. max_name_len -> Byte]
<1>1. Client = [fd : F, buf_used : I, name_used : I, name_ok : Ok, buf : B, name : N]
  BY DEF Client
<1> HIDE DEF F, I, Ok, B, N
<1>2. \A fd \in F : \A b \in I :
        /\ [m EXCEPT !.fd = fd] \in Client
        /\ [m EXCEPT !.fd = fd, !.buf_used = b] \in Client
        /\ \A n \in I : \A ok \in Ok :
             [m EXCEPT !.fd = fd, !.buf_used = b, !.name_used = n, !.name_ok = ok] \in Client
  BY <1>1
<1>3. \A name \in N : \A n \in I :
        /\ [m EXCEPT !.name = name, !.name_used = n] \in Client
        /\ \A ok \in Ok : [m EXCEPT !.name = name, !.name_ok = ok, !.name_used = n] \in Client
  BY <1>1
<1>4. \A buf \in B : \A b \in I : [m EXCEPT !.buf = buf, !.buf_used = b] \in Client
  BY <1>1
<1> QED  BY <1>2, <1>3, <1>4 DEF F, I, Ok, B, N

\* The link of the free list overlays two fields of a client, also before it is
\* handed out again.
LEMMA LinkedTyped == ASSUME NEW m \in Client PROVE Linked(m) \in Client
<1>1. garbage \in Fd \cup {garbage} /\ 0 \in Int
  OBVIOUS
<1> QED  BY <1>1, FieldsStored, Zenon DEF Linked

\* Pages come zeroed.
LEMMA ZeroedTyped == Zeroed \in Client
<1>1. 0 \in Fd
  BY SocketsAssumption DEF Fd
<1> QED  BY <1>1 DEF Zeroed, Client, Byte

\* What session_new returns holds a client, whatever was left in it.
LEMMA RecycledTyped ==
  ASSUME NEW c \in Chunk, mem \in [Chunk -> Client]
  PROVE  Recycled(c) \in Client
<1> DEFINE m == IF region[PoolOf(c)] = "mapped" THEN mem[c] ELSE Zeroed
           fd == IF free'[PoolOf(c)] = <<>> THEN 0 ELSE garbage
<1>1. m \in Client /\ fd \in Fd \cup {garbage}
  BY ZeroedTyped, SocketsAssumption DEF Fd
<1>2. Recycled(c) = [m EXCEPT !.fd = fd]
  BY DEF Recycled
<1> HIDE DEF m, fd
<1>3. [m EXCEPT !.fd = fd] \in Client
  <2>1. 0 \in Int
    OBVIOUS
  <2> QED  BY <1>1, <2>1, FieldsStored, Zenon
<1> QED  BY <1>2, <1>3

\* What server_handle sets.
LEMMA SetUpFilled ==
  ASSUME NEW m \in Client, sock \in Fd
  PROVE  SetUp(m) \in Client /\ SetUp(m).fd = sock /\ Filled(SetUp(m))
<1>1. SetUp(m) \in Client
  <2>1. sock \in Fd \cup {garbage} /\ 0 \in Int /\ FALSE \in BOOLEAN
    OBVIOUS
  <2> QED  BY <2>1, FieldsStored, Zenon DEF SetUp
<1> DEFINE n == SetUp(m)
<1>2. n = [m EXCEPT !.fd = sock, !.buf_used = 0, !.name_used = 0, !.name_ok = FALSE]
  BY DEF SetUp
<1> HIDE DEF n
<1>3. n.fd = sock /\ n.buf_used = 0 /\ n.name_used = 0 /\ n.name_ok = FALSE
  BY <1>2 DEF Client
<1>4. Filled(n)
  BY <1>3, ServerAssumption DEF Filled
<1> QED  BY <1>1, <1>3, <1>4 DEF n

-----------------------------------------------------------------------------
(***************************************************************************)
(* Closing.                                                                *)
(***************************************************************************)

\* Writes change what a reset did to a socket, and may end the process.
LEMMA WritesTyped ==
  ASSUME KernelTypes, NEW n, MakeWrites(n)
  PROVE  err' \in [Conn -> {"ok", "reset", "pipe"}] /\ killed' \in BOOLEAN
BY DEF KernelTypes, MakeWrites, ErrAfterWrites, WritesFatal

\* The file behind a descriptor is not the listening socket, which has none here.
LEMMA FileOfConn ==
  ASSUME KernelTypes, NEW fd
  PROVE  /\ FileOf(fd) \in Conn \cup {"free", "stdin"} /\ FileOf(fd) # serv
         /\ FileOf(fd) \in Conn => fd \in Fd /\ fdt[fd] = FileOf(fd)
BY SocketsAssumption DEF KernelTypes, FileOf

\* close leaves the kernel's tables in order: an open descriptor's file is no other
\* descriptor's and not in the queue, and its event leaves epoll's list with it.
LEMMA CloseKeepsKernel ==
  ASSUME KernelInv, NEW fd, CloseFd(fd), UNCHANGED <<queue, sent, fin>>,
         rx' \in [Conn -> Seq(Bytes)], err' \in [Conn -> {"ok", "reset", "pipe"}]
  PROVE  KernelInv'
<1> DEFINE f == FileOf(fd)
<1>1. /\ f \in Conn \cup {"free", "stdin"} /\ f # serv
      /\ f \in Conn => fd \in Fd /\ fdt[fd] = f
  BY FileOfConn DEF KernelInv
<1> HIDE DEF f
<1>2. /\ fdt'   = [n \in Fd |-> IF n = fd THEN "free" ELSE fdt[n]]
      /\ stage' = [s \in Conn |-> IF s = f THEN "closed" ELSE stage[s]]
      /\ reg'   = [g \in File |-> IF g = f THEN nil ELSE reg[g]]
      /\ ready' = Kept(ready, File \ {f})
  BY DEF CloseFd, f
<1>3. KeptSoFar(ready, File \ {f}, File, ready', Len(ready))
  BY <1>2, KeptProperties DEF KernelInv, KernelTypes
<1>4. KernelTypes'
  <2>1. ready' \in Seq(File)
    BY <1>3 DEF KeptSoFar
  <2>2. stage' \in [Conn -> Stage]
    BY <1>2 DEF KernelInv, KernelTypes, Stage
  <2>3. fdt' \in [Fd -> Conn \cup {"free", "stdin"}]
    BY <1>2 DEF KernelInv, KernelTypes
  <2>4. reg' \in [File -> Chunk \cup {nil, serv}]
    BY <1>2 DEF KernelInv, KernelTypes
  <2> QED  BY <2>1, <2>2, <2>3, <2>4 DEF KernelInv, KernelTypes
<1>5. QueueWaits'
  <2>1. ASSUME NEW i \in 1 .. Len(queue) PROVE stage'[queue[i]] = "queued"
    <3>1. queue[i] \in Conn /\ stage[queue[i]] = "queued"
      BY ElementOfSeq DEF KernelInv, KernelTypes, QueueWaits
    <3>2. queue[i] # f
      BY <3>1, <1>1 DEF KernelInv, FilesOpen
    <3> QED  BY <3>1, <3>2, <1>2
  <2> QED  BY <2>1 DEF KernelInv, QueueWaits, NoDuplicates
<1>6. FilesOpen'
  <2>1. ASSUME NEW n \in Fd, fdt'[n] \in Conn
        PROVE  n # fd /\ fdt'[n] = fdt[n] /\ fdt[n] # f
    <3>1. n # fd /\ fdt'[n] = fdt[n]
      BY <2>1, <1>2, SocketsAssumption
    <3> QED  BY <2>1, <3>1, <1>1 DEF KernelInv, FilesOpen
  <2>2. ASSUME NEW n \in Fd, fdt'[n] \in Conn PROVE stage'[fdt'[n]] = "open"
    BY <2>1, <2>2, <1>2 DEF KernelInv, FilesOpen
  <2>3. ASSUME NEW n \in Fd, NEW k \in Fd, fdt'[n] \in Conn, fdt'[n] = fdt'[k]
        PROVE  n = k
    BY <2>1, <2>3 DEF KernelInv, FilesOpen
  <2> QED  BY <2>2, <2>3 DEF FilesOpen
<1>7. ReadyRegistered'
  <2>1. ASSUME NEW i \in 1 .. Len(ready') PROVE reg'[ready'[i]] # nil
    <3>1. PICK j \in 1 .. Len(ready) : ready'[i] = ready[j]
      BY <1>3 DEF KeptSoFar
    <3>2. ready'[i] \in File \ {f}
      BY <1>3 DEF KeptSoFar
    <3> QED  BY <3>1, <3>2, <1>2 DEF KernelInv, ReadyRegistered
  <2>2. NoDuplicates(ready')
    BY <1>3 DEF KeptSoFar, KernelInv, ReadyRegistered, NoDuplicates
  <2> QED  BY <2>1, <2>2 DEF ReadyRegistered, NoDuplicates
<1> QED  BY <1>4, <1>5, <1>6, <1>7 DEF KernelInv

\* session_close ends one session and nothing else: the other sessions keep their
\* memory, also when a pool is unmapped, and their sockets stay registered.
LEMMA ClosingKeeps ==
  ASSUME SInv, NEW c, NEW m \in Client, NEW own, NEW all,
         Closing(c, m, own, all), m.fd = mem[c].fd,
         pc = "epoll_ctl" => c = cur, pc' # "epoll_ctl",
         UNCHANGED <<queue, sent, fin>>, rx' \in [Conn -> Seq(Bytes)]
  PROVE  /\ IInv' /\ killed' \in BOOLEAN
         /\ KernelInv' /\ RegisteredSessions' /\ MemoryInv'
         /\ LiveChunks' = LiveChunks \ {c} /\ LiveChunks' \subseteq Chunk
         /\ Sessions' = Sessions \ {c}
         /\ \A d \in Sessions' : d \in Sessions /\ d \in Chunk /\ mem'[d] = mem[d]
<1>1. IInv'
  BY ClosingUsesPools, NextIInv DEF SInv
<1>2. Allocator!session_close(c)
  BY <1>1, CloseImplements DEF SInv, Closing
<1>3. c \in LiveChunks /\ LiveChunks' = LiveChunks \ {c}
  BY <1>2 DEF Allocator!session_close
<1>4. Sessions' = LiveChunks' /\ Sessions' = Sessions \ {c}
  BY <1>3 DEF Sessions
<1>5. \A d \in LiveChunks' : d \in Chunk /\ region'[PoolOf(d)] = "mapped"
  BY <1>1, LiveMappedNext DEF LiveInMapped
<1>6. mem' = [d \in Chunk |-> IF region'[PoolOf(d)] # "mapped" THEN Zeroed
                              ELSE IF d = c THEN Linked(m) ELSE mem[d]]
  BY DEF Closing
<1>7. \A d \in Sessions' : d \in Sessions /\ d \in Chunk /\ mem'[d] = mem[d]
  BY <1>3, <1>4, <1>5, <1>6
<1>8. MemoryInv'
  <2>1. Zeroed \in Client
    BY ZeroedTyped
  <2>2. Linked(m) \in Client
    BY LinkedTyped
  <2>3. mem' \in [Chunk -> Client]
    BY <1>6, <2>1, <2>2 DEF SInv, MemoryInv
  <2> QED  BY <1>7, <2>3 DEF SInv, MemoryInv
<1>9. CloseFd(m.fd) /\ err' \in [Conn -> {"ok", "reset", "pipe"}] /\ killed' \in BOOLEAN
  BY WritesTyped DEF Closing, CloseClient, SInv, KernelInv
<1>10. KernelInv'
  BY <1>9, CloseKeepsKernel DEF SInv
<1>11. RegisteredSessions'
  <2> DEFINE f == FileOf(m.fd)
  <2>1. reg' = [g \in File |-> IF g = f THEN nil ELSE reg[g]]
    BY <1>9 DEF CloseFd
  <2>2. fdt' = [n \in Fd |-> IF n = m.fd THEN "free" ELSE fdt[n]]
    BY <1>9 DEF CloseFd
  <2>3. reg'[serv] \in {nil, serv}
    BY <2>1 DEF SInv, RegisteredSessions, File
  <2>4. ASSUME NEW s \in Conn, reg'[s] # nil
        PROVE  reg'[s] \in Sessions' /\ FileOf(mem[reg[s]].fd)' = s
    <3>1. s # f /\ reg'[s] = reg[s] /\ reg[s] # nil
      BY <2>1, <2>4 DEF File
    <3>2. reg[s] \in Sessions /\ FileOf(mem[reg[s]].fd) = s
      BY <3>1 DEF SInv, RegisteredSessions
    <3>3. reg[s] # c
      BY <3>1, <3>2
    <3>4. reg'[s] \in Sessions' /\ mem'[reg'[s]] = mem[reg[s]]
      BY <3>1, <3>2, <3>3, <1>4, <1>7
    <3> DEFINE n == mem[reg[s]].fd
    <3>5. n \in Fd /\ fdt[n] = s
      BY <3>2, FileOfConn DEF SInv, KernelInv
    <3>6. n # m.fd
      BY <3>1, <3>2
    <3>7. fdt'[n] = s
      BY <3>5, <3>6, <2>2
    <3> QED  BY <3>2, <3>4, <3>5, <3>7 DEF FileOf
  <2> QED  BY <2>3, <2>4 DEF RegisteredSessions
<1> QED  BY <1>1, <1>3, <1>4, <1>5, <1>7, <1>8, <1>9, <1>10, <1>11

\* The handler of a client closes its session and the next handler starts.
LEMMA ClosesAndReturns ==
  ASSUME SInv, pc \in {"name_read", "line_read"},
         NEW m \in Client, NEW own, NEW all, Closing(cur, m, own, all), m.fd = mem[cur].fd,
         UNCHANGED <<queue, sent, fin, sock>>, rx' \in [Conn -> Seq(Bytes)], Return
  PROVE  SInv'
<1>1. pc # "epoll_ctl" /\ pc' # "epoll_ctl"
  BY DEF Return, HandleNext
<1>2. /\ IInv' /\ killed' \in BOOLEAN
      /\ KernelInv' /\ RegisteredSessions' /\ MemoryInv'
      /\ LiveChunks' = LiveChunks \ {cur} /\ LiveChunks' \subseteq Chunk
  BY <1>1, ClosingKeeps
<1>3. /\ evt \in Seq(Chunk \cup {serv}) /\ Len(evt) <= max_events /\ NoDuplicates(evt)
      /\ \A i \in 1 .. Len(evt) : evt[i] # serv => evt[i] \in LiveChunks /\ evt[i] # cur
  BY <1>1 DEF SInv, ThreadInv, ThreadTypes, EventsPending, HandlerReads, Sessions
<1>4. ThreadInv'
  BY <1>2, <1>3, HandlerStarts DEF Return
<1> QED  BY <1>1, <1>2, <1>4 DEF SInv, HandlerAccepts

-----------------------------------------------------------------------------
(***************************************************************************)
(* Reading.                                                                *)
(***************************************************************************)

\* A read that reports data is one from a socket, of more than 0 bytes.
LEMMA DataFromSocket ==
  ASSUME NEW fd, NEW count, ReadResult(fd, count) = "data"
  PROVE  FileOf(fd) \in Conn /\ count # 0
BY DEF ReadResult

\* A read returns at most as many bytes as it asked for, and leaves the others.
LEMMA BytesRead ==
  ASSUME KernelTypes, NEW count \in Nat, FileOf(mem[cur].fd) \in Conn
  PROVE  /\ ReadBytes(count) \in Seq(Bytes) /\ Len(ReadBytes(count)) \in 0 .. count
         /\ Consume(count) => rx' \in [Conn -> Seq(Bytes)]
<1> DEFINE s == FileOf(mem[cur].fd)
           q == rx[s]
           n == ReadLen(s, count)
<1>1. q \in Seq(Bytes) /\ Len(q) \in Nat /\ \A i \in 1 .. Len(q) : q[i] \in Bytes
  BY LenProperties, ElementOfSeq DEF KernelTypes
<1>2. n \in 0 .. count /\ n <= Len(q)
  BY <1>1 DEF ReadLen
<1>3. ReadBytes(count) = SubSeq(q, 1, n)
  BY DEF ReadBytes
<1>4. Consume(count) => rx' = [rx EXCEPT ![s] = SubSeq(q, n + 1, Len(q))]
  BY DEF Consume
<1> HIDE DEF q, n
<1>5. SubSeq(q, 1, n) \in Seq(Bytes) /\ Len(SubSeq(q, 1, n)) \in 0 .. count
  BY <1>1, <1>2, SubSeqProperties
<1>6. SubSeq(q, n + 1, Len(q)) \in Seq(Bytes)
  BY <1>1, <1>2, SubSeqProperties
<1> QED  BY <1>3, <1>4, <1>5, <1>6 DEF KernelTypes

\* read stores in the array it is given, whatever the offset.
LEMMA StoredTyped ==
  ASSUME NEW n \in Nat, NEW a \in [1 .. n -> Byte], NEW k \in Int, NEW bytes \in Seq(Bytes)
  PROVE  Stored(a, k, bytes) \in [1 .. n -> Byte]
<1>1. \A i \in DOMAIN bytes : bytes[i] \in Byte
  BY LenProperties, ElementOfSeq DEF Byte
<1> QED  BY <1>1 DEF Stored

\* What session_name_read stores stays in name if its test finds that it fits.
LEMMA NameStoredFilled ==
  ASSUME KernelTypes, mem \in [Chunk -> Client], cur \in Chunk,
         NameRead("data"), off \in 0 .. max_name_len
  PROVE  LET m == mem[cur]
             n == NameStored(m)
         IN  /\ n \in Client /\ n.fd = m.fd /\ n.name_ok = m.name_ok
             /\ n.buf_used = m.buf_used /\ n.name_used >= m.name_used
             /\ Consume(max_name_len - off) => rx' \in [Conn -> Seq(Bytes)]
<1> DEFINE m == mem[cur]
           bytes == ReadBytes(max_name_len - off)
           stored == Stored(m.name, off, bytes)
           n == NameStored(m)
<1>1. FileOf(m.fd) \in Conn /\ max_name_len - off \in Nat
  BY DataFromSocket, ServerAssumption DEF NameRead
<1>2. /\ bytes \in Seq(Bytes) /\ Len(bytes) \in Nat
      /\ Consume(max_name_len - off) => rx' \in [Conn -> Seq(Bytes)]
  BY <1>1, BytesRead
<1>3. m \in Client
  OBVIOUS
<1>4. n = [m EXCEPT !.name = stored, !.name_used = m.name_used + Len(bytes)]
  BY <1>3 DEF NameStored, Client
<1> HIDE DEF m, bytes
<1>5. m.name \in [1 .. max_name_len -> Byte] /\ m.name_used \in Int
  BY <1>3 DEF Client
<1>6. stored \in [1 .. max_name_len -> Byte] /\ m.name_used + Len(bytes) \in Int
  BY <1>2, <1>5, StoredTyped, ServerAssumption
<1> HIDE DEF stored, n
<1>7. n \in Client
  BY <1>3, <1>4, <1>6, FieldsStored, Zenon
<1>8. /\ n.fd = m.fd /\ n.name_ok = m.name_ok /\ n.buf_used = m.buf_used
      /\ n.name_used = m.name_used + Len(bytes)
  BY <1>3, <1>4 DEF Client
<1>9. n.name_used >= m.name_used
  BY <1>2, <1>5, <1>8
<1> QED  BY <1>2, <1>7, <1>8, <1>9 DEF m, n

\* What session_line_read stores, likewise.
LEMMA LineStoredFilled ==
  ASSUME KernelTypes, mem \in [Chunk -> Client], cur \in Chunk,
         LineRead("data"), off \in 0 .. max_line_len
  PROVE  LET m == mem[cur]
             n == LineStored(m)
         IN  /\ n \in Client /\ n.fd = m.fd /\ n.name_ok = m.name_ok
             /\ n.name_used = m.name_used /\ n.name = m.name /\ n.buf_used >= m.buf_used
             /\ Consume(max_line_len - off) => rx' \in [Conn -> Seq(Bytes)]
<1> DEFINE m == mem[cur]
           bytes == ReadBytes(max_line_len - off)
           stored == Stored(m.buf, off, bytes)
           n == LineStored(m)
<1>1. FileOf(m.fd) \in Conn /\ max_line_len - off \in Nat
  BY DataFromSocket, ServerAssumption DEF LineRead
<1>2. /\ bytes \in Seq(Bytes) /\ Len(bytes) \in Nat
      /\ Consume(max_line_len - off) => rx' \in [Conn -> Seq(Bytes)]
  BY <1>1, BytesRead
<1>3. m \in Client
  OBVIOUS
<1>4. n = [m EXCEPT !.buf = stored, !.buf_used = m.buf_used + Len(bytes)]
  BY <1>3 DEF LineStored, Client
<1> HIDE DEF m, bytes
<1>5. m.buf \in [1 .. max_line_len -> Byte] /\ m.buf_used \in Int
  BY <1>3 DEF Client
<1>6. stored \in [1 .. max_line_len -> Byte] /\ m.buf_used + Len(bytes) \in Int
  BY <1>2, <1>5, StoredTyped, ServerAssumption
<1> HIDE DEF stored, n
<1>7. n \in Client
  BY <1>3, <1>4, <1>6, FieldsStored, Zenon
<1>8. /\ n.fd = m.fd /\ n.name_ok = m.name_ok /\ n.name_used = m.name_used
      /\ n.name = m.name /\ n.buf_used = m.buf_used + Len(bytes)
  BY <1>3, <1>4 DEF Client
<1>9. n.buf_used >= m.buf_used
  BY <1>2, <1>5, <1>8
<1> QED  BY <1>2, <1>7, <1>8, <1>9 DEF m, n

\* A name ends before a byte of the array, which becomes its NUL.
LEMMA NamedFilled ==
  ASSUME NEW m \in Client, Filled(m), NEW i \in NamePos(m)
  PROVE  LET n == Named(m, i)
         IN  n \in Client /\ Filled(n) /\ n.fd = m.fd /\ n.name_ok
<1> DEFINE n == Named(m, i)
           name == [m.name EXCEPT ![i] = "nul"]
<1>1. m.name \in [1 .. max_name_len -> Byte] /\ m.name_used \in 0 .. max_name_len
  BY DEF Client, Filled
<1>2. i \in 1 .. m.name_used /\ i \in 1 .. max_name_len
  BY <1>1, ServerAssumption DEF NamePos
<1>3. n = [m EXCEPT !.name = name, !.name_ok = TRUE, !.name_used = i - 1]
  <2> DEFINE F == Fd \cup {garbage}
             I == Int
             Ok == BOOLEAN
             B == [1 .. max_line_len -> Byte]
             N == [1 .. max_name_len -> Byte]
  <2>1. m \in [fd : F, buf_used : I, name_used : I, name_ok : Ok, buf : B, name : N]
    BY DEF Client
  <2> HIDE DEF F, I, Ok, B, N
  <2>2. Named(m, i) = [m EXCEPT !.name = [m.name EXCEPT ![i] = "nul"], !.name_ok = TRUE,
                                !.name_used = i - 1]
    BY <2>1, Zenon DEF Named
  <2> QED  BY <2>2
<1>4. /\ name \in [1 .. max_name_len -> Byte] /\ name[i] = "nul"
      /\ i - 1 \in Int /\ TRUE \in BOOLEAN
  <2> DEFINE a == m.name
  <2>1. "nul" \in Byte /\ a \in [1 .. max_name_len -> Byte]
    BY <1>1 DEF Byte
  <2> HIDE DEF a
  <2>2. [a EXCEPT ![i] = "nul"] \in [1 .. max_name_len -> Byte] /\ [a EXCEPT ![i] = "nul"][i] = "nul"
    BY <1>2, <2>1
  <2> QED  BY <1>2, <2>2 DEF a
<1> HIDE DEF name, n
<1>5. n \in Client
  BY <1>3, <1>4, FieldsStored, Zenon
<1>6. /\ n.fd = m.fd /\ n.name_ok = TRUE /\ n.name_used = i - 1 /\ n.name = name
      /\ n.buf_used = m.buf_used
  BY <1>3 DEF Client
<1>7. n.name_used \in 0 .. max_name_len /\ n.name_used < max_name_len
      /\ n.name[n.name_used + 1] = "nul"
  BY <1>2, <1>4, <1>6, ServerAssumption
<1> QED  BY <1>5, <1>6, <1>7 DEF Filled, n

\* A line goes out of the buffer, what follows it moves to the front.
LEMMA LineSentFilled ==
  ASSUME NEW m \in Client, Filled(m)
  PROVE  LET n == LineSent(m)
         IN  n \in Client /\ Filled(n) /\ n.fd = m.fd /\ n.name_ok = m.name_ok
<1> DEFINE n == LineSent(m)
<1>1. CASE LinePos(m) = {}
  BY <1>1 DEF LineSent
<1>2. CASE LinePos(m) # {}
  <2> DEFINE i == CHOOSE i \in LinePos(m) : TRUE
             buf == Moved(m.buf, i, m.buf_used - i)
  <2>1. m.buf \in [1 .. max_line_len -> Byte] /\ m.buf_used \in 0 .. max_line_len
    BY DEF Client, Filled
  <2>2. i \in 1 .. m.buf_used
    BY <1>2 DEF LinePos
  <2>3. n = [m EXCEPT !.buf = buf, !.buf_used = m.buf_used - i]
    BY <1>2 DEF LineSent, Client
  <2> HIDE DEF i
  <2>4. buf \in [1 .. max_line_len -> Byte] /\ m.buf_used - i \in Int
    <3> DEFINE a == m.buf
               k == m.buf_used - i
    <3>1. k \in Int /\ \A j \in 1 .. max_line_len : j <= k => j + i \in 1 .. max_line_len
      BY <2>1, <2>2, ServerAssumption
    <3>2. a \in [1 .. max_line_len -> Byte]
      BY <2>1
    <3> HIDE DEF a, k
    <3>3. Moved(a, i, k) \in [1 .. max_line_len -> Byte]
      BY <3>1, <3>2 DEF Moved
    <3> QED  BY <3>1, <3>3 DEF a, k
  <2> HIDE DEF buf, n
  <2>5. n \in Client
    BY <2>3, <2>4, FieldsStored, Zenon
  <2>6. /\ n.fd = m.fd /\ n.name_ok = m.name_ok /\ n.name_used = m.name_used
        /\ n.name = m.name /\ n.buf_used = m.buf_used - i
    BY <2>3 DEF Client
  <2>7. n.buf_used \in 0 .. max_line_len
    BY <2>1, <2>2, <2>6, ServerAssumption
  <2> QED  BY <2>5, <2>6, <2>7 DEF Filled, n
<1> QED  BY <1>1, <1>2

-----------------------------------------------------------------------------
(***************************************************************************)
(* Steps of a handler that keep its session.                               *)
(***************************************************************************)

\* What leaves the pools alone keeps their clients.
LEMMA PoolsSame ==
  ASSUME IInv, UNCHANGED poolVars
  PROVE  IInv' /\ LiveChunks' = LiveChunks
<1>1. IInv'
  BY NextIInv
<1>2. LiveChunks' = LiveChunks
  BY DEF poolVars, LiveChunks
<1> QED  BY <1>1, <1>2

\* Bytes may be read and writes be made without disturbing the kernel's tables.
LEMMA KernelSame ==
  ASSUME KernelInv, UNCHANGED <<stage, fdt, queue, sent, fin, reg, ready>>,
         rx' \in [Conn -> Seq(Bytes)], err' \in [Conn -> {"ok", "reset", "pipe"}]
  PROVE  KernelInv'
BY DEF KernelInv, KernelTypes, QueueWaits, FilesOpen, ReadyRegistered, NoDuplicates

\* The sockets of the sessions are told by their clients' memory alone.
LEMMA RegisteredSame ==
  ASSUME RegisteredSessions, UNCHANGED <<fdt, reg>>, Sessions \subseteq Sessions',
         \A c \in Sessions : mem'[c].fd = mem[c].fd
  PROVE  RegisteredSessions'
<1>1. ASSUME NEW s \in Conn, reg'[s] # nil
      PROVE  reg'[s] \in Sessions' /\ FileOf(mem[reg[s]].fd)' = s
  <2>1. reg[s] \in Sessions /\ FileOf(mem[reg[s]].fd) = s /\ reg'[s] = reg[s]
    BY <1>1 DEF RegisteredSessions
  <2>2. mem'[reg'[s]].fd = mem[reg[s]].fd
    BY <2>1
  <2> QED  BY <2>1, <2>2 DEF FileOf
<1> QED  BY <1>1 DEF RegisteredSessions

\* A handler that changes the memory of its own client, reads and writes.
LEMMA ClientUpdated ==
  ASSUME SInv, pc \in {"name_read", "line_read"}, pc' # "epoll_ctl", UNCHANGED poolVars,
         UNCHANGED <<stage, fdt, queue, sent, fin, reg, ready>>,
         rx' \in [Conn -> Seq(Bytes)], err' \in [Conn -> {"ok", "reset", "pipe"}],
         NEW m \in Client, Filled(m), m.fd = mem[cur].fd, mem' = [mem EXCEPT ![cur] = m]
  PROVE  /\ IInv' /\ KernelInv' /\ RegisteredSessions' /\ MemoryInv'
         /\ LiveChunks' = LiveChunks /\ LiveChunks' \subseteq Chunk
         /\ cur \in LiveChunks /\ mem'[cur] = m
<1>1. IInv' /\ LiveChunks' = LiveChunks
  BY PoolsSame DEF SInv
<1>2. Sessions' = LiveChunks /\ Sessions = LiveChunks
  BY <1>1 DEF Sessions
<1>3. KernelInv'
  BY KernelSame DEF SInv
<1>4. LiveChunks \subseteq Chunk
  BY LiveMapped DEF SInv, LiveInMapped
<1>5. cur \in LiveChunks
  BY DEF SInv, ThreadInv, HandlerReads
<1>6. mem \in [Chunk -> Client]
  BY DEF SInv, MemoryInv
<1>7. \A c \in Chunk : mem'[c] = IF c = cur THEN m ELSE mem[c]
  BY <1>4, <1>5, <1>6
<1>8. MemoryInv'
  <2>1. mem' \in [Chunk -> Client]
    BY <1>6
  <2> QED  BY <2>1, <1>2, <1>4, <1>7 DEF SInv, MemoryInv
<1>9. RegisteredSessions'
  BY <1>2, <1>4, <1>7, RegisteredSame DEF SInv
<1> QED  BY <1>1, <1>3, <1>4, <1>5, <1>7, <1>8, <1>9

\* A handler reads once more.
LEMMA ReadsOn ==
  ASSUME SInv, pc \in {"name_read", "line_read"}, ReadOn, UNCHANGED <<sock, killed>>,
         UNCHANGED poolVars, UNCHANGED <<stage, fdt, queue, sent, fin, err, reg, ready>>,
         rx' \in [Conn -> Seq(Bytes)],
         NEW m \in Client, Filled(m), m.fd = mem[cur].fd, mem' = [mem EXCEPT ![cur] = m],
         m.name_ok = mem[cur].name_ok,
         m.name_used >= mem[cur].name_used, m.buf_used >= mem[cur].buf_used
  PROVE  SInv'
<1>0. pc' = pc /\ pc' # "epoll_ctl" /\ UNCHANGED <<evt, cur, off>>
  BY DEF ReadOn
<1>1. /\ IInv' /\ KernelInv' /\ RegisteredSessions' /\ MemoryInv'
      /\ LiveChunks' = LiveChunks /\ cur \in LiveChunks /\ mem'[cur] = m
  <2>1. err' \in [Conn -> {"ok", "reset", "pipe"}]
    BY DEF SInv, KernelInv, KernelTypes
  <2> QED  BY <1>0, <2>1, ClientUpdated
<1>2. Sessions' = LiveChunks' /\ Sessions = LiveChunks
  BY <1>0 DEF Sessions
<1>3. EventsPending'
  BY <1>0, <1>1, <1>2 DEF SInv, ThreadInv, EventsPending, NoDuplicates
<1>4. HandlerReads'
  <2>1. mem[cur] \in Client
    BY <1>1, LiveMapped DEF SInv, MemoryInv, LiveInMapped
  <2>2. mem[cur].name_used \in Int /\ mem[cur].buf_used \in Int
        /\ m.name_used \in Int /\ m.buf_used \in Int
    BY <2>1 DEF Client
  <2>3. pc = "name_read" => /\ ~ m.name_ok /\ off \in 0 .. max_name_len
                            /\ off <= m.name_used
    BY <2>2, ServerAssumption DEF SInv, ThreadInv, HandlerReads
  <2>4. pc = "line_read" => /\ m.name_ok /\ off \in 0 .. max_line_len
                            /\ off <= m.buf_used
    BY <2>2, ServerAssumption DEF SInv, ThreadInv, HandlerReads
  <2>5. \A i \in 1 .. Len(evt) : evt[i] # cur
    BY DEF SInv, ThreadInv, HandlerReads
  <2> QED  BY <1>0, <1>1, <2>3, <2>4, <2>5 DEF HandlerReads
<1>5. ThreadTypes'
  BY <1>0 DEF SInv, ThreadInv, ThreadTypes
<1>6. HandlerAccepts'
  BY <1>0 DEF SInv, HandlerAccepts
<1> QED  BY <1>1, <1>3, <1>4, <1>5, <1>6 DEF SInv, ThreadInv

\* A handler returns and the next one starts.
LEMMA UpdatesAndReturns ==
  ASSUME SInv, pc \in {"name_read", "line_read"}, Return, UNCHANGED sock,
         UNCHANGED poolVars, UNCHANGED <<stage, fdt, queue, rx, sent, fin, reg, ready>>,
         err' \in [Conn -> {"ok", "reset", "pipe"}], killed' \in BOOLEAN,
         NEW m \in Client, Filled(m), m.fd = mem[cur].fd, mem' = [mem EXCEPT ![cur] = m]
  PROVE  SInv'
<1>0. pc' # "epoll_ctl" /\ pc # "epoll_ctl"
  BY DEF Return, HandleNext
<1>1. /\ IInv' /\ KernelInv' /\ RegisteredSessions' /\ MemoryInv'
      /\ LiveChunks' = LiveChunks /\ LiveChunks' \subseteq Chunk
  <2>1. rx' \in [Conn -> Seq(Bytes)]
    BY DEF SInv, KernelInv, KernelTypes
  <2> QED  BY <1>0, <2>1, ClientUpdated
<1>2. /\ evt \in Seq(Chunk \cup {serv}) /\ Len(evt) <= max_events /\ NoDuplicates(evt)
      /\ \A i \in 1 .. Len(evt) : evt[i] # serv => evt[i] \in LiveChunks
  BY <1>0 DEF SInv, ThreadInv, ThreadTypes, EventsPending, Sessions
<1>3. ThreadInv'
  BY <1>1, <1>2, HandlerStarts DEF Return
<1> QED  BY <1>0, <1>1, <1>3 DEF SInv, HandlerAccepts

-----------------------------------------------------------------------------
(***************************************************************************)
(* session_name_read and session_line_read.                                *)
(***************************************************************************)

\* The client of a running handler is there.
LEMMA Reader ==
  ASSUME SInv, pc \in {"name_read", "line_read"}
  PROVE  /\ cur \in Chunk /\ cur \in Sessions /\ mem \in [Chunk -> Client]
         /\ mem[cur] \in Client /\ Filled(mem[cur]) /\ KernelTypes
         /\ rx \in [Conn -> Seq(Bytes)] /\ err \in [Conn -> {"ok", "reset", "pipe"}]
<1>1. cur \in LiveChunks /\ cur \in Chunk
  BY LiveMapped DEF SInv, ThreadInv, HandlerReads, LiveInMapped
<1>2. cur \in Sessions
  BY <1>1 DEF Sessions
<1> QED  BY <1>1, <1>2 DEF SInv, MemoryInv, KernelInv, KernelTypes

\* The bytes stored in name stay inside the array, and name_used inside its bound.
LEMMA NameReadMoreStep == SInv /\ name_read_more => SInv'
<1> SUFFICES ASSUME SInv, name_read_more PROVE SInv'
  OBVIOUS
<1> DEFINE n == NameStored(mem[cur])
<1>1. NameRead("data") /\ pc = "name_read"
  BY DEF name_read_more, NameRead
<1>2. /\ cur \in Chunk /\ mem \in [Chunk -> Client]
      /\ mem[cur] \in Client /\ Filled(mem[cur]) /\ KernelTypes
  BY <1>1, Reader
<1>3. off \in 0 .. max_name_len
  BY <1>1 DEF SInv, ThreadInv, HandlerReads
<1>4. /\ n \in Client /\ n.fd = mem[cur].fd /\ n.name_ok = mem[cur].name_ok
      /\ n.buf_used = mem[cur].buf_used /\ n.name_used >= mem[cur].name_used
      /\ rx' \in [Conn -> Seq(Bytes)]
  BY <1>1, <1>2, <1>3, NameStoredFilled DEF name_read_more
<1>5. n.name_used <= max_name_len /\ mem' = [mem EXCEPT ![cur] = n]
  BY DEF name_read_more, NameFits
<1>6. ~ mem[cur].name_ok
  BY <1>1 DEF SInv, ThreadInv, HandlerReads
<1>7. /\ ReadOn /\ UNCHANGED <<sock, killed>> /\ UNCHANGED poolVars
      /\ UNCHANGED <<stage, fdt, queue, sent, fin, err, reg, ready>>
  BY DEF name_read_more
<1> HIDE DEF n
<1>8. n.name_used \in Int /\ n.buf_used \in Int /\ mem[cur].buf_used \in Int
      /\ mem[cur].name_used \in Int
  BY <1>2, <1>4 DEF Client
<1>9. Filled(n) /\ n.buf_used >= mem[cur].buf_used
  BY <1>2, <1>4, <1>5, <1>6, <1>8, ServerAssumption DEF Filled
<1> QED  BY <1>1, <1>4, <1>5, <1>7, <1>9, ReadsOn

\* A name that fills the array closes the session.
LEMMA NameReadTooLongStep == SInv /\ name_read_too_long => SInv'
<1> SUFFICES ASSUME SInv, name_read_too_long PROVE SInv'
  OBVIOUS
<1> DEFINE n == NameStored(mem[cur])
<1>1. NameRead("data") /\ pc = "name_read"
  BY DEF name_read_too_long, NameRead
<1>2. cur \in Chunk /\ mem \in [Chunk -> Client] /\ KernelTypes
  BY <1>1, Reader
<1>3. off \in 0 .. max_name_len
  BY <1>1 DEF SInv, ThreadInv, HandlerReads
<1>4. n \in Client /\ n.fd = mem[cur].fd /\ rx' \in [Conn -> Seq(Bytes)]
  BY <1>1, <1>2, <1>3, NameStoredFilled DEF name_read_too_long
<1>5. Closing(cur, n, 1, 0) /\ Return /\ UNCHANGED <<queue, sent, fin, sock>>
  BY DEF name_read_too_long
<1> HIDE DEF n
<1> QED  BY <1>1, <1>4, <1>5, ClosesAndReturns

\* The end of the stream or an error closes the session.
LEMMA NameReadClosesStep == SInv /\ name_read_closes => SInv'
<1> SUFFICES ASSUME SInv, name_read_closes PROVE SInv'
  OBVIOUS
<1>1. pc = "name_read"
  BY DEF name_read_closes, NameEnds, NameRead
<1>2. mem[cur] \in Client /\ rx \in [Conn -> Seq(Bytes)]
  BY <1>1, Reader
<1>3. Closing(cur, mem[cur], 0, 0) /\ Return /\ UNCHANGED <<queue, rx, sent, fin, sock>>
  BY DEF name_read_closes
<1> QED  BY <1>1, <1>2, <1>3, ClosesAndReturns

\* A name that is complete gets its NUL, inside the array.
LEMMA NameReadDoneStep == SInv /\ name_read_done => SInv'
<1> SUFFICES ASSUME SInv, name_read_done PROVE SInv'
  OBVIOUS
<1>1. pc = "name_read"
  BY DEF name_read_done, NameRead
<1>2. /\ mem[cur] \in Client /\ Filled(mem[cur]) /\ cur \in Chunk
      /\ mem \in [Chunk -> Client] /\ KernelTypes
      /\ err \in [Conn -> {"ok", "reset", "pipe"}]
  BY <1>1, Reader
<1>3. /\ Return /\ UNCHANGED sock /\ UNCHANGED poolVars
      /\ UNCHANGED <<stage, fdt, queue, rx, sent, fin, reg, ready>>
  BY DEF name_read_done
<1>4. CASE UNCHANGED <<mem, err, killed>>
  <2>1. mem' = [mem EXCEPT ![cur] = mem[cur]]
    BY <1>2, <1>4
  <2>2. killed' \in BOOLEAN
    BY <1>4 DEF SInv
  <2> QED  BY <1>1, <1>2, <1>3, <1>4, <2>1, <2>2, UpdatesAndReturns
<1>5. ASSUME NEW i \in NamePos(mem[cur]),
             mem' = [mem EXCEPT ![cur] = Named(mem[cur], i)],
             MakeWrites(Writes(cur, 1, 1))
      PROVE  SInv'
  <2> DEFINE n == Named(mem[cur], i)
  <2>1. n \in Client /\ Filled(n) /\ n.fd = mem[cur].fd
    BY <1>2, NamedFilled
  <2>2. err' \in [Conn -> {"ok", "reset", "pipe"}] /\ killed' \in BOOLEAN
    BY <1>2, <1>5, WritesTyped
  <2>3. mem' = [mem EXCEPT ![cur] = n]
    BY <1>5
  <2> HIDE DEF n
  <2> QED  BY <1>1, <1>3, <2>1, <2>2, <2>3, UpdatesAndReturns
<1> QED  BY <1>4, <1>5 DEF name_read_done

\* The bytes stored in buf stay inside the array, and buf_used inside its bound.
LEMMA LineReadMoreStep == SInv /\ line_read_more => SInv'
<1> SUFFICES ASSUME SInv, line_read_more PROVE SInv'
  OBVIOUS
<1> DEFINE n == LineStored(mem[cur])
<1>1. LineRead("data") /\ pc = "line_read"
  BY DEF line_read_more, LineRead
<1>2. /\ cur \in Chunk /\ mem \in [Chunk -> Client]
      /\ mem[cur] \in Client /\ Filled(mem[cur]) /\ KernelTypes
  BY <1>1, Reader
<1>3. off \in 0 .. max_line_len
  BY <1>1 DEF SInv, ThreadInv, HandlerReads
<1>4. /\ n \in Client /\ n.fd = mem[cur].fd /\ n.name_ok = mem[cur].name_ok
      /\ n.name_used = mem[cur].name_used /\ n.name = mem[cur].name
      /\ n.buf_used >= mem[cur].buf_used /\ rx' \in [Conn -> Seq(Bytes)]
  BY <1>1, <1>2, <1>3, LineStoredFilled DEF line_read_more
<1>5. n.buf_used <= max_line_len /\ mem' = [mem EXCEPT ![cur] = n]
  BY DEF line_read_more
<1>6. /\ ReadOn /\ UNCHANGED <<sock, killed>> /\ UNCHANGED poolVars
      /\ UNCHANGED <<stage, fdt, queue, sent, fin, err, reg, ready>>
  BY DEF line_read_more
<1> HIDE DEF n
<1>7. n.name_used \in Int /\ n.buf_used \in Int /\ mem[cur].buf_used \in Int
      /\ mem[cur].name_used \in Int
  BY <1>2, <1>4 DEF Client
<1>8. Filled(n) /\ n.name_used >= mem[cur].name_used
  BY <1>2, <1>4, <1>5, <1>7, ServerAssumption DEF Filled
<1> QED  BY <1>1, <1>4, <1>5, <1>6, <1>8, ReadsOn

\* More than a buffer closes the session.
LEMMA LineReadTooLongStep == SInv /\ line_read_too_long => SInv'
<1> SUFFICES ASSUME SInv, line_read_too_long PROVE SInv'
  OBVIOUS
<1> DEFINE n == LineStored(mem[cur])
<1>1. LineRead("data") /\ pc = "line_read"
  BY DEF line_read_too_long, LineRead
<1>2. cur \in Chunk /\ mem \in [Chunk -> Client] /\ KernelTypes
  BY <1>1, Reader
<1>3. off \in 0 .. max_line_len
  BY <1>1 DEF SInv, ThreadInv, HandlerReads
<1>4. n \in Client /\ n.fd = mem[cur].fd /\ rx' \in [Conn -> Seq(Bytes)]
  BY <1>1, <1>2, <1>3, LineStoredFilled DEF line_read_too_long
<1>5. Closing(cur, n, 1, 0) /\ Return /\ UNCHANGED <<queue, sent, fin, sock>>
  BY DEF line_read_too_long
<1> HIDE DEF n
<1> QED  BY <1>1, <1>4, <1>5, ClosesAndReturns

\* A line that is complete is sent, and what follows it kept.
LEMMA LineReadDoneStep == SInv /\ line_read_done => SInv'
<1> SUFFICES ASSUME SInv, line_read_done PROVE SInv'
  OBVIOUS
<1> DEFINE n == LineSent(mem[cur])
<1>1. pc = "line_read"
  BY DEF line_read_done, LineRead
<1>2. mem[cur] \in Client /\ Filled(mem[cur]) /\ cur \in Chunk
      /\ mem \in [Chunk -> Client] /\ KernelTypes
  BY <1>1, Reader
<1>3. n \in Client /\ Filled(n) /\ n.fd = mem[cur].fd
  BY <1>2, LineSentFilled
<1>4. /\ Return /\ UNCHANGED sock /\ UNCHANGED poolVars
      /\ UNCHANGED <<stage, fdt, queue, rx, sent, fin, reg, ready>>
      /\ mem' = [mem EXCEPT ![cur] = n]
  BY <1>2 DEF line_read_done
<1>5. err' \in [Conn -> {"ok", "reset", "pipe"}] /\ killed' \in BOOLEAN
  BY <1>2, WritesTyped DEF line_read_done
<1> HIDE DEF n
<1> QED  BY <1>1, <1>3, <1>4, <1>5, UpdatesAndReturns

\* At the end of the stream the last line is sent before the session is closed.
LEMMA LineReadEofStep == SInv /\ line_read_eof => SInv'
<1> SUFFICES ASSUME SInv, line_read_eof PROVE SInv'
  OBVIOUS
<1> DEFINE n == LineSent(mem[cur])
           all == LinesSent(mem[cur])
<1>1. pc = "line_read"
  BY DEF line_read_eof, LineRead
<1>2. mem[cur] \in Client /\ Filled(mem[cur]) /\ rx \in [Conn -> Seq(Bytes)]
  BY <1>1, Reader
<1>3. n \in Client /\ n.fd = mem[cur].fd
  BY <1>2, LineSentFilled
<1>4. Closing(cur, n, 0, all) /\ Return /\ UNCHANGED <<queue, rx, sent, fin, sock>>
  BY DEF line_read_eof
<1> HIDE DEF n, all
<1> QED  BY <1>1, <1>2, <1>3, <1>4, ClosesAndReturns

\* A reset closes the session.
LEMMA LineReadErrorStep == SInv /\ line_read_error => SInv'
<1> SUFFICES ASSUME SInv, line_read_error PROVE SInv'
  OBVIOUS
<1>1. pc = "line_read"
  BY DEF line_read_error, LineRead
<1>2. mem[cur] \in Client /\ rx \in [Conn -> Seq(Bytes)]
  BY <1>1, Reader
<1>3. Closing(cur, mem[cur], 0, 0) /\ Return /\ UNCHANGED <<queue, rx, sent, fin, sock>>
  BY DEF line_read_error
<1> QED  BY <1>1, <1>2, <1>3, ClosesAndReturns

-----------------------------------------------------------------------------
(***************************************************************************)
(* The start, and the peers.                                               *)
(***************************************************************************)

\* A file is in epoll's list once, and only if it is registered.
LEMMA QueueReadyKeeps ==
  ASSUME KernelInv, NEW f \in File, QueueReady(f) \/ UNCHANGED ready,
         QueueReady(f) => reg'[f] # nil, \A g \in File : reg[g] # nil => reg'[g] # nil
  PROVE  ready' \in Seq(File) /\ ReadyRegistered'
<1>0. /\ ready \in Seq(File) /\ Len(ready) \in Nat /\ \A i \in 1 .. Len(ready) : ready[i] \in File
      /\ \A i \in 1 .. Len(ready) : reg[ready[i]] # nil
      /\ NoDuplicates(ready)
  BY LenProperties, ElementOfSeq DEF KernelInv, KernelTypes, ReadyRegistered
<1>1. CASE ready' = ready
  BY <1>0, <1>1 DEF ReadyRegistered, NoDuplicates
<1>2. CASE ready' # ready
  <2> DEFINE q == Append(ready, f)
  <2>1. ready' = q /\ \A i \in 1 .. Len(ready) : ready[i] # f
    BY <1>2 DEF QueueReady, Contains
  <2>2. /\ q \in Seq(File) /\ Len(q) = Len(ready) + 1
        /\ \A i \in 1 .. Len(ready) : q[i] = ready[i]
        /\ q[Len(ready) + 1] = f
    BY <1>0, AppendProperties
  <2>3. reg'[f] # nil
    BY <1>2
  <2> HIDE DEF q
  <2>4. NoDuplicates(q)
    BY <1>0, <2>1, <2>2 DEF NoDuplicates
  <2>5. \A i \in 1 .. Len(q) : reg'[q[i]] # nil
    BY <1>0, <2>2, <2>3
  <2> QED  BY <2>1, <2>2, <2>4, <2>5 DEF ReadyRegistered
<1> QED  BY <1>1, <1>2

\* An event on a file that is not registered is not queued.
LEMMA WakeKeeps ==
  ASSUME KernelInv, NEW f \in File, Wake(f), UNCHANGED reg
  PROVE  ready' \in Seq(File) /\ ReadyRegistered'
<1>1. (QueueReady(f) /\ reg[f] # nil) \/ UNCHANGED ready
  BY DEF Wake
<1>2. CASE QueueReady(f) /\ reg[f] # nil
  BY <1>2, QueueReadyKeeps
<1>3. CASE UNCHANGED ready
  BY <1>3 DEF KernelInv, KernelTypes, ReadyRegistered, NoDuplicates
<1> QED  BY <1>1, <1>2, <1>3

\* The sessions are those of the clients whose registration is over.
LEMMA ThreadSame ==
  ASSUME SInv, IInv', LiveChunks' = LiveChunks, UNCHANGED <<evt, cur, sock, off, mem>>,
         pc' = pc \/ (pc \in {"listen", "epoll_create1", "epoll_add"}
                      /\ pc' \in {"epoll_create1", "epoll_add", "epoll_wait"})
  PROVE  Sessions' = Sessions /\ MemoryInv' /\ ThreadInv'
<1>1. Sessions' = Sessions
  BY DEF Sessions
<1>2. MemoryInv'
  BY <1>1 DEF SInv, MemoryInv
<1>3. ThreadInv'
  BY <1>1 DEF SInv, ThreadInv, ThreadTypes, EventsPending, HandlerReads, NoDuplicates
<1> QED  BY <1>1, <1>2, <1>3

\* Each step of the start goes on to the next or ends the process; the last one registers
\* the listening socket.
LEMMA StartStepKeeps ==
  SInv /\ (server_init \/ create_epoll \/ register_listener) => SInv'
<1> SUFFICES ASSUME SInv, server_init \/ create_epoll \/ register_listener PROVE SInv'
  OBVIOUS
<1>1. /\ UNCHANGED poolVars /\ UNCHANGED <<stage, fdt, queue, rx, sent, fin, err>>
      /\ UNCHANGED <<evt, cur, sock, off, mem>> /\ killed' \in BOOLEAN
      /\ pc \in {"listen", "epoll_create1", "epoll_add"}
      /\ pc' = pc \/ pc' \in {"epoll_create1", "epoll_add", "epoll_wait"}
  BY DEF server_init, create_epoll, register_listener, StartStep, SInv
<1>2. /\ IInv' /\ LiveChunks' = LiveChunks /\ Sessions' = Sessions
      /\ MemoryInv' /\ ThreadInv'
  BY <1>1, PoolsSame, ThreadSame DEF SInv
<1>3. UNCHANGED <<reg, ready>> \/ Register(serv, serv)
  BY DEF server_init, create_epoll, register_listener, StartStep, Running
<1>4. reg \in [File -> Chunk \cup {nil, serv}] /\ serv \in File /\ serv \notin Conn
      /\ serv # nil
  BY SocketsAssumption DEF SInv, KernelInv, KernelTypes, File
<1>5. /\ reg' \in [File -> Chunk \cup {nil, serv}] /\ reg'[serv] \in {nil, serv}
      /\ \A s \in Conn : reg'[s] = reg[s]
      /\ \A g \in File : reg[g] # nil => reg'[g] # nil
      /\ Register(serv, serv) => reg'[serv] # nil
  BY <1>3, <1>4 DEF Register, SInv, RegisteredSessions, File
<1>6. ready' \in Seq(File) /\ ReadyRegistered'
  <2>1. QueueReady(serv) \/ UNCHANGED ready
    BY <1>3 DEF Register
  <2>2. CASE UNCHANGED <<reg, ready>>
    BY <2>2 DEF SInv, KernelInv, KernelTypes, ReadyRegistered, NoDuplicates
  <2>3. CASE Register(serv, serv)
    BY <2>1, <2>3, <1>4, <1>5, QueueReadyKeeps DEF SInv
  <2> QED  BY <1>3, <2>2, <2>3
<1>7. KernelInv'
  BY <1>1, <1>5, <1>6 DEF SInv, KernelInv, KernelTypes, QueueWaits, FilesOpen, NoDuplicates
<1>8. RegisteredSessions'
  BY <1>1, <1>2, <1>5 DEF SInv, RegisteredSessions, FileOf
<1>9. HandlerAccepts'
  BY <1>1 DEF SInv, HandlerAccepts
<1> QED  BY <1>1, <1>2, <1>7, <1>8, <1>9 DEF SInv

\* What the peers do touches no table of the server: a connection that comes is behind no
\* descriptor yet.
LEMMA PeerStep == SInv /\ PeerNext => SInv'
<1> SUFFICES ASSUME SInv, PeerNext PROVE SInv'
  OBVIOUS
<1>0. UNCHANGED poolVars /\ UNCHANGED <<pc, evt, cur, sock, off, mem, killed>>
  BY DEF PeerNext, procVars
<1>1. /\ IInv' /\ LiveChunks' = LiveChunks /\ Sessions' = Sessions
      /\ MemoryInv' /\ ThreadInv'
  BY <1>0, PoolsSame, ThreadSame DEF SInv
<1>2. PICK s \in Conn : Connect(s) \/ (\E b \in Bytes : Send(s, b)) \/ Hangup(s) \/ Reset(s)
  BY DEF PeerNext
<1>3. s \in File /\ serv \in File
  BY DEF File
<1>4. UNCHANGED <<fdt, reg>>
  BY <1>2 DEF Connect, Send, Hangup, Reset
<1>5. ready' \in Seq(File) /\ ReadyRegistered'
  <2>1. Wake(serv) \/ Wake(s)
    BY <1>2 DEF Connect, Send, Hangup, Reset
  <2> QED  BY <2>1, <1>3, <1>4, WakeKeeps DEF SInv
<1>6. KernelTypes' /\ QueueWaits' /\ FilesOpen'
  <2>0. KernelTypes /\ QueueWaits /\ FilesOpen
    BY DEF SInv, KernelInv
  <2>1. CASE Connect(s)
    <3> DEFINE q == Append(queue, s)
    <3>1. /\ stage[s] = "away" /\ stage' = [stage EXCEPT ![s] = "queued"] /\ queue' = q
          /\ UNCHANGED <<fdt, rx, sent, fin, err, reg>>
      BY <2>1 DEF Connect
    <3>2. /\ queue \in Seq(Conn) /\ Len(queue) \in Nat
          /\ \A i \in 1 .. Len(queue) : queue[i] \in Conn
      BY <2>0, LenProperties, ElementOfSeq DEF KernelTypes
    <3>3. /\ q \in Seq(Conn) /\ Len(q) = Len(queue) + 1
          /\ \A i \in 1 .. Len(queue) : q[i] = queue[i]
          /\ q[Len(queue) + 1] = s
      BY <3>2, AppendProperties
    <3> HIDE DEF q
    <3>4. \A i \in 1 .. Len(queue) : queue[i] # s
      BY <2>0, <3>1 DEF QueueWaits
    <3>5. stage \in [Conn -> Stage]
      BY <2>0 DEF KernelTypes
    <3>6. \A t \in Conn : stage'[t] = IF t = s THEN "queued" ELSE stage[t]
      BY <3>1, <3>5
    <3>7. \A i \in 1 .. Len(q) : stage'[q[i]] = "queued"
      BY <2>0, <3>2, <3>3, <3>6 DEF QueueWaits
    <3>8. NoDuplicates(q)
      BY <2>0, <3>2, <3>3, <3>4 DEF QueueWaits, NoDuplicates
    <3>9. FilesOpen'
      BY <2>0, <3>1, <3>6 DEF FilesOpen
    <3>10. stage' \in [Conn -> Stage]
      BY <3>1, <3>5 DEF Stage
    <3> QED  BY <2>0, <1>5, <3>1, <3>3, <3>7, <3>8, <3>9, <3>10 DEF KernelTypes, QueueWaits
  <2>2. ASSUME NEW b \in Bytes, Send(s, b) PROVE KernelTypes' /\ QueueWaits' /\ FilesOpen'
    <3> DEFINE q == Append(rx[s], b)
    <3>1. /\ rx' = [rx EXCEPT ![s] = q] /\ sent' = [sent EXCEPT ![s] = sent[s] + 1]
          /\ sent[s] < MaxSent /\ UNCHANGED <<stage, fdt, queue, fin, err, reg>>
      BY <2>2 DEF Send
    <3>2. q \in Seq(Bytes)
      BY <2>0, AppendProperties DEF KernelTypes
    <3> HIDE DEF q
    <3>3. rx' \in [Conn -> Seq(Bytes)]
      BY <2>0, <3>1, <3>2 DEF KernelTypes
    <3>4. sent' \in [Conn -> 0 .. MaxSent]
      BY <2>0, <3>1, SocketsAssumption DEF KernelTypes
    <3> QED  BY <2>0, <1>5, <3>1, <3>3, <3>4 DEF KernelTypes, QueueWaits, FilesOpen, NoDuplicates
  <2>3. CASE Hangup(s)
    <3>1. fin' \in [Conn -> BOOLEAN] /\ UNCHANGED <<stage, fdt, queue, rx, sent, err, reg>>
      BY <2>0, <2>3 DEF Hangup, KernelTypes
    <3> QED  BY <2>0, <1>5, <3>1 DEF KernelTypes, QueueWaits, FilesOpen, NoDuplicates
  <2>4. CASE Reset(s)
    <3>1. err' \in [Conn -> {"ok", "reset", "pipe"}]
          /\ UNCHANGED <<stage, fdt, queue, rx, sent, fin, reg>>
      BY <2>0, <2>4 DEF Reset, KernelTypes
    <3> QED  BY <2>0, <1>5, <3>1 DEF KernelTypes, QueueWaits, FilesOpen, NoDuplicates
  <2> QED  BY <1>2, <2>1, <2>2, <2>3, <2>4
<1>7. RegisteredSessions'
  BY <1>0, <1>1, <1>4, RegisteredSame DEF SInv
<1>8. HandlerAccepts'
  BY <1>0, <1>1, <1>4 DEF SInv, HandlerAccepts
<1> QED  BY <1>0, <1>1, <1>5, <1>6, <1>7, <1>8 DEF SInv, KernelInv

-----------------------------------------------------------------------------
(***************************************************************************)
(* epoll_wait.                                                             *)
(***************************************************************************)

\* Two registered files have different pointers: a session has one socket.
LEMMA PointersDiffer ==
  ASSUME SInv, NEW f \in File, NEW g \in File, reg[f] # nil, reg[f] = reg[g]
  PROVE  f = g
<1>1. CASE f \in Conn /\ g \in Conn
  BY <1>1 DEF SInv, RegisteredSessions
<1>2. \A h \in Conn : reg[h] # nil => reg[h] # serv
  BY LiveMapped, ServerAssumption DEF SInv, RegisteredSessions, LiveInMapped, Sessions
<1>3. CASE f = serv \/ g = serv
  BY <1>2, <1>3 DEF SInv, RegisteredSessions, File
<1> QED  BY <1>1, <1>3 DEF File

\* The events epoll_wait returns are for sessions that are there, each one once.
LEMMA EpollWaitStep == SInv /\ epoll_wait => SInv'
<1> SUFFICES ASSUME SInv, epoll_wait PROVE SInv'
  OBVIOUS
<1>1. PICK k \in 1 .. Len(ready) :
        /\ TakenFor(k, max_events)
        /\ HandleNext([i \in DOMAIN Reported(k) |-> reg[Reported(k)[i]]])
        /\ ready' = SubSeq(ready, k + 1, Len(ready))
  BY DEF epoll_wait
<1> DEFINE taken == SubSeq(ready, 1, k)
           rest == SubSeq(ready, k + 1, Len(ready))
           r == Reported(k)
           events == [i \in DOMAIN r |-> reg[r[i]]]
<1>2. /\ ready \in Seq(File) /\ Len(ready) \in Nat
      /\ \A i \in 1 .. Len(ready) : ready[i] \in File /\ reg[ready[i]] # nil
      /\ NoDuplicates(ready)
  BY LenProperties, ElementOfSeq DEF SInv, KernelInv, KernelTypes, ReadyRegistered
<1>3. /\ taken \in Seq(File) /\ Len(taken) = k
      /\ \A i \in 1 .. k : taken[i] = ready[i]
  BY <1>2, SubSeqProperties
<1>4. /\ rest \in Seq(File) /\ Len(rest) = Len(ready) - k
      /\ \A i \in 1 .. Len(ready) - k : rest[i] = ready[k + i]
  <2>1. /\ rest \in Seq(File)
        /\ Len(rest) = IF k + 1 <= Len(ready) THEN Len(ready) - (k + 1) + 1 ELSE 0
        /\ \A i \in 1 .. Len(ready) - (k + 1) + 1 : rest[i] = ready[(k + 1) + i - 1]
    BY <1>2, SubSeqProperties
  <2> QED  BY <1>2, <2>1
<1>5. KeptSoFar(taken, {f \in File : Readable(f)}, File, r, Len(taken))
  BY <1>3, KeptProperties DEF Reported
<1>6. ready' = rest /\ HandleNext(events) /\ TakenFor(k, max_events)
  BY <1>1
<1>7. Len(r) <= max_events
  <2>1. Len(r) \in Nat
    BY <1>5, LenProperties DEF KeptSoFar
  <2>2. Len(r) = max_events \/ Len(r) < max_events
    BY <1>6 DEF TakenFor
  <2> QED  BY <2>1, <2>2, ServerAssumption
<1> HIDE DEF taken, rest, r
<1>8. /\ r \in Seq(File) /\ Len(r) \in Nat /\ DOMAIN r = 1 .. Len(r)
      /\ \A i \in 1 .. Len(r) : r[i] \in File /\ reg[r[i]] # nil
      /\ NoDuplicates(r)
  <2>1. r \in Seq(File) /\ Len(r) \in Nat /\ DOMAIN r = 1 .. Len(r)
        /\ \A i \in 1 .. Len(r) : r[i] \in File
    BY <1>5, LenProperties, ElementOfSeq DEF KeptSoFar
  <2>2. \A i \in 1 .. Len(r) : reg[r[i]] # nil
    <3> SUFFICES ASSUME NEW i \in 1 .. Len(r) PROVE reg[r[i]] # nil
      OBVIOUS
    <3>1. PICK j \in 1 .. k : r[i] = taken[j]
      BY <1>3, <1>5 DEF KeptSoFar
    <3> QED  BY <3>1, <1>2, <1>3
  <2>3. \A i, j \in 1 .. Len(taken) : taken[i] = taken[j] => i = j
    BY <1>2, <1>3 DEF NoDuplicates
  <2> QED  BY <2>1, <2>2, <2>3, <1>5 DEF KeptSoFar, NoDuplicates
<1>9. /\ pc = "epoll_wait" /\ UNCHANGED poolVars
      /\ UNCHANGED <<stage, fdt, queue, rx, sent, fin, err, reg, sock, mem, killed>>
  BY DEF epoll_wait
<1>10. pc' # "epoll_ctl"
  BY <1>6 DEF HandleNext
<1>11. IInv' /\ LiveChunks' = LiveChunks /\ LiveChunks \subseteq Chunk
  BY <1>9, PoolsSame, LiveMapped DEF SInv, LiveInMapped
<1>12. Sessions = LiveChunks /\ Sessions' = LiveChunks
  BY <1>9, <1>10, <1>11 DEF Sessions
<1>13. MemoryInv'
  BY <1>9, <1>12 DEF SInv, MemoryInv
<1>14. /\ events \in Seq(Chunk \cup {serv}) /\ Len(events) = Len(r)
       /\ \A i \in 1 .. Len(events) : events[i] = reg[r[i]]
  <2>1. \A i \in 1 .. Len(r) : reg[r[i]] \in Chunk \cup {serv}
    BY <1>8 DEF SInv, KernelInv, KernelTypes
  <2> QED  BY <1>8, <2>1
<1>15. NoDuplicates(events)
  <2> SUFFICES ASSUME NEW i \in 1 .. Len(r), NEW j \in 1 .. Len(r), reg[r[i]] = reg[r[j]]
               PROVE  i = j
    BY <1>14 DEF NoDuplicates
  <2>1. r[i] = r[j]
    BY <1>8, PointersDiffer
  <2> QED  BY <2>1, <1>8 DEF NoDuplicates
<1>16. \A i \in 1 .. Len(events) : events[i] # serv => events[i] \in LiveChunks'
  <2> SUFFICES ASSUME NEW i \in 1 .. Len(r), reg[r[i]] # serv
               PROVE  reg[r[i]] \in LiveChunks
    BY <1>11, <1>14
  <2>1. r[i] \in Conn /\ reg[r[i]] # nil
    BY <1>8 DEF SInv, RegisteredSessions, File
  <2> QED  BY <2>1, <1>12 DEF SInv, RegisteredSessions
<1>17. ThreadInv'
  <2> HIDE DEF events
  <2> QED  BY <1>6, <1>7, <1>11, <1>13, <1>14, <1>15, <1>16, HandlerStarts
<1>18. KernelInv'
  <2>1. \A i \in 1 .. Len(rest) : reg[rest[i]] # nil
    BY <1>2, <1>4
  <2>2. NoDuplicates(rest)
    <3>1. \A i, j \in 1 .. Len(rest) :
            /\ k + i \in 1 .. Len(ready) /\ k + j \in 1 .. Len(ready)
            /\ k + i = k + j => i = j
      BY <1>2, <1>4
    <3>2. \A i \in 1 .. Len(rest) : rest[i] = ready[k + i]
      BY <1>4
    <3>3. \A i, j \in 1 .. Len(ready) : ready[i] = ready[j] => i = j
      BY <1>2 DEF NoDuplicates
    <3>4. \A i, j \in 1 .. Len(rest) : rest[i] = rest[j] => i = j
      BY <3>1, <3>2, <3>3
    <3> QED  BY <3>4 DEF NoDuplicates
  <2> QED
    BY <1>4, <1>6, <1>9, <2>1, <2>2
    DEF SInv, KernelInv, KernelTypes, QueueWaits, FilesOpen, ReadyRegistered, NoDuplicates
<1>19. RegisteredSessions'
  BY <1>9, <1>12, RegisteredSame DEF SInv
<1> QED  BY <1>9, <1>10, <1>11, <1>13, <1>17, <1>18, <1>19 DEF SInv, HandlerAccepts

-----------------------------------------------------------------------------
(***************************************************************************)
(* accept4 and epoll_ctl.                                                  *)
(***************************************************************************)

\* A step that changes nothing but the pools, and those without a client more or less.
LEMMA NothingChanges ==
  ASSUME SInv, IInv', LiveChunks' = LiveChunks, UNCHANGED <<sockVars, procVars>>
  PROVE  SInv'
<1>1. UNCHANGED <<pc, evt, cur, sock, off, mem, killed>>
      /\ UNCHANGED <<stage, fdt, queue, rx, sent, fin, err, reg, ready>>
  BY DEF sockVars, procVars
<1>2. Sessions' = Sessions /\ MemoryInv' /\ ThreadInv'
  BY <1>1, ThreadSame
<1>3. KernelInv'
  <2>1. rx' \in [Conn -> Seq(Bytes)] /\ err' \in [Conn -> {"ok", "reset", "pipe"}]
    BY <1>1 DEF SInv, KernelInv, KernelTypes
  <2> QED  BY <1>1, <2>1, KernelSame DEF SInv
<1>4. RegisteredSessions'
  BY <1>1, <1>2, RegisteredSame DEF SInv
<1>5. HandlerAccepts'
  BY <1>1, <1>2 DEF SInv, HandlerAccepts
<1> QED  BY <1>1, <1>2, <1>3, <1>4, <1>5 DEF SInv

\* accept4 fails for want of a descriptor, epoll_wait or read is interrupted.
LEMMA StutterStep == SInv /\ (interrupted \/ accept_fails \/ UNCHANGED vars) => SInv'
<1> SUFFICES ASSUME SInv, UNCHANGED vars PROVE SInv'
  BY DEF interrupted, accept_fails
<1>1. UNCHANGED poolVars /\ UNCHANGED <<sockVars, procVars>>
  BY DEF vars
<1> QED  BY <1>1, PoolsSame, NothingChanges DEF SInv

\* arena_create ends the process for want of memory.
LEMMA AcceptNomemStep == SInv /\ accept_nomem => SInv'
<1> SUFFICES ASSUME SInv, accept_nomem PROVE SInv'
  OBVIOUS
<1>1. session_new_nomem /\ UNCHANGED <<sockVars, procVars>>
  BY DEF accept_nomem
<1>2. IInv'
  BY <1>1, NextIInv DEF PoolsNext, SInv
<1>3. LiveChunks' = LiveChunks
  BY <1>1 DEF session_new_nomem, LiveChunks
<1> QED  BY <1>1, <1>2, <1>3, NothingChanges

\* The queue is empty: the next handler starts.
LEMMA AcceptDrainedStep == SInv /\ accept_drained => SInv'
<1> SUFFICES ASSUME SInv, accept_drained PROVE SInv'
  OBVIOUS
<1>1. /\ pc = "accept" /\ Return /\ UNCHANGED poolVars
      /\ UNCHANGED <<stage, fdt, queue, rx, sent, fin, err, reg, ready>>
      /\ UNCHANGED <<sock, mem, killed>>
  BY DEF accept_drained, sockVars
<1>2. pc' # "epoll_ctl"
  BY <1>1 DEF Return, HandleNext
<1>3. IInv' /\ LiveChunks' = LiveChunks /\ LiveChunks \subseteq Chunk
  BY <1>1, PoolsSame, LiveMapped DEF SInv, LiveInMapped
<1>4. Sessions = LiveChunks /\ Sessions' = LiveChunks
  BY <1>1, <1>2, <1>3 DEF Sessions
<1>5. MemoryInv'
  BY <1>1, <1>4 DEF SInv, MemoryInv
<1>6. /\ evt \in Seq(Chunk \cup {serv}) /\ Len(evt) <= max_events /\ NoDuplicates(evt)
      /\ \A i \in 1 .. Len(evt) : evt[i] # serv => evt[i] \in LiveChunks'
  BY <1>3, <1>4 DEF SInv, ThreadInv, ThreadTypes, EventsPending
<1>7. ThreadInv'
  BY <1>1, <1>3, <1>5, <1>6, HandlerStarts DEF Return
<1>8. KernelInv'
  <2>1. rx' \in [Conn -> Seq(Bytes)] /\ err' \in [Conn -> {"ok", "reset", "pipe"}]
    BY <1>1 DEF SInv, KernelInv, KernelTypes
  <2> QED  BY <1>1, <2>1, KernelSame DEF SInv
<1>9. RegisteredSessions'
  BY <1>1, <1>4, RegisteredSame DEF SInv
<1> QED  BY <1>1, <1>2, <1>3, <1>5, <1>7, <1>8, <1>9 DEF SInv, HandlerAccepts

\* The connection at the head of the queue: it is behind no descriptor, and not registered.
LEMMA FirstQueued ==
  ASSUME SInv, queue # <<>>
  PROVE  LET s == Head(queue)
         IN  /\ s \in Conn /\ stage[s] = "queued" /\ reg[s] = nil
             /\ \A fd \in Fd : fdt[fd] # s
             /\ Tail(queue) \in Seq(Conn)
             /\ \A i \in 1 .. Len(Tail(queue)) :
                  Tail(queue)[i] # s /\ stage[Tail(queue)[i]] = "queued"
             /\ NoDuplicates(Tail(queue))
<1> DEFINE s == Head(queue)
           rest == Tail(queue)
<1>0. /\ queue \in Seq(Conn)
      /\ \A i \in 1 .. Len(queue) : stage[queue[i]] = "queued"
      /\ NoDuplicates(queue)
  BY DEF SInv, KernelInv, KernelTypes, QueueWaits
<1>1. /\ Len(queue) \in Nat /\ 1 \in 1 .. Len(queue) /\ s = queue[1] /\ s \in Conn
      /\ rest \in Seq(Conn) /\ Len(rest) = Len(queue) - 1
      /\ \A i \in 1 .. Len(rest) : rest[i] = queue[i + 1]
  BY <1>0, HeadTailProperties, LenProperties, EmptySeq
<1> HIDE DEF s, rest
<1>2. \A i \in 1 .. Len(rest) : i + 1 \in 1 .. Len(queue) /\ i + 1 # 1
  BY <1>1
<1>3. stage[s] = "queued"
  BY <1>0, <1>1
<1>4. \A fd \in Fd : fdt[fd] # s
  BY <1>1, <1>3 DEF SInv, KernelInv, FilesOpen
<1>5. reg[s] = nil
  <2> SUFFICES ASSUME reg[s] # nil PROVE FALSE
    OBVIOUS
  <2>1. FileOf(mem[reg[s]].fd) = s
    BY <1>1 DEF SInv, RegisteredSessions
  <2> QED  BY <2>1, <1>1, <1>4, FileOfConn DEF SInv, KernelInv
<1>6. \A i \in 1 .. Len(rest) : rest[i] # s /\ stage[rest[i]] = "queued"
  BY <1>0, <1>1, <1>2 DEF NoDuplicates
<1>7. NoDuplicates(rest)
  BY <1>0, <1>1, <1>2 DEF NoDuplicates
<1> QED  BY <1>1, <1>3, <1>4, <1>5, <1>6, <1>7 DEF s, rest

\* A connection that is turned away: nobody else is concerned.
LEMMA AcceptRejectsStep == SInv /\ accept_rejects => SInv'
<1> SUFFICES ASSUME SInv, accept_rejects PROVE SInv'
  OBVIOUS
<1> DEFINE s == Head(queue)
           rest == Tail(queue)
<1>1. /\ queue # <<>> /\ UNCHANGED poolVars
      /\ stage' = [stage EXCEPT ![s] = "closed"] /\ queue' = rest
      /\ UNCHANGED <<fdt, rx, sent, fin, reg, ready>>
      /\ UNCHANGED <<pc, evt, cur, sock, off, mem>>
  BY DEF accept_rejects
<1>2. /\ s \in Conn /\ \A fd \in Fd : fdt[fd] # s
      /\ rest \in Seq(Conn) /\ NoDuplicates(rest)
      /\ \A i \in 1 .. Len(rest) : rest[i] # s /\ stage[rest[i]] = "queued"
  BY <1>1, FirstQueued
<1>3. err' \in [Conn -> {"ok", "reset", "pipe"}] /\ killed' \in BOOLEAN
  BY WritesTyped DEF accept_rejects, SInv, KernelInv
<1> HIDE DEF s, rest
<1>4. IInv' /\ LiveChunks' = LiveChunks
  BY <1>1, PoolsSame DEF SInv
<1>5. Sessions' = Sessions /\ MemoryInv' /\ ThreadInv'
  BY <1>1, <1>4, ThreadSame
<1>6. KernelInv'
  <2>1. stage \in [Conn -> Stage]
    BY DEF SInv, KernelInv, KernelTypes
  <2>2. stage' \in [Conn -> Stage] /\ \A t \in Conn : t # s => stage'[t] = stage[t]
    BY <1>1, <2>1 DEF Stage
  <2>3. QueueWaits'
    <3>1. \A i \in 1 .. Len(rest) : rest[i] \in Conn
      BY <1>2, ElementOfSeq
    <3> QED  BY <3>1, <1>1, <1>2, <2>2 DEF QueueWaits, NoDuplicates
  <2>4. FilesOpen'
    BY <1>1, <1>2, <2>2 DEF SInv, KernelInv, FilesOpen
  <2> QED
    BY <1>1, <1>2, <1>3, <2>2, <2>3, <2>4
    DEF SInv, KernelInv, KernelTypes, ReadyRegistered, NoDuplicates
<1>7. RegisteredSessions'
  BY <1>1, <1>5, RegisteredSame DEF SInv
<1>8. HandlerAccepts'
  BY <1>1, <1>4 DEF SInv, HandlerAccepts
<1> QED  BY <1>3, <1>4, <1>5, <1>6, <1>7, <1>8 DEF SInv

\* accept4 takes a descriptor nobody has, if there is one.
LEMMA LowestIsFree ==
  ASSUME FreeFds # {}
  PROVE  LowestFreeFd \in Fd /\ fdt[LowestFreeFd] = "free"
<1>1. FreeFds \subseteq Nat
  BY SocketsAssumption DEF FreeFds, Fd
<1>2. \E fd \in FreeFds : \A other \in FreeFds : fd <= other
  BY <1>1, LeastOf
<1> QED  BY <1>2 DEF LowestFreeFd, FreeFds

\* The new client's chunk was nobody's, and its descriptor was free; it becomes a session
\* when it is registered.
LEMMA AcceptClientStep == SInv /\ accept_client => SInv'
<1> SUFFICES ASSUME SInv, accept_client PROVE SInv'
  OBVIOUS
<1> DEFINE s == Head(queue)
           rest == Tail(queue)
           fd == LowestFreeFd
<1>1. PICK c \in Chunk : /\ session_new(c)
                         /\ mem' = [mem EXCEPT ![c] = Recycled(c)]
                         /\ cur' = c
  BY DEF accept_client
<1>2. /\ queue # <<>> /\ FreeFds # {} /\ pc = "accept" /\ pc' = "epoll_ctl"
      /\ sock' = fd /\ fdt' = [fdt EXCEPT ![fd] = s]
      /\ stage' = [stage EXCEPT ![s] = "open"] /\ queue' = rest
      /\ UNCHANGED <<rx, sent, fin, err, reg, ready, evt, off, killed>>
  BY DEF accept_client
<1>3. /\ s \in Conn /\ reg[s] = nil /\ \A n \in Fd : fdt[n] # s
      /\ rest \in Seq(Conn) /\ NoDuplicates(rest)
      /\ \A i \in 1 .. Len(rest) : rest[i] # s /\ stage[rest[i]] = "queued"
  BY <1>2, FirstQueued
<1>4. fd \in Fd /\ fdt[fd] = "free"
  BY <1>2, LowestIsFree
<1> HIDE DEF s, rest, fd
<1>5. IInv'
  BY <1>1, NextIInv DEF SInv, PoolsNext
<1>6. c \notin LiveChunks /\ LiveChunks' = LiveChunks \cup {c}
  BY <1>1, <1>5, NewImplements DEF SInv, Allocator!session_new
<1>7. Sessions = LiveChunks /\ Sessions' = LiveChunks
  BY <1>1, <1>2, <1>6 DEF Sessions
<1>8. LiveChunks \subseteq Chunk
  BY LiveMapped DEF SInv, LiveInMapped
<1>9. mem \in [Chunk -> Client] /\ Recycled(c) \in Client
  BY RecycledTyped DEF SInv, MemoryInv
<1>10. mem' \in [Chunk -> Client] /\ \A d \in LiveChunks : mem'[d] = mem[d]
  BY <1>1, <1>6, <1>8, <1>9
<1>11. MemoryInv'
  BY <1>7, <1>10 DEF SInv, MemoryInv
<1>12. /\ stage \in [Conn -> Stage] /\ fdt \in [Fd -> Conn \cup {"free", "stdin"}]
       /\ "free" \notin Conn
  BY SocketsAssumption DEF SInv, KernelInv, KernelTypes
<1>13. /\ stage' \in [Conn -> Stage] /\ stage'[s] = "open"
       /\ \A t \in Conn : t # s => stage'[t] = stage[t]
  BY <1>2, <1>3, <1>12 DEF Stage
<1>14. /\ fdt' \in [Fd -> Conn \cup {"free", "stdin"}] /\ fdt'[fd] = s
       /\ \A n \in Fd : n # fd => fdt'[n] = fdt[n]
  BY <1>2, <1>3, <1>4, <1>12
<1>15. KernelInv'
  <2>1. QueueWaits'
    <3>1. \A i \in 1 .. Len(rest) : rest[i] \in Conn
      BY <1>3, ElementOfSeq
    <3> QED  BY <3>1, <1>2, <1>3, <1>13 DEF QueueWaits, NoDuplicates
  <2>2. FilesOpen'
    <3>1. \A n \in Fd : fdt'[n] \in Conn => stage'[fdt'[n]] = "open"
      BY <1>3, <1>13, <1>14 DEF SInv, KernelInv, FilesOpen
    <3>2. \A n, k \in Fd : fdt'[n] \in Conn /\ fdt'[n] = fdt'[k] => n = k
      BY <1>3, <1>14 DEF SInv, KernelInv, FilesOpen
    <3> QED  BY <3>1, <3>2 DEF FilesOpen
  <2> QED
    BY <1>2, <1>3, <1>13, <1>14, <2>1, <2>2
    DEF SInv, KernelInv, KernelTypes, ReadyRegistered, NoDuplicates
<1>16. RegisteredSessions'
  <2>1. ASSUME NEW t \in Conn, reg'[t] # nil
        PROVE  reg'[t] \in Sessions' /\ FileOf(mem[reg[t]].fd)' = t
    <3>1. reg'[t] = reg[t] /\ reg[t] \in LiveChunks /\ FileOf(mem[reg[t]].fd) = t
      BY <1>2, <1>7, <2>1 DEF SInv, RegisteredSessions
    <3> DEFINE n == mem[reg[t]].fd
    <3>2. n \in Fd /\ fdt[n] = t
      BY <3>1, FileOfConn DEF SInv, KernelInv
    <3>3. fdt'[n] = t
      BY <3>2, <1>4, <1>12, <1>14
    <3>4. mem'[reg'[t]].fd = n
      BY <3>1, <1>10
    <3> QED  BY <3>1, <3>2, <3>3, <3>4, <1>7 DEF FileOf
  <2> QED  BY <2>1, <1>2 DEF SInv, RegisteredSessions
<1>17. ThreadInv'
  <2>1. ThreadTypes'
    BY <1>1, <1>2 DEF SInv, ThreadInv, ThreadTypes
  <2>2. EventsPending'
    BY <1>2, <1>7 DEF SInv, ThreadInv, EventsPending, NoDuplicates
  <2>3. HandlerReads'
    BY <1>2 DEF HandlerReads
  <2> QED  BY <2>1, <2>2, <2>3 DEF ThreadInv
<1>18. HandlerAccepts'
  BY <1>1, <1>2, <1>3, <1>4, <1>6, <1>14 DEF HandlerAccepts
<1> QED  BY <1>2, <1>5, <1>11, <1>15, <1>16, <1>17, <1>18 DEF SInv

\* epoll_ctl registers the socket under the client's address and the client becomes a
\* session: the fields set after the call are those of a client that has read nothing.
LEMMA RegisterStep == SInv /\ register => SInv'
<1> SUFFICES ASSUME SInv, register PROVE SInv'
  OBVIOUS
<1> DEFINE s == fdt[sock]
           m == SetUp(mem[cur])
<1>1. /\ pc = "epoll_ctl" /\ pc' = "accept" /\ cur' = nil /\ sock' = garbage
      /\ UNCHANGED <<evt, off>> /\ UNCHANGED poolVars
      /\ UNCHANGED <<stage, fdt, queue, rx, sent, fin>>
      /\ Register(s, cur) /\ mem' = [mem EXCEPT ![cur] = m]
  BY DEF register, AcceptOn
<1>2. /\ cur \in LiveChunks /\ sock \in Fd /\ s \in Conn /\ reg[s] = nil
  BY <1>1 DEF SInv, HandlerAccepts
<1>3. err' \in [Conn -> {"ok", "reset", "pipe"}] /\ killed' \in BOOLEAN
  BY WritesTyped DEF register, SInv, KernelInv
<1>4. IInv' /\ LiveChunks' = LiveChunks /\ LiveChunks \subseteq Chunk
  BY <1>1, PoolsSame, LiveMapped DEF SInv, LiveInMapped
<1>5. Sessions = LiveChunks \ {cur} /\ Sessions' = LiveChunks
  BY <1>1, <1>4 DEF Sessions
<1>6. mem \in [Chunk -> Client] /\ m \in Client /\ m.fd = sock /\ Filled(m)
  BY <1>2, <1>4, SetUpFilled DEF SInv, MemoryInv
<1> HIDE DEF m
<1>7. mem' \in [Chunk -> Client] /\ \A c \in Chunk : mem'[c] = IF c = cur THEN m ELSE mem[c]
  BY <1>1, <1>6
<1>8. MemoryInv'
  <2>1. ASSUME NEW c \in LiveChunks PROVE Filled(mem'[c])
    <3>1. CASE c = cur
      BY <3>1, <1>4, <1>6, <1>7
    <3>2. CASE c # cur
      <4>1. c \in Sessions /\ mem'[c] = mem[c]
        BY <3>2, <1>4, <1>5, <1>7
      <4> QED  BY <4>1 DEF SInv, MemoryInv
    <3> QED  BY <3>1, <3>2
  <2> QED  BY <2>1, <1>5, <1>7 DEF MemoryInv
<1>9. /\ reg \in [File -> Chunk \cup {nil, serv}] /\ s \in File /\ s # serv
      /\ cur \in Chunk /\ cur # nil
  BY <1>2, <1>4, SocketsAssumption, ServerAssumption DEF SInv, KernelInv, KernelTypes, File
<1>10. /\ reg' \in [File -> Chunk \cup {nil, serv}] /\ reg'[s] = cur
       /\ \A g \in File : g # s => reg'[g] = reg[g]
  BY <1>1, <1>9 DEF Register
<1>11. ready' \in Seq(File) /\ ReadyRegistered'
  <2>1. QueueReady(s) \/ UNCHANGED ready
    BY <1>1 DEF Register
  <2>2. reg'[s] # nil /\ \A g \in File : reg[g] # nil => reg'[g] # nil
    BY <1>9, <1>10
  <2> HIDE DEF s
  <2> QED  BY <2>1, <2>2, <1>9, QueueReadyKeeps DEF SInv
<1>12. KernelInv'
  BY <1>1, <1>3, <1>10, <1>11
  DEF SInv, KernelInv, KernelTypes, QueueWaits, FilesOpen, NoDuplicates
<1>13. RegisteredSessions'
  <2>1. ASSUME NEW t \in Conn, reg'[t] # nil
        PROVE  reg'[t] \in Sessions' /\ FileOf(mem[reg[t]].fd)' = t
    <3>1. CASE t = s
      <4>1. mem'[reg'[t]].fd = sock
        BY <3>1, <1>6, <1>7, <1>9, <1>10
      <4>2. fdt'[sock] = t
        BY <3>1, <1>1
      <4> QED  BY <3>1, <4>1, <4>2, <1>2, <1>5, <1>10 DEF FileOf
    <3>2. CASE t # s
      <4>1. reg'[t] = reg[t] /\ reg[t] \in Sessions /\ FileOf(mem[reg[t]].fd) = t
        BY <2>1, <3>2, <1>10 DEF SInv, RegisteredSessions, File
      <4>2. mem'[reg'[t]] = mem[reg[t]]
        BY <4>1, <1>4, <1>5, <1>7
      <4> QED  BY <4>1, <4>2, <1>1, <1>5 DEF FileOf
    <3> QED  BY <3>1, <3>2
  <2>2. reg'[serv] \in {nil, serv}
    BY <1>9, <1>10 DEF SInv, RegisteredSessions, File
  <2> QED  BY <2>1, <2>2 DEF RegisteredSessions
<1>14. ThreadInv'
  BY <1>1, <1>5
  DEF SInv, ThreadInv, ThreadTypes, EventsPending, HandlerReads, NoDuplicates
<1>15. HandlerAccepts'
  BY <1>1 DEF HandlerAccepts
<1> QED  BY <1>3, <1>4, <1>8, <1>12, <1>13, <1>14, <1>15 DEF SInv

\* epoll_ctl fails: whatever descriptor the client's memory names is closed, and with it
\* the registration of whoever had it.
LEMMA RegisterFailsStep == SInv /\ register_fails => SInv'
<1> SUFFICES ASSUME SInv, register_fails PROVE SInv'
  OBVIOUS
<1>1. /\ pc = "epoll_ctl" /\ pc' = "accept" /\ cur' = nil /\ sock' = garbage
      /\ UNCHANGED <<evt, off>> /\ UNCHANGED <<queue, rx, sent, fin>>
      /\ Closing(cur, mem[cur], 0, 0)
  BY DEF register_fails, AcceptOn
<1>2. cur \in LiveChunks
  BY <1>1 DEF SInv, HandlerAccepts
<1>3. mem[cur] \in Client /\ rx' \in [Conn -> Seq(Bytes)]
  BY <1>1, <1>2, LiveMapped DEF SInv, LiveInMapped, MemoryInv, KernelInv, KernelTypes
<1>4. /\ IInv' /\ killed' \in BOOLEAN
      /\ KernelInv' /\ RegisteredSessions' /\ MemoryInv'
      /\ LiveChunks' = LiveChunks \ {cur}
  BY <1>1, <1>3, ClosingKeeps
<1>5. Sessions = LiveChunks \ {cur} /\ Sessions' = LiveChunks \ {cur}
  BY <1>1, <1>4 DEF Sessions
<1>6. ThreadInv'
  BY <1>1, <1>5
  DEF SInv, ThreadInv, ThreadTypes, EventsPending, HandlerReads, NoDuplicates
<1>7. HandlerAccepts'
  BY <1>1 DEF HandlerAccepts
<1> QED  BY <1>4, <1>6, <1>7 DEF SInv

-----------------------------------------------------------------------------
(***************************************************************************)
(* The invariant holds.                                                    *)
(***************************************************************************)

\* The server starts with one pool, no client and nothing registered.
LEMMA InitSInv == Init => SInv
<1> SUFFICES ASSUME Init PROVE SInv
  OBVIOUS
<1>1. IInv /\ LiveChunks = {}
  BY InitIInv, InitImplements DEF Init, Allocator!Init
<1>2. Sessions = {}
  BY <1>1 DEF Sessions
<1>3. KernelInv
  <2>1. SocketsInit
    BY DEF Init
  <2>2. KernelTypes
    BY <2>1, SocketsAssumption DEF SocketsInit, KernelTypes, Stage, File
  <2>3. Len(queue) = 0 /\ Len(ready) = 0
    BY <2>1 DEF SocketsInit
  <2>4. \A fd \in Fd : fdt[fd] \notin Conn
    BY <2>1, SocketsAssumption DEF SocketsInit
  <2> QED
    BY <2>2, <2>3, <2>4
    DEF KernelInv, QueueWaits, FilesOpen, ReadyRegistered, NoDuplicates
<1>4. RegisteredSessions
  BY DEF Init, SocketsInit, RegisteredSessions, File
<1>5. MemoryInv
  BY <1>2, ZeroedTyped DEF Init, MemoryInv
<1>6. ThreadInv
  <2>1. evt = <<>> /\ Len(evt) = 0 /\ evt \in Seq(Chunk \cup {serv}) /\ 0 <= max_events
    BY ServerAssumption DEF Init
  <2> QED
    BY <2>1 DEF Init, ThreadInv, ThreadTypes, EventsPending, HandlerReads, NoDuplicates
<1>7. HandlerAccepts /\ killed \in BOOLEAN
  BY DEF Init, HandlerAccepts
<1> QED  BY <1>1, <1>3, <1>4, <1>5, <1>6, <1>7 DEF SInv

\* Every step of the server and of the peers keeps the invariant.
LEMMA NextSInv == SInv /\ [Next]_vars => SInv'
BY StartStepKeeps, EpollWaitStep, StutterStep, AcceptDrainedStep, AcceptNomemStep,
   AcceptRejectsStep, AcceptClientStep, RegisterStep, RegisterFailsStep,
   NameReadMoreStep, NameReadTooLongStep, NameReadClosesStep, NameReadDoneStep,
   LineReadMoreStep, LineReadTooLongStep, LineReadDoneStep, LineReadEofStep,
   LineReadErrorStep, PeerStep
DEF Next, ServerNext

\* The invariant holds whatever the peers do, for any number of everything, also when
\* registrations fail, connections are reset and the process is about to end.
THEOREM ServerInvariant == Spec => []SInv
BY InitSInv, NextSInv, PTL DEF Spec

\* Every variable has its type: an offset is a number, a pointer is a chunk, the list of
\* events is no longer than the array evt of server_go.
THEOREM ServerTypes == Spec => []TypeOK
<1>1. SInv => TypeOK
  BY DEF SInv, IInv, KernelInv, KernelTypes, MemoryInv, ThreadInv, ThreadTypes,
         HandlerAccepts, TypeOK, File
<1> QED  BY <1>1, ServerInvariant, PTL

\* A pointer epoll_wait returns, and one the batch still holds, is the address of a session,
\* although the handlers before it close sessions, unmap pools and recycle chunks.
THEOREM EventsReachSessions == Spec => []EventsTargetSessions
<1>1. SInv => EventsTargetSessions
  <2> SUFFICES ASSUME SInv
               PROVE  /\ \A s \in Conn : reg[s] # nil => reg[s] \in Sessions
                      /\ \A i \in DOMAIN evt : evt[i] # serv => evt[i] \in Sessions
                      /\ \A i, j \in DOMAIN evt : evt[i] = evt[j] => i = j
    BY DEF EventsTargetSessions
  <2>1. DOMAIN evt = 1 .. Len(evt)
    BY LenProperties DEF SInv, ThreadInv, ThreadTypes
  <2> QED
    BY <2>1 DEF SInv, RegisteredSessions, ThreadInv, EventsPending, NoDuplicates
<1> QED  BY <1>1, ServerInvariant, PTL

\* read stores inside buf and name, whatever a client sends, however often a handler reads;
\* and every name that is sent ends in a NUL inside its array.
THEOREM ReadsStayInBuffers == Spec => []BuffersBounded
<1>1. SInv => BuffersBounded
  BY DEF SInv, ThreadInv, HandlerReads, MemoryInv, Filled, BuffersBounded
<1> QED  BY <1>1, ServerInvariant, PTL

-----------------------------------------------------------------------------
(***************************************************************************)
(* Whose socket a descriptor is, as long as epoll_ctl succeeds.            *)
(***************************************************************************)

\* SocketsOwned, whether or not the server runs.
Owned ==
  /\ who \in [Chunk -> Conn \cup {nil}]
  /\ \A c \in Sessions : FileOf(mem[c].fd) = who[c] /\ who[c] \in Conn /\ reg[who[c]] = c
  /\ \A fd \in Fd : fdt[fd] \in Conn =>
       \/ \E c \in Sessions : mem[c].fd = fd
       \/ pc = "epoll_ctl" /\ fd = sock
OwnedInv == ~ EpollCtlMayFail => Owned

\* A step that opens and closes no descriptor keeps their owners.
LEMMA OwnedSame ==
  ASSUME SInv, Owned, UNCHANGED <<who, fdt, reg>>, Sessions' = Sessions,
         \A c \in Sessions : mem'[c].fd = mem[c].fd,
         pc # "epoll_ctl" \/ UNCHANGED <<pc, sock>>
  PROVE  Owned'
<1>1. \A c \in Sessions' : /\ FileOf(mem[c].fd)' = who'[c] /\ who'[c] \in Conn
                           /\ reg'[who'[c]] = c
  BY DEF Owned, FileOf
<1>2. ASSUME NEW fd \in Fd, fdt'[fd] \in Conn
      PROVE  (\E c \in Sessions' : mem'[c].fd = fd) \/ (pc' = "epoll_ctl" /\ fd = sock')
  BY <1>2 DEF Owned
<1> QED  BY <1>1, <1>2 DEF Owned

\* A handler that closes its session closes that session's descriptor, and no other
\* session had the same.
LEMMA OwnedClosing ==
  ASSUME SInv, Owned, pc \in {"name_read", "line_read"},
         NEW m \in Client, NEW own, NEW all, Closing(cur, m, own, all), m.fd = mem[cur].fd,
         UNCHANGED <<queue, sent, fin, who>>, rx' \in [Conn -> Seq(Bytes)], Return
  PROVE  Owned'
<1>1. pc # "epoll_ctl" /\ pc' # "epoll_ctl" /\ cur \in Sessions
  BY Reader DEF Return, HandleNext
<1>2. /\ Sessions' = Sessions \ {cur}
      /\ \A d \in Sessions' : d \in Sessions /\ d \in Chunk /\ mem'[d] = mem[d]
  BY <1>1, ClosingKeeps
<1>3. FileOf(m.fd) = who[cur] /\ who[cur] \in Conn /\ reg[who[cur]] = cur
  BY <1>1 DEF Owned
<1>4. m.fd \in Fd /\ fdt[m.fd] = who[cur]
  BY <1>3, FileOfConn DEF SInv, KernelInv
<1>5. /\ fdt' = [n \in Fd |-> IF n = m.fd THEN "free" ELSE fdt[n]]
      /\ reg' = [g \in File |-> IF g = who[cur] THEN nil ELSE reg[g]]
  BY <1>3 DEF Closing, CloseClient, CloseFd
<1>6. ASSUME NEW c \in Sessions'
      PROVE  FileOf(mem[c].fd)' = who'[c] /\ who'[c] \in Conn /\ reg'[who'[c]] = c
  <2>1. /\ c \in Sessions /\ c # cur /\ mem'[c] = mem[c] /\ who'[c] = who[c]
        /\ FileOf(mem[c].fd) = who[c] /\ who[c] \in Conn /\ reg[who[c]] = c
    BY <1>2 DEF Owned
  <2>2. who[c] # who[cur]
    BY <2>1, <1>3
  <2>3. mem[c].fd \in Fd /\ fdt[mem[c].fd] = who[c]
    BY <2>1, FileOfConn DEF SInv, KernelInv
  <2>4. fdt'[mem[c].fd] = who[c]
    BY <2>2, <2>3, <1>4, <1>5
  <2>5. reg'[who[c]] = c
    BY <2>1, <2>2, <1>5 DEF File
  <2> QED  BY <2>1, <2>3, <2>4, <2>5 DEF FileOf
<1>7. ASSUME NEW fd \in Fd, fdt'[fd] \in Conn
      PROVE  \E c \in Sessions' : mem'[c].fd = fd
  <2>1. fd # m.fd /\ fdt[fd] \in Conn
    BY <1>5, <1>7, SocketsAssumption
  <2>2. PICK c \in Sessions : mem[c].fd = fd
    BY <2>1, <1>1 DEF Owned
  <2>3. c \in Sessions'
    BY <2>1, <2>2, <1>2
  <2> QED  BY <2>2, <2>3, <1>2
<1>8. who' \in [Chunk -> Conn \cup {nil}]
  BY DEF Owned
<1> QED  BY <1>6, <1>7, <1>8 DEF Owned

\* The same, action by action.
LEMMA OwnedNameCloses ==
  SInv /\ Owned /\ (name_read_too_long \/ name_read_closes) => Owned'
<1> SUFFICES ASSUME SInv, Owned, name_read_too_long \/ name_read_closes PROVE Owned'
  OBVIOUS
<1>1. pc = "name_read"
  BY DEF name_read_too_long, name_read_closes, NameEnds, NameRead
<1>2. /\ cur \in Chunk /\ mem \in [Chunk -> Client] /\ KernelTypes
      /\ mem[cur] \in Client /\ rx \in [Conn -> Seq(Bytes)]
  BY <1>1, Reader
<1>3. CASE name_read_closes
  <2>1. /\ Closing(cur, mem[cur], 0, 0) /\ Return
        /\ UNCHANGED <<queue, rx, sent, fin, who>>
    BY <1>3 DEF name_read_closes
  <2> QED  BY <2>1, <1>1, <1>2, OwnedClosing
<1>4. CASE name_read_too_long
  <2> DEFINE n == NameStored(mem[cur])
  <2>1. NameRead("data") /\ off \in 0 .. max_name_len
    BY <1>1, <1>4 DEF name_read_too_long, SInv, ThreadInv, HandlerReads
  <2>2. n \in Client /\ n.fd = mem[cur].fd /\ rx' \in [Conn -> Seq(Bytes)]
    BY <1>2, <1>4, <2>1, NameStoredFilled DEF name_read_too_long
  <2>3. Closing(cur, n, 1, 0) /\ Return /\ UNCHANGED <<queue, sent, fin, who>>
    BY <1>4 DEF name_read_too_long
  <2> HIDE DEF n
  <2> QED  BY <2>2, <2>3, <1>1, OwnedClosing
<1> QED  BY <1>3, <1>4

\* The sessions that end after their name was read.
LEMMA OwnedLineCloses ==
  SInv /\ Owned /\ (line_read_too_long \/ line_read_eof \/ line_read_error) => Owned'
<1> SUFFICES ASSUME SInv, Owned, line_read_too_long \/ line_read_eof \/ line_read_error
             PROVE  Owned'
  OBVIOUS
<1>1. pc = "line_read"
  BY DEF line_read_too_long, line_read_eof, line_read_error, LineRead
<1>2. /\ cur \in Chunk /\ mem \in [Chunk -> Client] /\ KernelTypes
      /\ mem[cur] \in Client /\ Filled(mem[cur]) /\ rx \in [Conn -> Seq(Bytes)]
  BY <1>1, Reader
<1>3. CASE line_read_error
  <2>1. /\ Closing(cur, mem[cur], 0, 0) /\ Return
        /\ UNCHANGED <<queue, rx, sent, fin, who>>
    BY <1>3 DEF line_read_error
  <2> QED  BY <2>1, <1>1, <1>2, OwnedClosing
<1>4. CASE line_read_too_long
  <2> DEFINE n == LineStored(mem[cur])
  <2>1. LineRead("data") /\ off \in 0 .. max_line_len
    BY <1>1, <1>4 DEF line_read_too_long, SInv, ThreadInv, HandlerReads
  <2>2. n \in Client /\ n.fd = mem[cur].fd /\ rx' \in [Conn -> Seq(Bytes)]
    BY <1>2, <1>4, <2>1, LineStoredFilled DEF line_read_too_long
  <2>3. Closing(cur, n, 1, 0) /\ Return /\ UNCHANGED <<queue, sent, fin, who>>
    BY <1>4 DEF line_read_too_long
  <2> HIDE DEF n
  <2> QED  BY <2>2, <2>3, <1>1, OwnedClosing
<1>5. CASE line_read_eof
  <2> DEFINE n == LineSent(mem[cur])
             all == LinesSent(mem[cur])
  <2>1. n \in Client /\ n.fd = mem[cur].fd
    BY <1>2, LineSentFilled
  <2>2. Closing(cur, n, 0, all) /\ Return /\ UNCHANGED <<queue, rx, sent, fin, who>>
    BY <1>5 DEF line_read_eof
  <2> HIDE DEF n, all
  <2> QED  BY <2>1, <2>2, <1>1, <1>2, OwnedClosing
<1> QED  BY <1>3, <1>4, <1>5

\* A read or a write changes no descriptor of a client.
LEMMA OwnedReads ==
  SInv /\ Owned /\ (name_read_more \/ name_read_done \/ line_read_more \/ line_read_done)
    => Owned'
<1> SUFFICES ASSUME SInv, Owned,
                    name_read_more \/ name_read_done \/ line_read_more \/ line_read_done
             PROVE  Owned'
  OBVIOUS
<1>1. pc \in {"name_read", "line_read"}
  BY DEF name_read_more, name_read_done, line_read_more, line_read_done, NameRead, LineRead
<1>2. UNCHANGED <<who, fdt, reg>> /\ UNCHANGED poolVars /\ pc' # "epoll_ctl"
  BY <1>1
  DEF name_read_more, name_read_done, line_read_more, line_read_done, histVars, ReadOn,
      Return, HandleNext
<1>3. /\ cur \in Chunk /\ mem \in [Chunk -> Client] /\ mem[cur] \in Client
      /\ Filled(mem[cur]) /\ KernelTypes
  BY <1>1, Reader
<1>4. Sessions' = Sessions
  BY <1>1, <1>2, PoolsSame DEF SInv, Sessions
<1>5. \/ mem' = mem
      \/ \E m \in Client : m.fd = mem[cur].fd /\ mem' = [mem EXCEPT ![cur] = m]
  <2>1. CASE name_read_more
    <3>1. NameRead("data") /\ off \in 0 .. max_name_len
      BY <2>1 DEF name_read_more, NameRead, SInv, ThreadInv, HandlerReads
    <3> DEFINE n == NameStored(mem[cur])
    <3>2. n \in Client /\ n.fd = mem[cur].fd
      BY <1>3, <3>1, NameStoredFilled
    <3>3. mem' = [mem EXCEPT ![cur] = n]
      BY <2>1 DEF name_read_more
    <3> HIDE DEF n
    <3> QED  BY <3>2, <3>3
  <2>2. CASE line_read_more
    <3>1. LineRead("data") /\ off \in 0 .. max_line_len
      BY <2>2 DEF line_read_more, LineRead, SInv, ThreadInv, HandlerReads
    <3> DEFINE n == LineStored(mem[cur])
    <3>2. n \in Client /\ n.fd = mem[cur].fd
      BY <1>3, <3>1, LineStoredFilled
    <3>3. mem' = [mem EXCEPT ![cur] = n]
      BY <2>2 DEF line_read_more
    <3> HIDE DEF n
    <3> QED  BY <3>2, <3>3
  <2>3. ASSUME NEW i \in NamePos(mem[cur]), mem' = [mem EXCEPT ![cur] = Named(mem[cur], i)]
        PROVE  \E m \in Client : m.fd = mem[cur].fd /\ mem' = [mem EXCEPT ![cur] = m]
    <3> DEFINE n == Named(mem[cur], i)
    <3>1. n \in Client /\ n.fd = mem[cur].fd
      BY <1>3, NamedFilled
    <3>2. mem' = [mem EXCEPT ![cur] = n]
      BY <2>3
    <3> HIDE DEF n
    <3> QED  BY <3>1, <3>2
  <2>4. CASE line_read_done
    <3> DEFINE n == LineSent(mem[cur])
    <3>1. n \in Client /\ n.fd = mem[cur].fd
      BY <1>3, LineSentFilled
    <3>2. mem' = [mem EXCEPT ![cur] = n]
      BY <2>4 DEF line_read_done
    <3> HIDE DEF n
    <3> QED  BY <3>1, <3>2
  <2>5. CASE name_read_done
    BY <2>3, <2>5 DEF name_read_done
  <2> QED  BY <2>1, <2>2, <2>4, <2>5
<1>6. \A c \in Sessions : mem'[c].fd = mem[c].fd
  <2>1. CASE mem' = mem
    BY <2>1
  <2>2. ASSUME NEW m \in Client, m.fd = mem[cur].fd, mem' = [mem EXCEPT ![cur] = m],
               NEW c \in Sessions
        PROVE  mem'[c].fd = mem[c].fd
    <3>1. c \in Chunk
      BY LiveMapped DEF SInv, LiveInMapped, Sessions
    <3>2. mem'[c] = IF c = cur THEN m ELSE mem[c]
      BY <1>3, <2>2, <3>1
    <3> QED  BY <2>2, <3>2
  <2> QED  BY <1>5, <2>1, <2>2
<1> QED  BY <1>1, <1>2, <1>4, <1>6, OwnedSame

\* The start, the waiting, what accept4 leaves alone and the peers change no owner.
LEMMA OwnedElsewhere ==
  ASSUME SInv, Owned,
         \/ server_init \/ create_epoll \/ register_listener \/ epoll_wait \/ PeerNext
         \/ accept_drained \/ accept_nomem \/ accept_rejects \/ interrupted \/ accept_fails
         \/ UNCHANGED vars
  PROVE  Owned'
<1>1. CASE server_init \/ create_epoll \/ register_listener
  <2>1. /\ UNCHANGED poolVars /\ UNCHANGED <<fdt, who, cur, sock, mem>>
        /\ pc # "epoll_ctl" /\ pc' # "epoll_ctl"
    BY <1>1 DEF server_init, create_epoll, register_listener, StartStep, histVars
  <2>2. Sessions' = Sessions
    BY <2>1, PoolsSame DEF SInv, Sessions
  <2>3. UNCHANGED <<reg, ready>> \/ Register(serv, serv)
    BY <1>1 DEF server_init, create_epoll, register_listener, StartStep, Running
  <2>4. \A s \in Conn : reg'[s] = reg[s]
    BY <2>3, SocketsAssumption DEF Register, SInv, KernelInv, KernelTypes, File
  <2> QED  BY <2>1, <2>2, <2>4 DEF Owned, FileOf
<1>2. CASE \/ epoll_wait \/ PeerNext \/ accept_drained \/ accept_nomem \/ accept_rejects
           \/ interrupted \/ accept_fails \/ UNCHANGED vars
  <2>1. LiveChunks' = LiveChunks
    BY <1>2, PoolsSame
    DEF SInv, epoll_wait, PeerNext, accept_drained, accept_nomem, accept_rejects,
        interrupted, accept_fails, vars, session_new_nomem, LiveChunks
  <2>2. UNCHANGED <<who, fdt, reg, mem>>
    BY <1>2
    DEF epoll_wait, PeerNext, accept_drained, accept_nomem, accept_rejects, interrupted,
        accept_fails, vars, histVars, sockVars, procVars, Connect, Send, Hangup, Reset
  <2>3. (pc # "epoll_ctl" /\ pc' # "epoll_ctl") \/ UNCHANGED <<pc, cur, sock>>
    BY <1>2
    DEF epoll_wait, PeerNext, accept_drained, accept_nomem, accept_rejects, interrupted,
        accept_fails, vars, procVars, Return, HandleNext
  <2>4. Sessions' = Sessions
    BY <2>1, <2>3 DEF Sessions
  <2> QED  BY <2>2, <2>3, <2>4, OwnedSame
<1> QED  BY <1>1, <1>2

\* A descriptor accept4 returns is conn_sock until it is a session's.
LEMMA OwnedAccept == SInv /\ Owned /\ accept_client => Owned'
<1> SUFFICES ASSUME SInv, Owned, accept_client PROVE Owned'
  OBVIOUS
<1> DEFINE s == Head(queue)
           fd == LowestFreeFd
<1>1. PICK c \in Chunk : /\ session_new(c)
                         /\ mem' = [mem EXCEPT ![c] = Recycled(c)]
                         /\ cur' = c
  BY DEF accept_client
<1>2. /\ queue # <<>> /\ FreeFds # {} /\ pc = "accept" /\ pc' = "epoll_ctl"
      /\ sock' = fd /\ fdt' = [fdt EXCEPT ![fd] = s] /\ UNCHANGED <<reg, who>>
  BY DEF accept_client, histVars
<1>3. fd \in Fd /\ fdt[fd] = "free"
  BY <1>2, LowestIsFree
<1> HIDE DEF s, fd
<1>4. IInv'
  BY <1>1, NextIInv DEF SInv, PoolsNext
<1>5. c \notin LiveChunks /\ LiveChunks' = LiveChunks \cup {c}
  BY <1>1, <1>4, NewImplements DEF SInv, Allocator!session_new
<1>6. Sessions = LiveChunks /\ Sessions' = LiveChunks
  BY <1>1, <1>2, <1>5 DEF Sessions
<1>7. \A d \in LiveChunks : mem'[d] = mem[d]
  BY <1>1, <1>5, LiveMapped DEF SInv, LiveInMapped, MemoryInv
<1>8. fdt \in [Fd -> Conn \cup {"free", "stdin"}] /\ "free" \notin Conn
  BY SocketsAssumption DEF SInv, KernelInv, KernelTypes
<1>9. \A n \in Fd : n # fd => fdt'[n] = fdt[n]
  BY <1>2, <1>3, <1>8
<1>10. ASSUME NEW d \in Sessions'
       PROVE  FileOf(mem[d].fd)' = who'[d] /\ who'[d] \in Conn /\ reg'[who'[d]] = d
  <2>1. /\ mem'[d] = mem[d] /\ FileOf(mem[d].fd) = who[d] /\ who[d] \in Conn
        /\ reg[who[d]] = d
    BY <1>6, <1>7 DEF Owned
  <2>2. mem[d].fd \in Fd /\ fdt[mem[d].fd] = who[d]
    BY <2>1, FileOfConn DEF SInv, KernelInv
  <2>3. fdt'[mem[d].fd] = who[d]
    BY <2>1, <2>2, <1>3, <1>8, <1>9
  <2> QED  BY <2>1, <2>2, <2>3, <1>2 DEF FileOf
<1>11. ASSUME NEW n \in Fd, fdt'[n] \in Conn, n # fd
       PROVE  \E d \in Sessions' : mem'[d].fd = n
  <2>1. fdt[n] \in Conn
    BY <1>9, <1>11
  <2>2. PICK d \in Sessions : mem[d].fd = n
    BY <2>1, <1>2 DEF Owned
  <2> QED  BY <2>2, <1>6, <1>7
<1> QED  BY <1>2, <1>10, <1>11 DEF Owned

\* With the client's fields set and its socket registered it is a session.
LEMMA OwnedRegister == SInv /\ Owned /\ register => Owned'
<1> SUFFICES ASSUME SInv, Owned, register PROVE Owned'
  OBVIOUS
<1> DEFINE s == fdt[sock]
           m == SetUp(mem[cur])
<1>1. /\ pc = "epoll_ctl" /\ pc' = "accept" /\ UNCHANGED poolVars /\ UNCHANGED fdt
      /\ Register(s, cur) /\ mem' = [mem EXCEPT ![cur] = m]
      /\ who' = [who EXCEPT ![cur] = s]
  BY DEF register, AcceptOn
<1>2. /\ cur \in LiveChunks /\ sock \in Fd /\ s \in Conn /\ reg[s] = nil
  BY <1>1 DEF SInv, HandlerAccepts
<1>3. LiveChunks' = LiveChunks /\ LiveChunks \subseteq Chunk
  BY <1>1, PoolsSame, LiveMapped DEF SInv, LiveInMapped
<1>4. Sessions = LiveChunks \ {cur} /\ Sessions' = LiveChunks
  BY <1>1, <1>3 DEF Sessions
<1>5. mem \in [Chunk -> Client] /\ m.fd = sock /\ cur \in Chunk /\ cur # nil
  BY <1>2, <1>3, SetUpFilled, ServerAssumption DEF SInv, MemoryInv
<1> HIDE DEF m
<1>6. \A c \in Chunk : mem'[c] = IF c = cur THEN m ELSE mem[c]
  BY <1>1, <1>5
<1>7. who' \in [Chunk -> Conn \cup {nil}]
      /\ \A c \in Chunk : who'[c] = IF c = cur THEN s ELSE who[c]
  BY <1>1, <1>2, <1>5 DEF Owned
<1>8. reg' = [reg EXCEPT ![s] = cur] /\ reg \in [File -> Chunk \cup {nil, serv}] /\ s \in File
  BY <1>1, <1>2 DEF Register, SInv, KernelInv, KernelTypes, File
<1> HIDE DEF s
<1>9. ASSUME NEW c \in Sessions'
      PROVE  FileOf(mem[c].fd)' = who'[c] /\ who'[c] \in Conn /\ reg'[who'[c]] = c
  <2>1. CASE c = cur
    <3>1. mem'[c].fd = sock /\ who'[c] = s /\ fdt'[sock] = s /\ reg'[s] = cur
      BY <2>1, <1>1, <1>5, <1>6, <1>7, <1>8 DEF s
    <3> QED  BY <2>1, <3>1, <1>2 DEF FileOf
  <2>2. CASE c # cur
    <3>1. /\ c \in Sessions /\ FileOf(mem[c].fd) = who[c] /\ who[c] \in Conn
          /\ reg[who[c]] = c
      BY <2>2, <1>4 DEF Owned
    <3>2. c \in Chunk /\ mem'[c] = mem[c] /\ who'[c] = who[c]
      BY <2>2, <1>3, <1>4, <1>6, <1>7
    <3>3. who[c] # s
      BY <3>1, <3>2, <1>2, ServerAssumption
    <3>4. reg'[who[c]] = c
      BY <3>1, <3>3, <1>8 DEF File
    <3> QED  BY <3>1, <3>2, <3>4, <1>1 DEF FileOf
  <2> QED  BY <2>1, <2>2
<1>10. ASSUME NEW fd \in Fd, fdt'[fd] \in Conn
       PROVE  \E c \in Sessions' : mem'[c].fd = fd
  <2>1. CASE fd = sock
    BY <2>1, <1>2, <1>4, <1>5, <1>6
  <2>2. CASE fd # sock
    <3>1. PICK c \in Sessions : mem[c].fd = fd
      BY <2>2, <1>1, <1>10 DEF Owned
    <3>2. c \in Chunk /\ c # cur /\ c \in Sessions'
      BY <1>3, <1>4
    <3> QED  BY <3>1, <3>2, <1>6
  <2> QED  BY <2>1, <2>2
<1> QED  BY <1>7, <1>9, <1>10 DEF Owned

\* Every step keeps the owners, if epoll_ctl does not fail.
LEMMA NextOwned == SInv /\ OwnedInv /\ [Next]_vars => OwnedInv'
<1> SUFFICES ASSUME SInv, Owned, ~ EpollCtlMayFail, [Next]_vars PROVE Owned'
  BY DEF OwnedInv
<1>1. ~ register_fails
  BY DEF register_fails
<1> QED
  BY <1>1, OwnedElsewhere, OwnedAccept, OwnedRegister, OwnedNameCloses, OwnedLineCloses,
     OwnedReads
  DEF Next, ServerNext

\* No socket of a client is open at first.
LEMMA InitOwned == Init => OwnedInv
<1> SUFFICES ASSUME Init PROVE Owned
  BY DEF OwnedInv
<1>1. Sessions = {}
  BY InitImplements DEF Init, Allocator!Init, Sessions
<1>2. \A fd \in Fd : fdt[fd] \notin Conn
  BY SocketsAssumption DEF Init, SocketsInit
<1> QED  BY <1>1, <1>2 DEF Init, Owned

\* As long as epoll_ctl does not fail no descriptor is leaked, closed twice or shared:
\* every session has a socket of its own, registered under the session's address, and every
\* open socket is some session's.  (When epoll_ctl fails conn_sock stays open.)
THEOREM EverySocketOwned == Spec => [](~ EpollCtlMayFail => SocketsOwned)
<1>1. Spec => []OwnedInv
  BY InitOwned, NextOwned, ServerInvariant, PTL DEF Spec
<1>2. OwnedInv => (~ EpollCtlMayFail => SocketsOwned)
  BY DEF OwnedInv, Owned, SocketsOwned
<1> QED  BY <1>1, <1>2, PTL

=============================================================================
