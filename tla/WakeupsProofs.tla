--------------------------- MODULE WakeupsProofs ---------------------------
(***************************************************************************)
(* Edge-triggered epoll reports new events only.  A proof that ChatServer  *)
(* loses none, for any number of connections, descriptors and events:      *)
(* whatever the server could still read or accept is queued in epoll, is   *)
(* among the events of the batch, or is what the running handler reads     *)
(* until there is nothing more.                                            *)
(***************************************************************************)
EXTENDS SessionsProofs

-----------------------------------------------------------------------------
(***************************************************************************)
(* The inductive invariant.                                                *)
(***************************************************************************)

Starting == pc \in {"listen", "epoll_create1", "epoll_add"}
Reading == pc \in {"name_read", "line_read"}
Accepting == pc \in {"accept", "epoll_ctl"}

InReady(f) == \E i \in 1 .. Len(ready) : ready[i] = f
Pending(ptr) == \E i \in 1 .. Len(evt) : evt[i] = ptr

\* File f will be looked at before the server waits again, or wakes it up.
Covered(f) ==
  \/ InReady(f)
  \/ Pending(reg[f])
  \/ f = serv /\ Accepting
  \/ f # serv /\ Reading /\ cur = reg[f]

Wakes == \A f \in File : reg[f] # nil /\ Readable(f) => Covered(f)

WakeInv ==
  /\ Starting \/ reg[serv] = serv
  /\ Starting \/ pc = "epoll_wait" => evt = <<>>
  /\ Wakes

-----------------------------------------------------------------------------
(***************************************************************************)
(* What keeps a file covered.                                              *)
(***************************************************************************)

\* The next handler is that of an event that was pending.
LEMMA HandlerCovers ==
  ASSUME NEW events \in Seq(Chunk \cup {serv}), HandleNext(events),
         NEW ptr, NEW i \in 1 .. Len(events), events[i] = ptr
  PROVE  \/ Pending(ptr)'
         \/ ptr = serv /\ Accepting'
         \/ ptr # serv /\ Reading' /\ cur' = ptr
<1> DEFINE rest == Tail(events)
           first == Head(events)
<1>1. events # <<>>
  OBVIOUS
<1>2. /\ Len(events) \in Nat /\ first = events[1] /\ rest \in Seq(Chunk \cup {serv})
      /\ Len(rest) = Len(events) - 1 /\ \A j \in 1 .. Len(rest) : rest[j] = events[j + 1]
  BY <1>1, HeadTailProperties, LenProperties
<1>3. evt' = rest
  BY <1>1 DEF HandleNext
<1>4. CASE i = 1
  BY <1>1, <1>2, <1>4 DEF HandleNext, Accepting, Reading
<1>5. CASE i # 1
  <2> HIDE DEF rest
  <2>1. i - 1 \in 1 .. Len(rest) /\ rest[i - 1] = ptr
    BY <1>2, <1>5
  <2> QED  BY <2>1, <1>3 DEF Pending
<1> QED  BY <1>4, <1>5

\* A pointer is serv for the listening socket only.
LEMMA ServPointer ==
  ASSUME SInv, reg[serv] = serv, NEW f \in File, reg[f] # nil
  PROVE  (reg[f] = serv) = (f = serv)
<1>1. serv \in File
  BY DEF File
<1> QED  BY <1>1, PointersDiffer

\* A handler returns that has nothing more to read or accept: what was covered for another
\* reason is covered.
LEMMA ReturnCovers ==
  ASSUME SInv, reg[serv] = serv, Return,
         NEW f \in File, Covered(f), reg[f] # nil, reg'[f] = reg[f],
         InReady(f) => InReady(f)',
         ~ (f = serv /\ Accepting), ~ (f # serv /\ Reading /\ cur = reg[f])
  PROVE  Covered(f)'
<1>1. CASE InReady(f)
  BY <1>1 DEF Covered
<1>2. CASE Pending(reg[f])
  <2>1. PICK ptr : ptr = reg[f]
    OBVIOUS
  <2>2. PICK i \in 1 .. Len(evt) : evt[i] = ptr
    BY <1>2, <2>1 DEF Pending
  <2>3. evt \in Seq(Chunk \cup {serv}) /\ HandleNext(evt)
    BY DEF SInv, ThreadInv, ThreadTypes, Return
  <2>4. \/ Pending(ptr)'
        \/ ptr = serv /\ Accepting'
        \/ ptr # serv /\ Reading' /\ cur' = ptr
    BY <2>2, <2>3, HandlerCovers
  <2>5. (ptr = serv) = (f = serv)
    BY <2>1, ServPointer
  <2>6. reg'[f] = ptr
    BY <2>1
  <2> QED  BY <2>4, <2>5, <2>6 DEF Covered, Pending
<1> QED  BY <1>1, <1>2 DEF Covered

\* The batch and the handler stay as they are.
LEMMA StaysCovered ==
  ASSUME NEW f \in File, Covered(f), UNCHANGED evt, reg'[f] = reg[f],
         InReady(f) => InReady(f)',
         Accepting => Accepting', Reading => Reading' /\ cur' = cur
  PROVE  Covered(f)'
BY DEF Covered, Pending

\* A file queued in epoll stays there when another one is.
LEMMA QueueReadyCovers ==
  ASSUME KernelTypes, NEW f, QueueReady(f) \/ UNCHANGED ready
  PROVE  /\ \A g : InReady(g) => InReady(g)'
         /\ QueueReady(f) => InReady(f)'
<1>1. ready \in Seq(File) /\ Len(ready) \in Nat
  BY LenProperties DEF KernelTypes
<1>2. CASE UNCHANGED ready
  <2>1. \A g : InReady(g) <=> InReady(g)'
    BY <1>2 DEF InReady
  <2>2. ASSUME QueueReady(f) PROVE InReady(f)
    <3>1. CASE Contains(ready, f)
      BY <3>1 DEF Contains, InReady
    <3>2. CASE ~ Contains(ready, f)
      <4>1. ready' = Append(ready, f)
        BY <2>2, <3>2 DEF QueueReady
      <4>2. Len(Append(ready, f)) = Len(ready) + 1
        BY <1>1
      <4> QED  BY <4>1, <4>2, <1>1, <1>2
    <3> QED  BY <3>1, <3>2
  <2> QED  BY <2>1, <2>2
<1>3. CASE Contains(ready, f) /\ QueueReady(f)
  <2>1. ready' = ready /\ InReady(f)
    BY <1>3 DEF QueueReady, Contains, InReady
  <2> QED  BY <2>1 DEF InReady
<1>4. CASE ~ Contains(ready, f) /\ QueueReady(f)
  <2>1. ready' = Append(ready, f)
    BY <1>4 DEF QueueReady
  <2>2. /\ Len(ready') = Len(ready) + 1 /\ ready'[Len(ready) + 1] = f
        /\ \A i \in 1 .. Len(ready) : ready'[i] = ready[i]
    BY <1>1, <2>1
  <2>3. InReady(f)'
    BY <1>1, <2>2 DEF InReady
  <2>4. ASSUME NEW g, InReady(g) PROVE InReady(g)'
    <3>1. PICK i \in 1 .. Len(ready) : ready[i] = g
      BY <2>4 DEF InReady
    <3>2. i \in 1 .. Len(ready') /\ ready'[i] = g
      BY <3>1, <2>2, <1>1
    <3> QED  BY <3>2 DEF InReady
  <2> QED  BY <2>3, <2>4
<1> QED  BY <1>2, <1>3, <1>4

\* A write changes what a reset did to a socket, not that there was one.
LEMMA WritesReadable ==
  ASSUME NEW n, MakeWrites(n), UNCHANGED queue, NEW f \in File,
         (f # serv /\ rx'[f] # <<>>) => rx[f] # <<>>, UNCHANGED fin
  PROVE  Readable(f)' => Readable(f)
BY DEF MakeWrites, ErrAfterWrites, Readable, File

\* After a handler the server waits only if no event is left.
LEMMA HandlerWaits ==
  ASSUME NEW events, HandleNext(events)
  PROVE  ~ Starting' /\ (pc' = "epoll_wait" => evt' = <<>>)
BY DEF HandleNext, Starting

\* A handler returns: every file that is readable after the step was covered before it,
\* and not by this handler.
LEMMA ReturnKeepsWakes ==
  ASSUME SInv, WakeInv, ~ Starting, Return, reg'[serv] = reg[serv],
         \A f \in File : reg'[f] # nil /\ Readable(f)' =>
           /\ reg'[f] = reg[f] /\ Readable(f) /\ (InReady(f) => InReady(f)')
           /\ ~ (f = serv /\ Accepting) /\ ~ (f # serv /\ Reading /\ cur = reg[f])
  PROVE  WakeInv'
<1>1. reg[serv] = serv /\ reg'[serv] = serv
  BY DEF WakeInv
<1>2. ~ Starting' /\ (pc' = "epoll_wait" => evt' = <<>>)
  BY HandlerWaits DEF Return
<1>3. ASSUME NEW f \in File, reg'[f] # nil, Readable(f)' PROVE Covered(f)'
  <2>1. /\ reg'[f] = reg[f] /\ Readable(f) /\ (InReady(f) => InReady(f)')
        /\ ~ (f = serv /\ Accepting) /\ ~ (f # serv /\ Reading /\ cur = reg[f])
    BY <1>3
  <2>2. Covered(f)
    BY <1>3, <2>1 DEF WakeInv, Wakes
  <2> QED  BY <1>1, <1>3, <2>1, <2>2, ReturnCovers
<1> QED  BY <1>1, <1>2, <1>3 DEF WakeInv, Wakes

\* The handler goes on, or the thread does nothing: what was covered still is, and what was
\* not is queued.
LEMMA StayKeepsWakes ==
  ASSUME WakeInv, UNCHANGED evt, Starting' => Starting, Starting \/ reg'[serv] = reg[serv],
         Accepting => Accepting', Reading => Reading' /\ cur' = cur,
         pc' = "epoll_wait" => pc = "epoll_wait",
         \A f \in File : reg'[f] # nil /\ Readable(f)' =>
           \/ InReady(f)'
           \/ f = serv /\ Accepting'
           \/ reg'[f] = reg[f] /\ Readable(f) /\ (InReady(f) => InReady(f)')
  PROVE  Wakes' /\ (Starting \/ WakeInv')
<1>1. ASSUME NEW f \in File, reg'[f] # nil, Readable(f)' PROVE Covered(f)'
  <2>1. CASE InReady(f)' \/ (f = serv /\ Accepting')
    BY <2>1 DEF Covered
  <2>2. CASE reg'[f] = reg[f] /\ Readable(f) /\ (InReady(f) => InReady(f)')
    <3>1. Covered(f)
      BY <1>1, <2>2 DEF WakeInv, Wakes
    <3> QED  BY <2>2, <3>1, StaysCovered
  <2> QED  BY <1>1, <2>1, <2>2
<1> QED  BY <1>1 DEF WakeInv, Wakes

\* A file that is still registered after session_close is not the closed one, and has kept
\* its place in epoll's list.
LEMMA ClosingCovers ==
  ASSUME SInv, NEW c, NEW m, NEW own, NEW all, Closing(c, m, own, all),
         UNCHANGED <<queue, fin>>,
         NEW f \in File, reg'[f] # nil, f # serv => (rx'[f] # <<>> => rx[f] # <<>>)
  PROVE  /\ reg'[f] = reg[f] /\ f # FileOf(m.fd)
         /\ InReady(f) => InReady(f)'
         /\ Readable(f)' => Readable(f)
<1> DEFINE g == FileOf(m.fd)
<1>1. /\ reg' = [h \in File |-> IF h = g THEN nil ELSE reg[h]]
      /\ ready' = Kept(ready, File \ {g})
      /\ MakeWrites(Writes(c, own, all + IF Announced(m) THEN 1 ELSE 0))
  BY DEF Closing, CloseClient, CloseFd
<1> HIDE DEF g
<1>2. f # g /\ reg'[f] = reg[f]
  BY <1>1
<1>3. KeptSoFar(ready, File \ {g}, File, ready', Len(ready))
  BY <1>1, KeptProperties DEF SInv, KernelInv, KernelTypes
<1>4. InReady(f) => InReady(f)'
  BY <1>2, <1>3 DEF KeptSoFar, InReady
<1>5. Readable(f)' => Readable(f)
  BY <1>1, WritesReadable
<1> QED  BY <1>2, <1>4, <1>5 DEF g

\* reg[serv] only changes when the listening socket is registered.
LEMMA ClosingKeepsServ ==
  ASSUME SInv, NEW c, NEW m, NEW own, NEW all, Closing(c, m, own, all)
  PROVE  reg'[serv] = reg[serv]
<1>1. FileOf(m.fd) # serv
  BY FileOfConn DEF SInv, KernelInv
<1> QED  BY <1>1 DEF Closing, CloseClient, CloseFd, File

-----------------------------------------------------------------------------
(***************************************************************************)
(* The steps.                                                              *)
(***************************************************************************)

\* The start: the listening socket is queued when it is registered, if connections wait.
LEMMA StartWakes ==
  SInv /\ WakeInv /\ (server_init \/ create_epoll \/ register_listener) => WakeInv'
<1> SUFFICES ASSUME SInv, WakeInv, server_init \/ create_epoll \/ register_listener
             PROVE  WakeInv'
  OBVIOUS
<1>1. /\ Starting /\ UNCHANGED <<queue, rx, fin, err, evt, cur>>
      /\ ~ Accepting /\ ~ Reading
  BY DEF server_init, create_epoll, register_listener, StartStep, Starting, Accepting, Reading
<1>2. \A f \in File : Readable(f)' = Readable(f)
  BY <1>1 DEF Readable
<1>3. CASE UNCHANGED <<reg, ready>> /\ (Starting' \/ UNCHANGED pc)
  <2>1. \A f : InReady(f) => InReady(f)'
    BY <1>3 DEF InReady
  <2>2. Starting'
    BY <1>1, <1>3 DEF Starting
  <2>3. ASSUME NEW f \in File, reg'[f] # nil, Readable(f)' PROVE Covered(f)'
    <3>1. Covered(f) /\ reg'[f] = reg[f]
      BY <1>2, <1>3, <2>3 DEF WakeInv, Wakes
    <3> QED  BY <3>1, <2>1, <1>1, StaysCovered
  <2>4. evt' = <<>>
    BY <1>1 DEF WakeInv
  <2> QED  BY <2>2, <2>3, <2>4 DEF WakeInv, Wakes, Starting
<1>4. CASE register_listener /\ ~ killed'
  <2>1. Register(serv, serv) /\ pc' = "epoll_wait" /\ pc = "epoll_add"
    BY <1>4 DEF register_listener, StartStep
  <2>2. reg' = [reg EXCEPT ![serv] = serv] /\ reg \in [File -> Chunk \cup {nil, serv}]
    BY <2>1 DEF Register, SInv, KernelInv, KernelTypes
  <2>3. QueueReady(serv) \/ UNCHANGED ready
    BY <2>1 DEF Register
  <2>4. (\A g : InReady(g) => InReady(g)') /\ (QueueReady(serv) => InReady(serv)')
    BY <2>3, QueueReadyCovers DEF SInv, KernelInv
  <2>5. ASSUME NEW f \in File, reg'[f] # nil, Readable(f)' PROVE Covered(f)'
    <3>1. CASE f = serv
      BY <3>1, <2>1, <2>4, <2>5, <1>2 DEF Register, Covered
    <3>2. CASE f # serv
      <4>1. Covered(f) /\ reg'[f] = reg[f]
        BY <1>2, <3>2, <2>2, <2>5 DEF WakeInv, Wakes
      <4> QED  BY <4>1, <2>4, <1>1, StaysCovered
    <3> QED  BY <3>1, <3>2
  <2>6. reg'[serv] = serv /\ evt' = <<>>
    BY <2>2, <1>1 DEF WakeInv, Starting, File
  <2> QED  BY <2>1, <2>5, <2>6 DEF WakeInv, Wakes, Starting
<1>5. \/ UNCHANGED <<reg, ready>> /\ (Starting' \/ UNCHANGED pc)
      \/ register_listener /\ ~ killed'
  BY DEF server_init, create_epoll, register_listener, StartStep, Starting, Running
<1> QED  BY <1>3, <1>4, <1>5

\* What epoll_wait takes off its list and drops has nothing to report; the rest is in the
\* batch, or still in the list when the batch is full.
LEMMA EpollWaitWakes == SInv /\ WakeInv /\ epoll_wait => WakeInv'
<1> SUFFICES ASSUME SInv, WakeInv, epoll_wait PROVE WakeInv'
  OBVIOUS
<1>1. PICK k \in 1 .. Len(ready) :
        /\ HandleNext([i \in DOMAIN Reported(k) |-> reg[Reported(k)[i]]])
        /\ ready' = SubSeq(ready, k + 1, Len(ready))
  BY DEF epoll_wait
<1>2. /\ pc = "epoll_wait" /\ UNCHANGED <<queue, rx, fin, err, reg>>
      /\ ready \in Seq(File) /\ Len(ready) \in Nat
      /\ reg \in [File -> Chunk \cup {nil, serv}]
      /\ \A i \in 1 .. Len(ready) : reg[ready[i]] # nil
  BY LenProperties DEF epoll_wait, SInv, KernelInv, KernelTypes, ReadyRegistered
<1> DEFINE taken == SubSeq(ready, 1, k)
           rep == Reported(k)
           events == [i \in DOMAIN rep |-> reg[rep[i]]]
<1>3. /\ taken \in Seq(File) /\ Len(taken) = k
      /\ \A i \in 1 .. k : taken[i] = ready[i]
  BY <1>2, SubSeqProperties
<1>4. KeptSoFar(taken, {f \in File : Readable(f)}, File, rep, k)
  BY <1>3, KeptProperties DEF Reported
<1>5. /\ rep \in Seq(File) /\ Len(rep) \in Nat
      /\ \A i \in 1 .. Len(rep) : \E j \in 1 .. k : rep[i] = taken[j]
      /\ \A j \in 1 .. k : Readable(taken[j]) => \E i \in 1 .. Len(rep) : rep[i] = taken[j]
  <2>1. rep \in Seq(File) /\ Len(rep) \in Nat
    BY <1>4, LenProperties DEF KeptSoFar
  <2>2. \A j \in 1 .. k : taken[j] \in File
    BY <1>3, ElementOfSeq
  <2> QED  BY <1>4, <2>1, <2>2 DEF KeptSoFar
<1> HIDE DEF taken, rep
<1>6. /\ events \in Seq(Chunk \cup {serv}) /\ Len(events) = Len(rep)
      /\ \A i \in 1 .. Len(rep) : events[i] = reg[rep[i]]
  <2>1. DOMAIN rep = 1 .. Len(rep)
    BY <1>5, LenProperties
  <2>2. ASSUME NEW i \in 1 .. Len(rep) PROVE reg[rep[i]] \in Chunk \cup {serv}
    <3>1. PICK j \in 1 .. k : rep[i] = taken[j]
      BY ONLY <1>5, i \in 1 .. Len(rep)
    <3>2. rep[i] = ready[j]
      BY ONLY <1>3, <3>1
    <3>3. ready[j] \in File /\ reg[ready[j]] # nil
      BY <1>2, ElementOfSeq
    <3> QED  BY <1>2, <3>2, <3>3
  <2> QED  BY <2>1, <2>2, <1>5, IsASeq
<1>7. HandleNext(events)
  BY <1>1 DEF rep
<1> HIDE DEF events
<1>8. ~ Starting' /\ (pc' = "epoll_wait" => evt' = <<>>) /\ reg[serv] = serv
  BY <1>7, <1>2, HandlerWaits DEF WakeInv, Starting
<1>9. ASSUME NEW f \in File, reg'[f] # nil, Readable(f)' PROVE Covered(f)'
  <2>1. Readable(f) /\ reg[f] # nil /\ reg'[f] = reg[f]
    BY <1>9, <1>2 DEF Readable
  <2>2. evt = <<>> /\ ~ Accepting /\ ~ Reading /\ Covered(f)
    BY <1>2, <2>1 DEF WakeInv, Wakes, Accepting, Reading
  <2>3. PICK i \in 1 .. Len(ready) : ready[i] = f
    BY <2>2 DEF Covered, InReady, Pending
  <2>4. CASE i > k
    <3>1. /\ Len(ready') = Len(ready) - k
          /\ \A j \in 1 .. Len(ready) - k : ready'[j] = ready[j + k]
      BY <1>1, <1>2
    <3>2. i - k \in 1 .. Len(ready) - k /\ (i - k) + k = i
      BY <2>4, <1>2
    <3>3. InReady(f)'
      BY <3>1, <3>2, <2>3 DEF InReady
    <3> QED  BY <3>3 DEF Covered
  <2>5. CASE i <= k
    <3>1. i \in 1 .. k /\ taken[i] = f
      BY <2>3, <2>5, <1>3
    <3>2. PICK j \in 1 .. Len(rep) : rep[j] = f
      BY <3>1, <2>1, <1>5
    <3>3. PICK ptr : ptr = reg[f]
      OBVIOUS
    <3>4. j \in 1 .. Len(events) /\ events[j] = ptr
      BY <3>2, <3>3, <1>6
    <3>5. \/ Pending(ptr)'
          \/ ptr = serv /\ Accepting'
          \/ ptr # serv /\ Reading' /\ cur' = ptr
      BY <3>4, <1>6, <1>7, HandlerCovers
    <3>6. (ptr = serv) = (f = serv) /\ reg'[f] = ptr
      BY <3>3, <2>1, <1>8, ServPointer
    <3> QED  BY <3>5, <3>6 DEF Covered, Pending
  <2> QED  BY <2>3, <2>4, <2>5, <1>2
<1> QED  BY <1>2, <1>8, <1>9 DEF WakeInv, Wakes

\* The accept handler goes on until the queue is empty or the server waits for epoll_ctl.
LEMMA AcceptWakes ==
  SInv /\ WakeInv /\ (accept_drained \/ accept_client \/ accept_rejects) => WakeInv'
<1> SUFFICES ASSUME SInv, WakeInv, accept_drained \/ accept_client \/ accept_rejects
             PROVE  WakeInv'
  OBVIOUS
<1>1. /\ pc = "accept" /\ ~ Starting /\ ~ Reading /\ Accepting
      /\ UNCHANGED <<rx, fin, reg, ready>>
  BY DEF accept_drained, accept_client, accept_rejects, sockVars, Starting, Reading, Accepting
<1>2. \A f : InReady(f) => InReady(f)'
  BY <1>1 DEF InReady
<1>3. CASE accept_drained
  <2>1. queue = <<>> /\ Return /\ UNCHANGED <<queue, err>>
    BY <1>3 DEF accept_drained, sockVars
  <2>2. ASSUME NEW f \in File, Readable(f)' PROVE Readable(f) /\ f # serv
    BY <2>1, <2>2, <1>1 DEF Readable
  <2> QED  BY <2>1, <2>2, <1>1, <1>2, ReturnKeepsWakes
<1>4. CASE accept_client
  <2>1. pc' = "epoll_ctl" /\ UNCHANGED <<err, evt>>
    BY <1>4 DEF accept_client
  <2>2. ASSUME NEW f \in File, Readable(f)', f # serv PROVE Readable(f)
    BY <2>1, <2>2, <1>1 DEF Readable
  <2>3. Accepting' /\ ~ Starting'
    BY <2>1 DEF Accepting, Starting
  <2> QED  BY <2>1, <2>2, <2>3, <1>1, <1>2, StayKeepsWakes
<1>5. CASE accept_rejects
  <2>1. UNCHANGED <<pc, evt>>
    BY <1>5 DEF accept_rejects
  <2>2. PICK n : MakeWrites(n)
    BY <1>5 DEF accept_rejects
  <2>3. ASSUME NEW f \in File, Readable(f)', f # serv PROVE Readable(f)
    BY <2>2, <2>3, <1>1 DEF MakeWrites, ErrAfterWrites, Readable, File
  <2>4. Accepting' /\ ~ Starting'
    BY <2>1, <1>1 DEF Accepting, Starting
  <2> QED  BY <2>1, <2>3, <2>4, <1>1, <1>2, StayKeepsWakes
<1> QED  BY <1>3, <1>4, <1>5

\* What has come before epoll_ctl queues the new connection.
LEMMA RegisterWakes == SInv /\ WakeInv /\ register => WakeInv'
<1> SUFFICES ASSUME SInv, WakeInv, register PROVE WakeInv'
  OBVIOUS
<1>0. PICK s : s = fdt[sock]
  OBVIOUS
<1>1. /\ pc = "epoll_ctl" /\ pc' = "accept" /\ UNCHANGED <<queue, rx, fin, evt>>
      /\ Register(s, cur) /\ \E n : MakeWrites(n)
  BY <1>0 DEF register, AcceptOn
<1>2. s \in Conn /\ s \in File /\ s # serv
  BY <1>0, <1>1, SocketsAssumption DEF SInv, HandlerAccepts, File
<1>3. reg' = [reg EXCEPT ![s] = cur] /\ reg \in [File -> Chunk \cup {nil, serv}]
  BY <1>1 DEF Register, SInv, KernelInv, KernelTypes
<1>4. \A f \in File : Readable(f)' => Readable(f)
  BY <1>1, WritesReadable
<1>5. QueueReady(s) \/ UNCHANGED ready
  BY <1>1 DEF Register
<1>6. (\A g : InReady(g) => InReady(g)') /\ (QueueReady(s) => InReady(s)')
  BY <1>5, QueueReadyCovers DEF SInv, KernelInv
<1>7. Readable(s) => InReady(s)'
  BY <1>1, <1>6 DEF Register
<1>8. /\ ~ Starting /\ ~ Starting' /\ ~ Reading /\ Accepting'
      /\ reg'[serv] = reg[serv]
  BY <1>1, <1>2, <1>3 DEF Starting, Reading, Accepting, File
<1>9. ASSUME NEW f \in File, reg'[f] # nil, Readable(f)'
      PROVE  InReady(f)' \/ (reg'[f] = reg[f] /\ Readable(f) /\ (InReady(f) => InReady(f)'))
  BY <1>2, <1>3, <1>4, <1>6, <1>7, <1>9
<1> QED  BY <1>1, <1>8, <1>9, StayKeepsWakes

\* A chunk that cannot be registered goes back; the listening socket is still to be read.
LEMMA RegisterFailsWakes == SInv /\ WakeInv /\ register_fails => WakeInv'
<1> SUFFICES ASSUME SInv, WakeInv, register_fails PROVE WakeInv'
  OBVIOUS
<1>1. /\ pc = "epoll_ctl" /\ pc' = "accept" /\ UNCHANGED <<queue, rx, fin, evt>>
      /\ Closing(cur, mem[cur], 0, 0)
  BY DEF register_fails, AcceptOn
<1>2. ~ Starting /\ ~ Starting' /\ ~ Reading /\ Accepting' /\ reg'[serv] = reg[serv]
  BY <1>1, ClosingKeepsServ DEF Starting, Reading, Accepting
<1>3. ASSUME NEW f \in File, reg'[f] # nil, Readable(f)'
      PROVE  reg'[f] = reg[f] /\ Readable(f) /\ (InReady(f) => InReady(f)')
  BY <1>1, <1>3, ClosingCovers
<1> QED  BY <1>1, <1>2, <1>3, StayKeepsWakes

\* What is left to read was there before the read.
LEMMA ConsumedBefore ==
  ASSUME KernelTypes, NEW count \in Nat, Consume(count), NEW f \in Conn, rx'[f] # <<>>
  PROVE  rx[f] # <<>>
<1> DEFINE s == FileOf(mem[cur].fd)
<1>1. /\ rx \in [Conn -> Seq(Bytes)]
      /\ rx' = [rx EXCEPT ![s] = SubSeq(@, ReadLen(s, count) + 1, Len(@))]
  BY DEF KernelTypes, Consume
<1> HIDE DEF s
<1>2. SUFFICES ASSUME rx[f] = <<>>, f = s PROVE FALSE
  BY <1>1
<1>3. Len(rx[s]) = 0 /\ ReadLen(s, count) = 0
  BY <1>2 DEF ReadLen
<1>4. rx'[f] = SubSeq(rx[s], 1, 0)
  BY <1>1, <1>2, <1>3
<1> QED  BY <1>4, SubSeqEmpty

\* A registered file whose pointer is the running handler's client is the client's socket.
LEMMA HandlerSocket ==
  ASSUME SInv, NEW f \in File, f # serv, reg[f] # nil, cur = reg[f]
  PROVE  FileOf(mem[cur].fd) = f
BY DEF SInv, RegisteredSessions, File

\* A handler asks for as much as it has room for.
LEMMA RoomLeft ==
  ASSUME SInv
  PROVE  /\ pc = "name_read" => max_name_len - off \in Nat
         /\ pc = "line_read" => max_line_len - off \in Nat
BY ServerAssumption DEF SInv, ThreadInv, HandlerReads

\* The handlers that read again.
LEMMA ReadMoreWakes ==
  SInv /\ WakeInv /\ (name_read_more \/ line_read_more) => WakeInv'
<1> SUFFICES ASSUME SInv, WakeInv, name_read_more \/ line_read_more PROVE WakeInv'
  OBVIOUS
<1>1. /\ Reading /\ ReadOn /\ UNCHANGED <<queue, fin, err, reg, ready>>
      /\ \E count \in Nat : Consume(count)
  BY RoomLeft DEF name_read_more, line_read_more, NameRead, LineRead, Reading
<1>2. /\ ~ Starting /\ ~ Starting' /\ ~ Accepting /\ pc' # "epoll_wait"
      /\ Reading' /\ UNCHANGED <<cur, evt>>
  BY <1>1 DEF ReadOn, Starting, Reading, Accepting
<1>3. ASSUME NEW f \in File, Readable(f)' PROVE Readable(f)
  <2>1. f # serv => f \in Conn
    BY DEF File
  <2>2. ASSUME f \in Conn, rx'[f] # <<>> PROVE rx[f] # <<>>
    BY <1>1, <2>2, ConsumedBefore DEF SInv, KernelInv
  <2> QED  BY <1>1, <1>3, <2>1, <2>2 DEF Readable
<1>4. \A f : InReady(f) => InReady(f)'
  BY <1>1 DEF InReady
<1> QED  BY <1>1, <1>2, <1>3, <1>4, StayKeepsWakes

\* The handlers that have read everything there is: EAGAIN means that the socket is not
\* readable.
LEMMA ReadDoneWakes ==
  SInv /\ WakeInv /\ (name_read_done \/ line_read_done) => WakeInv'
<1> SUFFICES ASSUME SInv, WakeInv, name_read_done \/ line_read_done PROVE WakeInv'
  OBVIOUS
<1>1. /\ Reading /\ Return /\ UNCHANGED <<queue, rx, fin, reg, ready>>
      /\ \E count : ReadResult(mem[cur].fd, count) = "again"
      /\ UNCHANGED err \/ \E n : MakeWrites(n)
  BY DEF name_read_done, line_read_done, NameRead, LineRead, Reading
<1>2. ~ Starting /\ ~ Accepting
  BY <1>1 DEF Starting, Reading, Accepting
<1>3. FileOf(mem[cur].fd) \in Conn => ~ Readable(FileOf(mem[cur].fd))
  <2> DEFINE s == FileOf(mem[cur].fd)
  <2>1. PICK count : ReadResult(mem[cur].fd, count) = "again"
    BY <1>1
  <2>2. SUFFICES ASSUME s \in Conn PROVE ~ Readable(s)
    OBVIOUS
  <2>3. /\ err[s] \in {"ok", "reset", "pipe"} /\ fin[s] \in BOOLEAN /\ s # serv
    BY <2>2, SocketsAssumption DEF SInv, KernelInv, KernelTypes
  <2> HIDE DEF s
  <2>4. rx[s] = <<>> /\ err[s] = "ok" /\ ~ fin[s]
    BY <2>1, <2>2, <2>3 DEF ReadResult, s
  <2> QED  BY <2>3, <2>4 DEF Readable
<1>4. \A f : InReady(f) => InReady(f)'
  BY <1>1 DEF InReady
<1>5. ASSUME NEW f \in File, reg'[f] # nil, Readable(f)'
      PROVE  Readable(f) /\ ~ (f # serv /\ Reading /\ cur = reg[f])
  <2>1. Readable(f)
    <3>1. CASE UNCHANGED err
      BY <1>1, <1>5, <3>1 DEF Readable
    <3>2. CASE \E n : MakeWrites(n)
      BY <1>1, <1>5, <3>2, WritesReadable
    <3> QED  BY <1>1, <3>1, <3>2
  <2>2. ASSUME f # serv, cur = reg[f] PROVE FALSE
    BY <1>1, <1>3, <1>5, <2>1, <2>2, HandlerSocket DEF File
  <2> QED  BY <2>1, <2>2
<1> QED  BY <1>1, <1>2, <1>4, <1>5, ReturnKeepsWakes

\* The handlers that close their client: its socket is not registered any more.
LEMMA ClosesWakes ==
  SInv /\ WakeInv /\ (\/ name_read_too_long \/ name_read_closes \/ line_read_too_long
                      \/ line_read_eof \/ line_read_error) => WakeInv'
<1> SUFFICES ASSUME SInv, WakeInv,
                    \/ name_read_too_long \/ name_read_closes \/ line_read_too_long
                    \/ line_read_eof \/ line_read_error
             PROVE  WakeInv'
  OBVIOUS
<1>1. /\ Reading /\ Return /\ UNCHANGED <<queue, fin>>
      /\ UNCHANGED rx \/ \E count \in Nat : Consume(count)
      /\ \E m, own, all : Closing(cur, m, own, all) /\ m.fd = mem[cur].fd
  <2>1. Reading => mem[cur] \in Client /\ Filled(mem[cur])
    BY Reader DEF Reading
  <2>2. CASE name_read_too_long
    <3>1. Reading /\ max_name_len - off \in Nat
      BY <2>2, RoomLeft DEF name_read_too_long, NameRead, Reading
    <3>2. NameStored(mem[cur]).fd = mem[cur].fd
      BY <2>1, <3>1 DEF NameStored, Client
    <3> QED  BY <2>2, <3>1, <3>2 DEF name_read_too_long
  <2>3. CASE name_read_closes
    BY <2>3 DEF name_read_closes, NameEnds, NameRead, Reading
  <2>4. CASE line_read_too_long
    <3>1. Reading /\ max_line_len - off \in Nat
      BY <2>4, RoomLeft DEF line_read_too_long, LineRead, Reading
    <3>2. LineStored(mem[cur]).fd = mem[cur].fd
      BY <2>1, <3>1 DEF LineStored, Client
    <3> QED  BY <2>4, <3>1, <3>2 DEF line_read_too_long
  <2>5. CASE line_read_eof
    <3>1. Reading /\ LineSent(mem[cur]).fd = mem[cur].fd
      BY <2>1, <2>5, LineSentFilled DEF line_read_eof, LineRead, Reading
    <3> QED  BY <2>5, <3>1 DEF line_read_eof
  <2>6. CASE line_read_error
    BY <2>6 DEF line_read_error, LineRead, Reading
  <2> QED  BY <2>2, <2>3, <2>4, <2>5, <2>6
<1>2. PICK m, own, all : Closing(cur, m, own, all) /\ m.fd = mem[cur].fd
  BY <1>1
<1>3. ~ Starting /\ ~ Accepting /\ reg'[serv] = reg[serv]
  BY <1>1, <1>2, ClosingKeepsServ DEF Starting, Reading, Accepting
<1>4. ASSUME NEW f \in File, reg'[f] # nil, Readable(f)'
      PROVE  /\ reg'[f] = reg[f] /\ Readable(f) /\ (InReady(f) => InReady(f)')
             /\ ~ (f # serv /\ Reading /\ cur = reg[f])
  <2>1. ASSUME f # serv, rx'[f] # <<>> PROVE rx[f] # <<>>
    BY <1>1, <2>1, ConsumedBefore DEF SInv, KernelInv, File
  <2>2. /\ reg'[f] = reg[f] /\ Readable(f) /\ (InReady(f) => InReady(f)')
        /\ f # FileOf(m.fd)
    BY <1>1, <1>2, <1>4, <2>1, ClosingCovers
  <2>3. ~ (f # serv /\ cur = reg[f])
    BY <1>2, <1>4, <2>2, HandlerSocket
  <2> QED  BY <2>2, <2>3
<1> QED  BY <1>1, <1>3, <1>4, ReturnKeepsWakes

\* A peer's event on a registered file queues it, unless it is queued; the others are as
\* readable as before.
LEMMA PeerWakes == SInv /\ WakeInv /\ PeerNext => WakeInv'
<1> SUFFICES ASSUME SInv, WakeInv, PeerNext PROVE WakeInv'
  OBVIOUS
<1>1. UNCHANGED <<pc, evt, cur>>
  BY DEF PeerNext, procVars
<1>2. PICK g \in File : /\ UNCHANGED reg /\ Wake(g)
                        /\ \A f \in File : f # g /\ Readable(f)' => Readable(f)
  <2>1. PICK s \in Conn : Connect(s) \/ (\E b : Send(s, b)) \/ Hangup(s) \/ Reset(s)
    BY DEF PeerNext
  <2>2. serv \in File /\ s \in File /\ serv \notin Conn
    BY SocketsAssumption DEF File
  <2>3. /\ rx \in [Conn -> Seq(Bytes)] /\ fin \in [Conn -> BOOLEAN]
        /\ err \in [Conn -> {"ok", "reset", "pipe"}]
    BY DEF SInv, KernelInv, KernelTypes
  <2>4. CASE Connect(s)
    <3>1. UNCHANGED reg /\ Wake(serv)
      BY <2>4 DEF Connect
    <3>2. \A f \in File : f # serv /\ Readable(f)' => Readable(f)
      BY <2>4 DEF Connect, Readable
    <3> QED  BY <2>2, <3>1, <3>2
  <2>5. CASE (\E b : Send(s, b)) \/ Hangup(s) \/ Reset(s)
    <3>1. UNCHANGED reg /\ Wake(s) /\ UNCHANGED queue
      BY <2>5 DEF Send, Hangup, Reset
    <3>2. \A f \in Conn : f # s => rx'[f] = rx[f] /\ fin'[f] = fin[f] /\ err'[f] = err[f]
      BY <2>3, <2>5 DEF Send, Hangup, Reset
    <3>3. \A f \in File : f # s /\ Readable(f)' => Readable(f)
      BY <3>1, <3>2 DEF Readable, File
    <3> QED  BY <2>2, <3>1, <3>3
  <2> QED  BY <2>1, <2>4, <2>5
<1>3. (\A f : InReady(f) => InReady(f)') /\ (reg[g] # nil => InReady(g)')
  <2>1. QueueReady(g) \/ UNCHANGED ready
    BY <1>2 DEF Wake
  <2>2. (\A f : InReady(f) => InReady(f)') /\ (QueueReady(g) => InReady(g)')
    BY <2>1, QueueReadyCovers DEF SInv, KernelInv
  <2> QED  BY <2>2, <1>2 DEF Wake
<1>4. ASSUME NEW f \in File, reg'[f] # nil, Readable(f)' PROVE Covered(f)'
  <2>1. CASE f = g
    BY <1>2, <1>3, <1>4, <2>1 DEF Covered
  <2>2. CASE f # g
    <3>1. Covered(f) /\ reg'[f] = reg[f]
      BY <1>2, <1>4, <2>2 DEF WakeInv, Wakes
    <3>2. (Accepting => Accepting') /\ (Reading => Reading' /\ cur' = cur)
      BY <1>1 DEF Accepting, Reading
    <3> QED  BY <3>1, <3>2, <1>1, <1>3, StaysCovered
  <2> QED  BY <2>1, <2>2
<1> QED  BY <1>1, <1>2, <1>4 DEF WakeInv, Wakes, Starting

\* A call is repeated, or only the pools change.
LEMMA StutterWakes ==
  SInv /\ WakeInv /\ (interrupted \/ accept_fails \/ accept_nomem \/ UNCHANGED vars)
    => WakeInv'
<1> SUFFICES ASSUME WakeInv, interrupted \/ accept_fails \/ accept_nomem \/ UNCHANGED vars
             PROVE  WakeInv'
  OBVIOUS
<1>1. UNCHANGED <<queue, rx, fin, err, reg, ready, pc, evt, cur>>
  BY DEF interrupted, accept_fails, accept_nomem, vars, sockVars, procVars
<1> QED  BY <1>1 DEF WakeInv, Wakes, Starting, Reading, Accepting, Covered, InReady,
                     Pending, Readable

-----------------------------------------------------------------------------
(***************************************************************************)
(* The theorem.                                                            *)
(***************************************************************************)

\* Nothing is registered at first.
LEMMA InitWakes == Init => WakeInv
BY DEF Init, SocketsInit, WakeInv, Wakes, Starting, File

\* Whatever step is taken, what can be read or accepted stays covered.
LEMMA NextWakes == SInv /\ WakeInv /\ [Next]_vars => WakeInv'
BY StartWakes, EpollWaitWakes, AcceptWakes, RegisterWakes, RegisterFailsWakes,
   ReadMoreWakes, ReadDoneWakes, ClosesWakes, PeerWakes, StutterWakes
   DEF Next, ServerNext

\* No edge is lost: when server_go calls epoll_wait, every connection it could accept and
\* every socket it could read is queued in epoll.  That needs server_handle and the session
\* functions to go on until EAGAIN, and the events of a batch to be handled even though
\* handlers before them close clients and take new ones.
THEOREM NoWakeupLost == Spec => []NoLostWakeup
<1>1. SInv /\ WakeInv => NoLostWakeup
  <2> SUFFICES ASSUME SInv, WakeInv, pc = "epoll_wait" PROVE NoLostWakeup
    BY DEF NoLostWakeup
  <2>1. evt = <<>> /\ reg[serv] = serv /\ ~ Accepting /\ ~ Reading
    BY DEF WakeInv, Starting, Accepting, Reading
  <2>2. ASSUME NEW f \in File, reg[f] # nil, Readable(f) PROVE Contains(ready, f)
    <3>1. Covered(f)
      BY <2>2 DEF WakeInv, Wakes
    <3>2. InReady(f)
      BY <3>1, <2>1 DEF Covered, Pending
    <3> QED  BY <3>2 DEF InReady, Contains
  <2>3. queue # <<>> => Contains(ready, serv)
    BY <2>1, <2>2, SocketsAssumption DEF Readable, File
  <2>4. \A s \in Conn : reg[s] # nil /\ Readable(s) => Contains(ready, s)
    BY <2>2 DEF File
  <2> QED  BY <2>3, <2>4 DEF NoLostWakeup
<1> QED  BY <1>1, InitSInv, NextSInv, InitWakes, NextWakes, PTL DEF Spec

=============================================================================
