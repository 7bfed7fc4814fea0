----------------------------- MODULE RoomProofs -----------------------------
(***************************************************************************)
(* Proofs about what the clients of ChatServer are told, for any number of *)
(* clients, pools and messages, as long as epoll_ctl does not fail: every  *)
(* arrival and departure is announced once, and to everybody who is there, *)
(* lines are sent whole and in order, and seen from outside the server is  *)
(* the room of ChatRoom, whichever of the messages a socket takes.         *)
(***************************************************************************)
EXTENDS SessionsProofs

-----------------------------------------------------------------------------
(***************************************************************************)
(* The inductive invariant.  It is about connections, not sessions: the    *)
(* pointer a connection is registered with leads to its session.           *)
(***************************************************************************)

\* The connections that have entered the chat and are still there.
Members == {s \in Conn : reg[s] # nil /\ mem[reg[s]].name_ok}

\* The announcements so far are those due for where connection s is: before its session,
\* in it with or without a name, or after it.
Accounted(s) ==
  /\ reg[s] # nil =>
       /\ arrived[s] = IF mem[reg[s]].name_ok THEN 1 ELSE 0
       /\ parted[s] = 0
       /\ s \notin missed => told[s] \subseteq Members
  /\ reg[s] = nil /\ stage[s] # "closed" =>
       arrived[s] = 0 /\ parted[s] = 0 /\ told[s] = {}
  /\ reg[s] = nil /\ stage[s] = "closed" =>
       parted[s] = arrived[s] /\ arrived[s] \in 0 .. 1

RoomInv ==
  /\ arrived \in [Conn -> Nat] /\ parted \in [Conn -> Nat]
  /\ told \in [Conn -> SUBSET Conn] /\ missed \subseteq Conn
  /\ \A s \in Conn : Accounted(s)

-----------------------------------------------------------------------------
(***************************************************************************)
(* Sessions and their connections.                                         *)
(***************************************************************************)

\* A registered connection is open and is that of the session its pointer leads to.
LEMMA SessionOfPointer ==
  ASSUME SInv, Owned, NEW s \in Conn, reg[s] # nil
  PROVE  /\ reg[s] \in Sessions /\ reg[s] \in LiveChunks /\ reg[s] \in Chunk
         /\ who[reg[s]] = s /\ stage[s] = "open"
<1>1. reg[s] \in Sessions /\ FileOf(mem[reg[s]].fd) = s
  BY DEF SInv, RegisteredSessions
<1>2. reg[s] \in LiveChunks /\ reg[s] \in Chunk
  BY <1>1, LiveMapped DEF SInv, LiveInMapped, Sessions
<1>3. mem[reg[s]].fd \in Fd /\ fdt[mem[reg[s]].fd] = s
  BY <1>1, FileOfConn DEF SInv, KernelInv
<1>4. stage[s] = "open"
  BY <1>3 DEF SInv, KernelInv, FilesOpen
<1> QED  BY <1>1, <1>2, <1>4 DEF Owned

\* Every session's connection is registered with the session's address.
LEMMA PointerOfSession ==
  ASSUME SInv, Owned, NEW c \in Sessions
  PROVE  /\ c \in Chunk /\ c # nil /\ who[c] \in Conn /\ reg[who[c]] = c
         /\ FileOf(mem[c].fd) = who[c]
<1>1. c \in Chunk /\ c # nil
  BY LiveMapped, ServerAssumption DEF SInv, LiveInMapped, Sessions
<1> QED  BY <1>1 DEF Owned

\* Who has a name is a member.
LEMMA NamedAreMembers == ASSUME SInv, Owned PROVE NamedConns = Members
<1>1. ASSUME NEW c \in Sessions, mem[c].name_ok PROVE who[c] \in Members
  BY <1>1, PointerOfSession DEF Members
<1>2. ASSUME NEW s \in Members PROVE s \in NamedConns
  BY <1>2, SessionOfPointer DEF Members, NamedConns
<1> QED  BY <1>1, <1>2 DEF NamedConns

\* What a handler writes to the others reaches every other connection with a session, and
\* no connection without one.
LEMMA OthersHear ==
  ASSUME SInv, Owned, pc \in {"name_read", "line_read"}, NEW s \in Conn
  PROVE  s \in Receivers(cur) <=> reg[s] # nil /\ s # who[cur]
<1>0. Sessions = LiveChunks /\ cur \in Sessions
  BY Reader DEF Sessions
<1>1. ASSUME s \in Receivers(cur) PROVE reg[s] # nil /\ s # who[cur]
  <2>1. PICK d \in LiveChunks \ {cur} : FileOf(mem[d].fd) = s
    BY <1>1 DEF Receivers, SocketsOf, Others
  <2>2. who[d] = s /\ reg[s] = d /\ d # nil
    BY <1>0, <2>1, PointerOfSession
  <2>3. reg[who[cur]] = cur
    BY <1>0, PointerOfSession
  <2> QED  BY <2>1, <2>2, <2>3
<1>2. ASSUME reg[s] # nil, s # who[cur] PROVE s \in Receivers(cur)
  <2>1. reg[s] \in LiveChunks /\ reg[s] \in Sessions /\ who[reg[s]] = s
    BY <1>2, SessionOfPointer
  <2>2. FileOf(mem[reg[s]].fd) = s /\ reg[s] # cur
    BY <1>2, <2>1, PointerOfSession
  <2> QED  BY <2>1, <2>2 DEF Receivers, SocketsOf, Others
<1> QED  BY <1>1, <1>2

\* Who has a session: whose socket is registered.
Inside == {s \in Conn : reg[s] # nil}

\* own messages to the client of the handler and all to the others are written on sockets
\* of sessions only, and on the client's own only if own is not 0.
LEMMA WritesReach ==
  ASSUME SInv, Owned, pc \in {"name_read", "line_read"}, NEW own, NEW all \in Nat,
         NEW s \in Conn, Writes(cur, own, all)[s] > 0
  PROVE  s \in Inside /\ (all = 0 => s = who[cur]) /\ (own = 0 => s # who[cur])
<1> DEFINE D == {d \in Others(cur) : FileOf(mem[d].fd) = s}
<1>0. Sessions = LiveChunks /\ cur \in Sessions
  BY Reader DEF Sessions
<1>1. who[cur] \in Conn /\ reg[who[cur]] = cur /\ cur # nil /\ FileOf(mem[cur].fd) = who[cur]
  BY <1>0, PointerOfSession
<1>2. ASSUME NEW d \in D PROVE d # cur /\ d # nil /\ reg[s] = d
  <2>1. d \in Sessions /\ d # cur /\ FileOf(mem[d].fd) = s
    BY <1>0, <1>2 DEF Others
  <2> QED  BY <2>1, PointerOfSession
<1>3. Writes(cur, own, all)[s] = (IF s = who[cur] THEN own ELSE 0) + all * Cardinality(D)
  BY <1>1 DEF Writes
<1>4. ASSUME D = {}, s # who[cur] \/ own = 0 PROVE FALSE
  <2>1. Cardinality(D) = 0
    BY <1>4, FS_EmptySet
  <2> HIDE DEF D
  <2> QED  BY <1>3, <1>4, <2>1
<1>5. CASE s = who[cur]
  <2>1. D = {}
    BY <1>1, <1>2, <1>5
  <2> QED  BY <1>1, <1>4, <1>5, <2>1 DEF Inside
<1>6. CASE s # who[cur]
  <2>1. PICK d : d \in D
    BY <1>4, <1>6
  <2>2. D = {d}
    BY <1>2, <2>1
  <2>3. Cardinality(D) = 1
    BY <2>2, FS_Singleton
  <2>4. reg[s] = d /\ d # nil
    BY <1>2, <2>1
  <2> HIDE DEF D
  <2>5. all # 0
    BY <1>3, <1>6, <2>3
  <2> QED  BY <1>6, <2>4, <2>5 DEF Inside
<1> QED  BY <1>5, <1>6

\* Who misses something is remembered, and only who is written to can miss something.
LEMMA WritesMiss ==
  ASSUME NEW n, MakeWrites(n)
  PROVE  missed \subseteq missed' /\ missed' \subseteq missed \cup {s \in Conn : n[s] > 0}
BY DEF MakeWrites, NotTaken, MayNotFit

-----------------------------------------------------------------------------
(***************************************************************************)
(* The steps.                                                              *)
(***************************************************************************)

\* A step that announces nothing: no session begins, ends or gets a name.
LEMMA RoomSame ==
  ASSUME RoomInv, UNCHANGED <<arrived, parted, told>>,
         missed \subseteq missed', missed' \subseteq Conn,
         \A s \in Conn :
           /\ reg'[s] = reg[s]
           /\ (stage'[s] = "closed") = (stage[s] = "closed")
           /\ reg[s] # nil => mem'[reg[s]].name_ok = mem[reg[s]].name_ok
  PROVE  RoomInv' /\ Members' = Members
<1>1. Members' = Members
  BY DEF Members
<1>2. ASSUME NEW s \in Conn PROVE Accounted(s)'
  BY <1>1, <1>2 DEF RoomInv, Accounted
<1> QED  BY <1>1, <1>2 DEF RoomInv

\* session_close: the departure of a session is announced to everybody else who is there if
\* its arrival was, and to nobody if it was not.
LEMMA RoomClosing ==
  ASSUME SInv, Owned, RoomInv, pc \in {"name_read", "line_read"},
         NEW m \in Client, NEW own, NEW all, Closing(cur, m, own, all), m.fd = mem[cur].fd,
         m.name_ok = mem[cur].name_ok,
         UNCHANGED <<queue, sent, fin, who, arrived>>, rx' \in [Conn -> Seq(Bytes)], Return
  PROVE  RoomInv' /\ Members' = Members \ {who[cur]}
<1>1. pc # "epoll_ctl" /\ pc' # "epoll_ctl" /\ cur \in Sessions
  BY Reader DEF Return, HandleNext
<1>2. \A d \in Sessions \ {cur} : mem'[d] = mem[d]
  BY <1>1, ClosingKeeps
<1>3. PICK s : s = who[cur]
  OBVIOUS
<1>4. s \in Conn /\ reg[s] = cur /\ cur # nil /\ FileOf(m.fd) = s
  BY <1>1, <1>3, PointerOfSession
<1>5. /\ reg' = [g \in File |-> IF g = s THEN nil ELSE reg[g]]
      /\ stage' = [t \in Conn |-> IF t = s THEN "closed" ELSE stage[t]]
  BY <1>4 DEF Closing, CloseClient, CloseFd
<1>6. ASSUME NEW t \in Conn, t # s
      PROVE  /\ reg'[t] = reg[t] /\ stage'[t] = stage[t]
             /\ reg[t] # nil => mem'[reg[t]] = mem[reg[t]]
  <2>1. reg[t] # nil => reg[t] \in Sessions /\ reg[t] # cur
    BY <1>3, <1>6, SessionOfPointer
  <2> QED  BY <1>2, <1>5, <1>6, <2>1 DEF File
<1>7. reg'[s] = nil /\ stage'[s] = "closed"
  BY <1>4, <1>5 DEF File
<1>8. Members' = Members \ {s}
  <2>1. \A t \in Conn : t \in Members' <=> t \in Members \ {s}
    BY <1>6, <1>7 DEF Members
  <2> QED  BY <2>1 DEF Members
<1>9. /\ arrived \in [Conn -> Nat] /\ parted \in [Conn -> Nat] /\ told \in [Conn -> SUBSET Conn]
      /\ missed \subseteq missed' /\ missed' \subseteq Conn
      /\ \A t \in Conn : Accounted(t)
  BY WritesMiss DEF RoomInv, Closing
<1>10. /\ arrived[s] = (IF mem[cur].name_ok THEN 1 ELSE 0) /\ parted[s] = 0
  BY <1>4, <1>9 DEF Accounted
<1>11. CASE mem[cur].name_ok
  <2>1. PICK lost \in SUBSET missed' :
          /\ parted' = [parted EXCEPT ![s] = @ + 1]
          /\ told' = [t \in Conn |-> IF t \in Receivers(cur) \ lost THEN told[t] \ {s}
                                     ELSE told[t]]
    BY <1>3, <1>11 DEF Closing, Announced, TellDeparture, MayLose
  <2>2. \A t \in Conn :
          told'[t] = IF reg[t] # nil /\ t # s /\ t \notin lost THEN told[t] \ {s} ELSE told[t]
    BY <1>3, <2>1, OthersHear
  <2>3. parted'[s] = 1 /\ \A t \in Conn : t # s => parted'[t] = parted[t]
    BY <1>4, <1>9, <1>10, <2>1
  <2>4. ASSUME NEW t \in Conn PROVE Accounted(t)'
    <3>1. CASE t = s
      BY <1>7, <1>10, <1>11, <2>3, <3>1 DEF Accounted
    <3>2. CASE t # s
      <4>1. /\ Accounted(t) /\ parted'[t] = parted[t] /\ arrived'[t] = arrived[t]
            /\ reg'[t] = reg[t] /\ stage'[t] = stage[t]
            /\ told'[t] = IF reg[t] # nil /\ t \notin lost THEN told[t] \ {s} ELSE told[t]
        BY <1>6, <1>9, <2>2, <2>3, <3>2
      <4>2. CASE reg[t] = nil
        BY <4>1, <4>2 DEF Accounted
      <4>3. CASE reg[t] # nil
        <5>1. t \notin missed' => told'[t] \subseteq Members'
          BY <1>8, <1>9, <2>1, <4>1, <4>3 DEF Accounted
        <5>2. mem'[reg[t]] = mem[reg[t]]
          BY <1>6, <3>2, <4>3
        <5> QED  BY <4>1, <4>3, <5>1, <5>2 DEF Accounted
      <4> QED  BY <4>2, <4>3
    <3> QED  BY <3>1, <3>2
  <2>5. parted' \in [Conn -> Nat]
    BY <1>4, <1>9, <2>1
  <2>6. told' \in [Conn -> SUBSET Conn]
    <3>1. \A t \in Conn : told[t] \in SUBSET Conn /\ told[t] \ {s} \in SUBSET Conn
      BY <1>9
    <3> QED  BY <2>1, <3>1
  <2> QED  BY <1>3, <1>8, <1>9, <2>4, <2>5, <2>6 DEF RoomInv
<1>12. CASE ~ mem[cur].name_ok
  <2>1. UNCHANGED <<parted, told>>
    BY <1>12 DEF Closing, Announced
  <2>2. s \notin Members
    BY <1>4, <1>12 DEF Members
  <2>3. ASSUME NEW t \in Conn PROVE Accounted(t)'
    <3>1. CASE t = s
      BY <1>7, <1>10, <1>12, <2>1, <3>1 DEF Accounted
    <3>2. CASE t # s
      BY <1>6, <1>8, <1>9, <2>1, <2>2, <3>2 DEF Accounted
    <3> QED  BY <3>1, <3>2
  <2> QED  BY <1>3, <1>8, <1>9, <2>1, <2>3 DEF RoomInv
<1> QED  BY <1>11, <1>12

\* session_name_read with a whole name: everybody else who is there is told once.
LEMMA RoomEntering ==
  ASSUME SInv, Owned, RoomInv, pc = "name_read", TellArrival(cur),
         missed \subseteq missed', missed' \subseteq Conn,
         UNCHANGED <<parted, reg, stage>>,
         mem'[cur].name_ok, \A d \in Sessions \ {cur} : mem'[d].name_ok = mem[d].name_ok
  PROVE  RoomInv' /\ Members' = Members \cup {who[cur]} /\ who[cur] \notin Members
<1>1. cur \in Sessions /\ ~ mem[cur].name_ok
  BY Reader DEF SInv, ThreadInv, HandlerReads
<1>2. PICK s : s = who[cur]
  OBVIOUS
<1>3. s \in Conn /\ reg[s] = cur /\ cur # nil
  BY <1>1, <1>2, PointerOfSession
<1>4. \A t \in Conn : t # s /\ reg[t] # nil => mem'[reg[t]].name_ok = mem[reg[t]].name_ok
  BY <1>2, SessionOfPointer
<1>5. Members' = Members \cup {s} /\ s \notin Members
  <2>1. \A t \in Conn : t \in Members' <=> t \in Members \cup {s}
    BY <1>3, <1>4 DEF Members
  <2> QED  BY <1>1, <1>3, <2>1 DEF Members
<1>6. /\ arrived \in [Conn -> Nat] /\ parted \in [Conn -> Nat] /\ told \in [Conn -> SUBSET Conn]
      /\ \A t \in Conn : Accounted(t)
  BY DEF RoomInv
<1>7. PICK lost \in SUBSET missed' :
        /\ arrived' = [arrived EXCEPT ![s] = @ + 1]
        /\ told' = [t \in Conn |-> IF t \in Receivers(cur) \ lost THEN told[t] \cup {s}
                                   ELSE told[t]]
  BY <1>2 DEF TellArrival, MayLose
<1>8. \A t \in Conn :
        told'[t] = IF reg[t] # nil /\ t # s /\ t \notin lost THEN told[t] \cup {s} ELSE told[t]
  BY <1>2, <1>7, OthersHear
<1>9. arrived'[s] = 1 /\ \A t \in Conn : t # s => arrived'[t] = arrived[t]
  BY <1>1, <1>3, <1>6, <1>7 DEF Accounted
<1>10. ASSUME NEW t \in Conn PROVE Accounted(t)'
  <2>1. CASE t = s
    BY <1>3, <1>5, <1>6, <1>8, <1>9, <2>1 DEF Accounted
  <2>2. CASE t # s
    <3>1. /\ Accounted(t) /\ parted'[t] = parted[t] /\ arrived'[t] = arrived[t]
          /\ reg'[t] = reg[t] /\ stage'[t] = stage[t]
          /\ told'[t] = IF reg[t] # nil /\ t \notin lost THEN told[t] \cup {s} ELSE told[t]
      BY <1>6, <1>8, <1>9, <2>2
    <3>2. CASE reg[t] = nil
      BY <3>1, <3>2 DEF Accounted
    <3>3. CASE reg[t] # nil
      <4>1. t \notin missed' => told'[t] \subseteq Members'
        BY <1>5, <3>1, <3>3 DEF Accounted
      <4>2. mem'[reg[t]].name_ok = mem[reg[t]].name_ok
        BY <1>4, <2>2, <3>3
      <4> QED  BY <3>1, <3>3, <4>1, <4>2 DEF Accounted
    <3> QED  BY <3>2, <3>3
  <2> QED  BY <2>1, <2>2
<1>11. arrived' \in [Conn -> Nat] /\ told' \in [Conn -> SUBSET Conn]
  BY <1>3, <1>6, <1>7
<1> QED  BY <1>2, <1>5, <1>6, <1>10, <1>11 DEF RoomInv

\* The handlers that close their client do so with its descriptor and its name as they were.
LEMMA ClosesOne ==
  ASSUME SInv,
         \/ name_read_too_long \/ name_read_closes
         \/ line_read_too_long \/ line_read_eof \/ line_read_error
  PROVE  /\ pc \in {"name_read", "line_read"} /\ Return
         /\ UNCHANGED <<queue, sent, fin, who, arrived>>
         /\ \E m \in Client : \E own, all \in Nat :
              /\ Closing(cur, m, own, all) /\ (~ m.name_ok => all = 0)
              /\ m.fd = mem[cur].fd /\ m.name_ok = mem[cur].name_ok
              /\ rx' \in [Conn -> Seq(Bytes)]
<1> DEFINE Closes ==
             \E m \in Client : \E own, all \in Nat :
               /\ Closing(cur, m, own, all) /\ (~ m.name_ok => all = 0)
               /\ m.fd = mem[cur].fd /\ m.name_ok = mem[cur].name_ok
               /\ rx' \in [Conn -> Seq(Bytes)]
<1>1. /\ pc \in {"name_read", "line_read"} /\ Return
      /\ UNCHANGED <<queue, sent, fin, who, arrived>>
  BY DEF name_read_too_long, name_read_closes, line_read_too_long, line_read_eof,
         line_read_error, NameEnds, NameRead, LineRead
<1> SUFFICES Closes
  BY <1>1
<1>2. /\ cur \in Chunk /\ mem \in [Chunk -> Client] /\ KernelTypes
      /\ mem[cur] \in Client /\ Filled(mem[cur]) /\ rx \in [Conn -> Seq(Bytes)]
  BY <1>1, Reader
<1>3. CASE name_read_closes \/ line_read_error
  BY <1>2, <1>3 DEF name_read_closes, line_read_error
<1>4. CASE name_read_too_long
  <2> DEFINE n == NameStored(mem[cur])
  <2>1. NameRead("data") /\ off \in 0 .. max_name_len
    BY <1>4 DEF name_read_too_long, NameRead, SInv, ThreadInv, HandlerReads
  <2>2. /\ n \in Client /\ n.fd = mem[cur].fd /\ n.name_ok = mem[cur].name_ok
        /\ rx' \in [Conn -> Seq(Bytes)]
    BY <1>2, <1>4, <2>1, NameStoredFilled DEF name_read_too_long
  <2>3. Closing(cur, n, 1, 0)
    BY <1>4 DEF name_read_too_long
  <2> HIDE DEF n
  <2> QED  BY <2>2, <2>3
<1>5. CASE line_read_too_long
  <2> DEFINE n == LineStored(mem[cur])
  <2>1. LineRead("data") /\ off \in 0 .. max_line_len
    BY <1>5 DEF line_read_too_long, LineRead, SInv, ThreadInv, HandlerReads
  <2>2. /\ n \in Client /\ n.fd = mem[cur].fd /\ n.name_ok = mem[cur].name_ok
        /\ rx' \in [Conn -> Seq(Bytes)]
    BY <1>2, <1>5, <2>1, LineStoredFilled DEF line_read_too_long
  <2>3. Closing(cur, n, 1, 0)
    BY <1>5 DEF line_read_too_long
  <2> HIDE DEF n
  <2> QED  BY <2>2, <2>3
<1>6. CASE line_read_eof
  <2> DEFINE n == LineSent(mem[cur])
             all == LinesSent(mem[cur])
  <2>1. n \in Client /\ n.fd = mem[cur].fd /\ n.name_ok = mem[cur].name_ok
    BY <1>2, LineSentFilled
  <2>2. Closing(cur, n, 0, all) /\ rx' \in [Conn -> Seq(Bytes)] /\ all \in Nat
    BY <1>2, <1>6 DEF line_read_eof, LinesSent
  <2>3. mem[cur].name_ok
    BY <1>6 DEF line_read_eof, LineRead, SInv, ThreadInv, HandlerReads
  <2> HIDE DEF n, all
  <2> QED  BY <2>1, <2>2, <2>3
<1> QED  BY <1>3, <1>4, <1>5, <1>6

\* The sessions that end.
LEMMA RoomCloses ==
  ASSUME SInv, Owned, RoomInv,
         \/ name_read_too_long \/ name_read_closes
         \/ line_read_too_long \/ line_read_eof \/ line_read_error
  PROVE  RoomInv' /\ Members' = Members \ {who[cur]}
BY ClosesOne, RoomClosing

\* Reading on and sending a line announce nothing.
LEMMA RoomReads ==
  ASSUME SInv, Owned, RoomInv, name_read_more \/ line_read_more \/ line_read_done
  PROVE  RoomInv' /\ Members' = Members
<1>1. /\ pc \in {"name_read", "line_read"}
      /\ UNCHANGED <<reg, stage>> /\ UNCHANGED <<arrived, parted, told>>
      /\ missed \subseteq missed' /\ missed' \subseteq Conn
  BY WritesMiss
  DEF name_read_more, line_read_more, line_read_done, NameRead, LineRead, histVars, RoomInv
<1>2. /\ cur \in Chunk /\ mem \in [Chunk -> Client] /\ mem[cur] \in Client
      /\ Filled(mem[cur]) /\ KernelTypes
  BY <1>1, Reader
<1>3. \E m \in Client : m.name_ok = mem[cur].name_ok /\ mem' = [mem EXCEPT ![cur] = m]
  <2>1. CASE name_read_more
    <3> DEFINE n == NameStored(mem[cur])
    <3>1. NameRead("data") /\ off \in 0 .. max_name_len
      BY <2>1 DEF name_read_more, NameRead, SInv, ThreadInv, HandlerReads
    <3>2. n \in Client /\ n.name_ok = mem[cur].name_ok
      BY <1>2, <3>1, NameStoredFilled
    <3>3. mem' = [mem EXCEPT ![cur] = n]
      BY <2>1 DEF name_read_more
    <3> HIDE DEF n
    <3> QED  BY <3>2, <3>3
  <2>2. CASE line_read_more
    <3> DEFINE n == LineStored(mem[cur])
    <3>1. LineRead("data") /\ off \in 0 .. max_line_len
      BY <2>2 DEF line_read_more, LineRead, SInv, ThreadInv, HandlerReads
    <3>2. n \in Client /\ n.name_ok = mem[cur].name_ok
      BY <1>2, <3>1, LineStoredFilled
    <3>3. mem' = [mem EXCEPT ![cur] = n]
      BY <2>2 DEF line_read_more
    <3> HIDE DEF n
    <3> QED  BY <3>2, <3>3
  <2>3. CASE line_read_done
    <3> DEFINE n == LineSent(mem[cur])
    <3>1. n \in Client /\ n.name_ok = mem[cur].name_ok
      BY <1>2, LineSentFilled
    <3>2. mem' = [mem EXCEPT ![cur] = n]
      BY <2>3 DEF line_read_done
    <3> HIDE DEF n
    <3> QED  BY <3>1, <3>2
  <2> QED  BY <2>1, <2>2, <2>3
<1>4. \A c \in Chunk : mem'[c].name_ok = mem[c].name_ok
  BY <1>2, <1>3
<1>5. \A s \in Conn : reg[s] # nil => mem'[reg[s]].name_ok = mem[reg[s]].name_ok
  BY <1>4, SessionOfPointer
<1> QED  BY <1>1, <1>5, RoomSame

\* session_name_read at the end of what there is to read: a whole name enters the chat.
LEMMA RoomNames ==
  ASSUME SInv, Owned, RoomInv, name_read_done
  PROVE  /\ RoomInv'
         /\ \/ Members' = Members /\ UNCHANGED <<mem, arrived, told, missed>>
            \/ /\ Members' = Members \cup {who[cur]} /\ who[cur] \notin Members
               /\ TellArrival(cur) /\ MakeWrites(Writes(cur, 1, 1))
<1>1. pc = "name_read" /\ UNCHANGED <<reg, stage, parted>>
  BY DEF name_read_done, NameRead
<1>2. /\ cur \in Chunk /\ mem \in [Chunk -> Client] /\ mem[cur] \in Client /\ Filled(mem[cur])
  BY <1>1, Reader
<1>3. CASE UNCHANGED <<mem, arrived, told, missed>>
  BY <1>1, <1>3, RoomSame DEF RoomInv
<1>4. ASSUME NEW i \in NamePos(mem[cur]), mem' = [mem EXCEPT ![cur] = Named(mem[cur], i)],
             TellArrival(cur), MakeWrites(Writes(cur, 1, 1))
      PROVE  RoomInv' /\ Members' = Members \cup {who[cur]} /\ who[cur] \notin Members
  <2> DEFINE n == Named(mem[cur], i)
  <2>1. n \in Client /\ n.name_ok
    BY <1>2, NamedFilled
  <2>2. mem' = [mem EXCEPT ![cur] = n]
    BY <1>4
  <2> HIDE DEF n
  <2>3. mem'[cur].name_ok
    BY <1>2, <2>1, <2>2
  <2>4. \A d \in Sessions \ {cur} : mem'[d].name_ok = mem[d].name_ok
    BY <1>2, <2>2, PointerOfSession
  <2>5. missed \subseteq missed' /\ missed' \subseteq Conn
    BY <1>4, WritesMiss DEF RoomInv
  <2> QED  BY <1>1, <1>4, <2>3, <2>4, <2>5, RoomEntering
<1> QED  BY <1>3, <1>4 DEF name_read_done

\* server_handle sets up a client nobody has been told of yet, without a name.
LEMMA RoomRegister ==
  ASSUME SInv, Owned, RoomInv, register
  PROVE  RoomInv' /\ Members' = Members
<1> DEFINE s == fdt[sock]
           m == SetUp(mem[cur])
<1>1. /\ pc = "epoll_ctl" /\ UNCHANGED <<stage, arrived, parted, told>>
      /\ Register(s, cur) /\ mem' = [mem EXCEPT ![cur] = m]
      /\ missed \subseteq missed' /\ missed' \subseteq Conn
  BY WritesMiss DEF register, RoomInv
<1>2. /\ cur \in LiveChunks /\ sock \in Fd /\ s \in Conn /\ reg[s] = nil /\ stage[s] = "open"
  BY <1>1 DEF SInv, HandlerAccepts, KernelInv, FilesOpen
<1>3. cur \in Chunk /\ mem \in [Chunk -> Client] /\ cur # nil
  BY <1>2, LiveMapped, ServerAssumption DEF SInv, LiveInMapped, MemoryInv
<1>4. m.name_ok = FALSE
  BY <1>3 DEF SetUp, Client
<1> HIDE DEF m, s
<1>5. mem'[cur].name_ok = FALSE
  BY <1>1, <1>3, <1>4
<1>6. reg' = [reg EXCEPT ![s] = cur] /\ reg \in [File -> Chunk \cup {nil, serv}]
  BY <1>1 DEF Register, SInv, KernelInv, KernelTypes
<1>7. reg'[s] = cur /\ \A t \in Conn : t # s => reg'[t] = reg[t]
  BY <1>2, <1>6 DEF File
<1>8. \A t \in Conn : reg[t] # nil => mem'[reg[t]] = mem[reg[t]]
  <2>1. \A t \in Conn : reg[t] # nil => reg[t] # cur /\ reg[t] \in Chunk
    BY <1>1, SessionOfPointer DEF Sessions
  <2> QED  BY <1>1, <1>3, <2>1
<1>9. Members' = Members
  <2>1. \A t \in Conn : t \in Members' <=> t \in Members
    BY <1>2, <1>3, <1>5, <1>7, <1>8 DEF Members
  <2> QED  BY <2>1 DEF Members
<1>10. ASSUME NEW t \in Conn PROVE Accounted(t)'
  <2>1. Accounted(t) /\ Accounted(s)
    BY <1>2 DEF RoomInv
  <2>2. CASE t = s
    BY <1>1, <1>2, <1>3, <1>5, <1>7, <2>1, <2>2 DEF Accounted
  <2>3. CASE t # s
    BY <1>1, <1>7, <1>8, <1>9, <2>1, <2>3 DEF Accounted
  <2> QED  BY <2>2, <2>3
<1> QED  BY <1>1, <1>9, <1>10 DEF RoomInv

\* A connection that is turned away has never been announced.
LEMMA RoomRejects ==
  ASSUME SInv, Owned, RoomInv, accept_rejects
  PROVE  RoomInv' /\ Members' = Members
<1> DEFINE s == Head(queue)
<1>1. /\ s \in Conn /\ stage[s] = "queued" /\ reg[s] = nil
  BY FirstQueued DEF accept_rejects
<1>2. /\ UNCHANGED <<reg, mem, arrived, parted, told>>
      /\ stage' = [stage EXCEPT ![s] = "closed"]
      /\ missed \subseteq missed' /\ missed' \subseteq Conn
  BY WritesMiss DEF accept_rejects, RoomInv
<1> HIDE DEF s
<1>3. stage \in [Conn -> Stage]
  BY DEF SInv, KernelInv, KernelTypes
<1>4. Members' = Members
  BY <1>2 DEF Members
<1>5. ASSUME NEW t \in Conn PROVE Accounted(t)'
  <2>1. Accounted(t)
    BY DEF RoomInv
  <2> QED  BY <1>1, <1>2, <1>3, <1>4, <2>1 DEF Accounted
<1> QED  BY <1>2, <1>4, <1>5 DEF RoomInv

\* accept4 opens a connection for a chunk that is no session's; nothing is told of it yet.
LEMMA RoomAccept ==
  ASSUME SInv, Owned, RoomInv, accept_client
  PROVE  RoomInv' /\ Members' = Members
<1> DEFINE s == Head(queue)
<1>1. PICK c \in Chunk : /\ session_new(c)
                         /\ mem' = [mem EXCEPT ![c] = Recycled(c)]
  BY DEF accept_client
<1>2. /\ stage' = [stage EXCEPT ![s] = "open"]
      /\ UNCHANGED <<reg, arrived, parted, told, missed>>
      /\ s \in Conn /\ stage[s] = "queued"
  BY FirstQueued DEF accept_client, histVars
<1> HIDE DEF s
<1>3. IInv'
  BY <1>1, NextIInv DEF SInv, PoolsNext
<1>4. c \notin LiveChunks
  BY <1>1, <1>3, NewImplements DEF SInv, Allocator!session_new
<1>5. \A t \in Conn : reg[t] # nil => mem'[reg[t]].name_ok = mem[reg[t]].name_ok
  <2>1. \A t \in Conn : reg[t] # nil => reg[t] # c /\ reg[t] \in Chunk
    BY <1>4, SessionOfPointer
  <2> QED  BY <1>1, <2>1 DEF SInv, MemoryInv
<1>6. \A t \in Conn : (stage'[t] = "closed") = (stage[t] = "closed")
  BY <1>2 DEF SInv, KernelInv, KernelTypes
<1> QED  BY <1>2, <1>5, <1>6, RoomSame DEF RoomInv

\* The start, the waiting and the peers change no connection's registration, and close none.
LEMMA ElsewhereSame ==
  ASSUME SInv,
         \/ server_init \/ create_epoll \/ register_listener \/ epoll_wait \/ PeerNext
         \/ accept_drained \/ accept_nomem \/ interrupted \/ accept_fails \/ UNCHANGED vars
  PROVE  \A s \in Conn : reg'[s] = reg[s] /\ (stage'[s] = "closed") = (stage[s] = "closed")
<1>1. \A s \in Conn : reg'[s] = reg[s]
  <2>1. CASE register_listener
    <3>1. UNCHANGED reg \/ Register(serv, serv)
      BY <2>1 DEF register_listener, StartStep, Running
    <3> QED  BY <3>1, SocketsAssumption DEF Register, SInv, KernelInv, KernelTypes, File
  <2>2. CASE ~ register_listener
    BY <2>2
    DEF server_init, create_epoll, epoll_wait, PeerNext, accept_drained, accept_nomem,
        interrupted, accept_fails, vars, sockVars, Connect, Send, Hangup, Reset
  <2> QED  BY <2>1, <2>2
<1>2. \A s \in Conn : (stage'[s] = "closed") = (stage[s] = "closed")
  <2>1. UNCHANGED stage \/ \E s \in Conn : Connect(s)
    BY DEF server_init, create_epoll, register_listener, StartStep, epoll_wait, PeerNext,
           accept_drained, accept_nomem, interrupted, accept_fails, vars, sockVars,
           Send, Hangup, Reset
  <2> QED  BY <2>1 DEF Connect, SInv, KernelInv, KernelTypes
<1> QED  BY <1>1, <1>2

\* They announce nothing.
LEMMA RoomElsewhere ==
  ASSUME SInv, RoomInv,
         \/ server_init \/ create_epoll \/ register_listener \/ epoll_wait \/ PeerNext
         \/ accept_drained \/ accept_nomem \/ interrupted \/ accept_fails \/ UNCHANGED vars
  PROVE  RoomInv' /\ Members' = Members
<1>1. UNCHANGED <<mem, arrived, parted, told, missed>>
  BY DEF server_init, create_epoll, register_listener, StartStep, epoll_wait, PeerNext,
         accept_drained, accept_nomem, interrupted, accept_fails, vars, histVars, procVars
<1>2. \A s \in Conn : reg'[s] = reg[s] /\ (stage'[s] = "closed") = (stage[s] = "closed")
  BY ElsewhereSame
<1> QED  BY <1>1, <1>2, RoomSame DEF RoomInv

\* Nobody has come.
LEMMA InitRoom == Init => RoomInv
BY SocketsAssumption DEF Init, SocketsInit, RoomInv, Accounted, File

\* Every step keeps the account.
LEMMA NextRoom ==
  SInv /\ Owned /\ RoomInv /\ [Next]_vars /\ ~ EpollCtlMayFail => RoomInv'
<1> SUFFICES ASSUME SInv, Owned, RoomInv, [Next]_vars, ~ register_fails PROVE RoomInv'
  BY DEF register_fails
<1> QED
  BY RoomElsewhere, RoomAccept, RoomRejects, RoomRegister, RoomReads, RoomNames, RoomCloses
  DEF Next, ServerNext

-----------------------------------------------------------------------------
(***************************************************************************)
(* The theorems.                                                           *)
(***************************************************************************)

\* As long as epoll_ctl does not fail, the sessions own their sockets and the announcements
\* are those that are due.
THEOREM RoomInvariant == Spec => [](~ EpollCtlMayFail => SInv /\ Owned /\ RoomInv)
<1> DEFINE Inv == ~ EpollCtlMayFail => SInv /\ Owned /\ RoomInv
<1>1. Init => Inv
  BY InitSInv, InitOwned, InitRoom DEF OwnedInv
<1>2. Inv /\ [Next]_vars => Inv'
  BY NextSInv, NextOwned, NextRoom DEF OwnedInv
<1> QED  BY <1>1, <1>2, PTL DEF Spec

\* Who is announced to have left was announced to have entered, both at most once; and who
\* entered is announced to have left when the session is over, whatever ended it: the end
\* of the stream, a reset, a name or a line that is too long.
THEOREM EveryArrivalParted == Spec => [](~ EpollCtlMayFail => AnnouncementsPaired)
<1>1. SInv /\ Owned /\ RoomInv => AnnouncementsPaired
  <2> SUFFICES ASSUME SInv, Owned, RoomInv, NEW s \in Conn
               PROVE  /\ parted[s] <= arrived[s] /\ arrived[s] <= 1
                      /\ stage[s] = "closed" => parted[s] = arrived[s]
    BY DEF AnnouncementsPaired
  <2>1. Accounted(s) /\ (reg[s] # nil => stage[s] = "open")
    BY SessionOfPointer DEF RoomInv
  <2> QED  BY <2>1 DEF Accounted
<1> QED  BY <1>1, RoomInvariant, PTL

\* Nobody is taken to be in the chat who is not, by a client whose socket took all that was
\* written to it: it was told of the departure of whoever it was told of, also of clients
\* that came and left in one batch of events, and also when other sockets were full.
THEOREM NobodyTakenForMember == Spec => [](~ EpollCtlMayFail => NoGhosts)
<1>1. SInv /\ Owned /\ RoomInv => NoGhosts
  <2> SUFFICES ASSUME SInv, Owned, RoomInv, NEW c \in Sessions, who[c] \notin missed
               PROVE  told[who[c]] \subseteq NamedConns
    BY DEF NoGhosts
  <2>1. who[c] \in Conn /\ reg[who[c]] = c /\ c # nil
    BY PointerOfSession
  <2> QED  BY <2>1, NamedAreMembers DEF RoomInv, Accounted
<1> QED  BY <1>1, RoomInvariant, PTL

-----------------------------------------------------------------------------
(***************************************************************************)
(* Bytes.  What the line buffer does to the stream of a client.            *)
(***************************************************************************)

\* Three runs of bytes make the same one, whichever two are joined first.
LEMMA ConcatBytes ==
  \A s, t, u \in Seq(Byte) : (s \o t) \o u = s \o (t \o u)
<1> TAKE s, t, u \in Seq(Byte)
<1> QED  BY ConcatAssociative

\* The first n bytes of an array.
LEMMA FirstBytes ==
  ASSUME NEW N \in Nat, NEW a \in [1 .. N -> Byte], NEW n \in 0 .. N
  PROVE  /\ SubSeq(a, 1, n) \in Seq(Byte) /\ Len(SubSeq(a, 1, n)) = n
         /\ \A i \in 1 .. n : SubSeq(a, 1, n)[i] = a[i]
<1>1. \A i \in 1 .. n : a[i] \in Byte
  OBVIOUS
<1>2. /\ SubSeq(a, 1, n) \in Seq(Byte)
      /\ Len(SubSeq(a, 1, n)) = IF 1 <= n THEN n - 1 + 1 ELSE 0
      /\ \A i \in 1 .. n - 1 + 1 : SubSeq(a, 1, n)[i] = a[1 + i - 1]
  BY <1>1, SubSeqProperties
<1> QED  BY <1>2

\* A sequence is a prefix of what it is continued to.
LEMMA PrefixContinues ==
  ASSUME NEW s \in Seq(Byte), NEW t \in Seq(Byte), NEW u \in Seq(Byte)
  PROVE  IsPrefix(s, s \o u) /\ (IsPrefix(s, t) => IsPrefix(s, t \o u))
<1>1. /\ Len(s) \in Nat /\ Len(t) \in Nat /\ Len(u) \in Nat
      /\ \A i \in 1 .. Len(s) : s[i] \in Byte
      /\ \A i \in 1 .. Len(t) : t[i] \in Byte
  BY LenProperties, ElementOfSeq
<1>2. ASSUME NEW v \in Seq(Byte), Len(s) <= Len(v)
      PROVE  /\ SubSeq(v, 1, Len(s)) \in Seq(Byte) /\ Len(SubSeq(v, 1, Len(s))) = Len(s)
             /\ \A i \in 1 .. Len(s) : SubSeq(v, 1, Len(s))[i] = v[i]
  <2>1. \A i \in 1 .. Len(s) : v[i] \in Byte
    BY <1>1, <1>2, ElementOfSeq, LenProperties
  <2>2. /\ SubSeq(v, 1, Len(s)) \in Seq(Byte)
        /\ Len(SubSeq(v, 1, Len(s))) = IF 1 <= Len(s) THEN Len(s) - 1 + 1 ELSE 0
        /\ \A i \in 1 .. Len(s) - 1 + 1 : SubSeq(v, 1, Len(s))[i] = v[1 + i - 1]
    BY <1>1, <2>1, SubSeqProperties
  <2> QED  BY <1>1, <2>2
<1>3. ASSUME NEW v \in Seq(Byte)
      PROVE  IsPrefix(s, v) <=> Len(s) <= Len(v) /\ \A i \in 1 .. Len(s) : s[i] = v[i]
  <2>1. SUFFICES ASSUME Len(s) <= Len(v)
                 PROVE  SubSeq(s, 1, Len(s)) = SubSeq(v, 1, Len(s))
                          <=> \A i \in 1 .. Len(s) : s[i] = v[i]
    BY DEF IsPrefix
  <2> DEFINE a == SubSeq(s, 1, Len(s))
             b == SubSeq(v, 1, Len(s))
  <2>2. /\ a \in Seq(Byte) /\ Len(a) = Len(s) /\ \A i \in 1 .. Len(s) : a[i] = s[i]
    BY <1>1, <1>2
  <2>3. /\ b \in Seq(Byte) /\ Len(b) = Len(s) /\ \A i \in 1 .. Len(s) : b[i] = v[i]
    BY <1>2, <2>1
  <2> HIDE DEF a, b
  <2>4. ASSUME \A i \in 1 .. Len(s) : s[i] = v[i] PROVE a = b
    BY <2>2, <2>3, <2>4, SeqEqual
  <2>5. ASSUME a = b, NEW i \in 1 .. Len(s) PROVE s[i] = v[i]
    BY <2>2, <2>3, <2>5
  <2> QED  BY <2>4, <2>5 DEF a, b
<1>4. ASSUME NEW v \in Seq(Byte)
      PROVE  /\ v \o u \in Seq(Byte) /\ Len(v \o u) = Len(v) + Len(u)
             /\ \A i \in 1 .. Len(v) : (v \o u)[i] = v[i]
  <2>1. Len(v) \in Nat
    BY LenProperties
  <2>2. /\ v \o u \in Seq(Byte) /\ Len(v \o u) = Len(v) + Len(u)
        /\ \A i \in 1 .. Len(v) + Len(u) :
             (v \o u)[i] = IF i <= Len(v) THEN v[i] ELSE u[i - Len(v)]
    BY ConcatProperties
  <2> QED  BY <1>1, <2>1, <2>2
<1>5. IsPrefix(s, s \o u)
  <2>1. s \o u \in Seq(Byte) /\ Len(s) <= Len(s \o u)
    BY <1>1, <1>4
  <2>2. \A i \in 1 .. Len(s) : s[i] = (s \o u)[i]
    BY <1>4
  <2> QED  BY <1>3, <2>1, <2>2
<1>6. ASSUME IsPrefix(s, t) PROVE IsPrefix(s, t \o u)
  <2>1. Len(s) <= Len(t) /\ \A i \in 1 .. Len(s) : s[i] = t[i]
    BY <1>3, <1>6
  <2>2. t \o u \in Seq(Byte) /\ Len(s) <= Len(t \o u)
    BY <1>1, <1>4, <2>1
  <2>3. \A i \in 1 .. Len(s) : i \in 1 .. Len(t) /\ s[i] = (t \o u)[i]
    BY <1>1, <1>4, <2>1
  <2> QED  BY <1>3, <2>2, <2>3
<1> QED  BY <1>5, <1>6

\* A read that stores at the end of what the array holds appends to it.
LEMMA StoredAppends ==
  ASSUME NEW N \in Nat, NEW a \in [1 .. N -> Byte], NEW k \in 0 .. N,
         NEW bytes \in Seq(Bytes), k + Len(bytes) <= N
  PROVE  SubSeq(Stored(a, k, bytes), 1, k + Len(bytes)) = SubSeq(a, 1, k) \o bytes
<1> DEFINE b == Stored(a, k, bytes)
           n == Len(bytes)
           left == SubSeq(b, 1, k + n)
           held == SubSeq(a, 1, k)
<1>1. n \in Nat /\ bytes \in Seq(Byte) /\ DOMAIN bytes = 1 .. n
  BY LenProperties, SeqMonotonic DEF Byte
<1>2. b \in [1 .. N -> Byte]
  BY StoredTyped
<1>3. \A i \in 1 .. N : b[i] = IF i - k \in 1 .. n THEN bytes[i - k] ELSE a[i]
  BY <1>1 DEF Stored
<1> HIDE DEF b, n
<1>4. left \in Seq(Byte) /\ Len(left) = k + n /\ \A i \in 1 .. k + n : left[i] = b[i]
  <2>1. k + n \in 0 .. N
    BY <1>1 DEF n
  <2> QED  BY <1>2, <2>1, FirstBytes
<1>5. held \in Seq(Byte) /\ Len(held) = k /\ \A i \in 1 .. k : held[i] = a[i]
  BY FirstBytes
<1> HIDE DEF left, held
<1>6. /\ held \o bytes \in Seq(Byte) /\ Len(held \o bytes) = k + n
      /\ \A i \in 1 .. k + n :
           (held \o bytes)[i] = IF i <= k THEN held[i] ELSE bytes[i - k]
  BY <1>1, <1>5, ConcatProperties DEF n
<1>7. \A i \in 1 .. k + n : left[i] = (held \o bytes)[i]
  <2> SUFFICES ASSUME NEW i \in 1 .. k + n PROVE left[i] = (held \o bytes)[i]
    OBVIOUS
  <2>1. i \in 1 .. N /\ left[i] = b[i]
    BY <1>1, <1>4 DEF n
  <2>2. CASE i <= k
    BY <1>1, <1>3, <1>5, <1>6, <2>1, <2>2
  <2>3. CASE ~ i <= k
    <3>1. i - k \in 1 .. n
      BY <1>1, <2>3
    <3> QED  BY <1>3, <1>6, <2>1, <2>3, <3>1
  <2> QED  BY <2>2, <2>3
<1>8. left = held \o bytes
  BY <1>4, <1>6, <1>7, SeqEqual
<1> QED  BY <1>8 DEF left, held, b, n

\* What is sent of the array and what is moved to its front make up what it held.
LEMMA MovedSplits ==
  ASSUME NEW N \in Nat, NEW a \in [1 .. N -> Byte], NEW u \in 0 .. N, NEW i \in 0 .. u,
         NEW b \in [1 .. N -> Byte], \A j \in 1 .. u - i : b[j] = a[j + i]
  PROVE  SubSeq(a, 1, u) = SubSeq(a, 1, i) \o SubSeq(b, 1, u - i)
<1> DEFINE all == SubSeq(a, 1, u)
           line == SubSeq(a, 1, i)
           rest == SubSeq(b, 1, u - i)
<1>1. all \in Seq(Byte) /\ Len(all) = u /\ \A j \in 1 .. u : all[j] = a[j]
  BY FirstBytes
<1>2. line \in Seq(Byte) /\ Len(line) = i /\ \A j \in 1 .. i : line[j] = a[j]
  BY FirstBytes
<1>3. rest \in Seq(Byte) /\ Len(rest) = u - i /\ \A j \in 1 .. u - i : rest[j] = b[j]
  <2>1. u - i \in 0 .. N
    OBVIOUS
  <2> QED  BY <2>1, FirstBytes
<1> HIDE DEF all, line, rest
<1>4. /\ line \o rest \in Seq(Byte) /\ Len(line \o rest) = u
      /\ \A j \in 1 .. u : (line \o rest)[j] = IF j <= i THEN line[j] ELSE rest[j - i]
  <2>1. Len(line) + Len(rest) = u
    BY <1>2, <1>3
  <2>2. /\ line \o rest \in Seq(Byte) /\ Len(line \o rest) = Len(line) + Len(rest)
        /\ \A j \in 1 .. Len(line) + Len(rest) :
             (line \o rest)[j] = IF j <= Len(line) THEN line[j] ELSE rest[j - Len(line)]
    <3>1. line \in Seq(Byte) /\ rest \in Seq(Byte)
      BY <1>2, <1>3
    <3> QED  BY <3>1, ConcatProperties
  <2>3. Len(line) = i
    BY <1>2
  <2> QED  BY <2>1, <2>2, <2>3
<1>5. \A j \in 1 .. u : all[j] = (line \o rest)[j]
  <2> SUFFICES ASSUME NEW j \in 1 .. u PROVE all[j] = (line \o rest)[j]
    OBVIOUS
  <2>1. CASE j <= i
    BY <1>1, <1>2, <1>4, <2>1
  <2>2. CASE ~ j <= i
    <3>1. j - i \in 1 .. u - i /\ (j - i) + i = j
      BY <2>2
    <3> QED  BY <1>1, <1>3, <1>4, <2>2, <3>1
  <2> QED  BY <2>1, <2>2
<1>6. all = line \o rest
  BY <1>1, <1>4, <1>5, SeqEqual
<1> QED  BY <1>6 DEF all, line, rest

\* check_line_and_send: the bytes sent and those left in the buffer are those that were in
\* it, and what is sent ends in a line feed.
LEMMA LineSplits ==
  ASSUME NEW m \in Client, Filled(m)
  PROVE  LET n == LineSent(m)
             line == SubSeq(m.buf, 1, m.buf_used - n.buf_used)
         IN  /\ line \in Seq(Byte) /\ SubSeq(n.buf, 1, n.buf_used) \in Seq(Byte)
             /\ SubSeq(m.buf, 1, m.buf_used) = line \o SubSeq(n.buf, 1, n.buf_used)
             /\ line # <<>> => Last(line) = "nl"
<1> DEFINE n == LineSent(m)
           i == m.buf_used - n.buf_used
           line == SubSeq(m.buf, 1, i)
<1>0. /\ m.buf \in [1 .. max_line_len -> Byte] /\ m.buf_used \in 0 .. max_line_len
      /\ n.buf \in [1 .. max_line_len -> Byte] /\ n.buf_used \in 0 .. max_line_len
      /\ max_line_len \in Nat
  BY LineSentFilled, ServerAssumption DEF Client, Filled
<1>1. /\ i \in 0 .. m.buf_used /\ \A j \in 1 .. m.buf_used - i : n.buf[j] = m.buf[j + i]
      /\ i # 0 => i \in 1 .. m.buf_used /\ m.buf[i] = "nl"
  <2>1. CASE LinePos(m) = {}
    <3>1. n = m
      BY <2>1 DEF LineSent
    <3> HIDE DEF n
    <3>2. i = 0
      BY <1>0, <3>1
    <3> HIDE DEF i
    <3>3. \A j \in 1 .. m.buf_used - i : j + i = j
      BY <1>0, <3>2
    <3> QED  BY <1>0, <3>1, <3>2, <3>3
  <2>2. CASE LinePos(m) # {}
    <3> DEFINE k == CHOOSE k \in LinePos(m) : TRUE
               b == Moved(m.buf, k, m.buf_used - k)
    <3>1. k \in 1 .. m.buf_used /\ m.buf[k] = "nl"
      BY <2>2 DEF LinePos
    <3>2. n = [m EXCEPT !.buf = b, !.buf_used = m.buf_used - k]
      BY <2>2 DEF LineSent, Client
    <3> HIDE DEF k, n
    <3>3. \A j \in 1 .. m.buf_used - k : b[j] = m.buf[j + k]
      <4> DEFINE a == m.buf
                 u == m.buf_used - k
      <4>1. a \in [1 .. max_line_len -> Byte] /\ 1 .. u \subseteq 1 .. max_line_len /\ u \in Int
        BY <1>0, <3>1
      <4> HIDE DEF a, u
      <4>2. \A j \in 1 .. u : Moved(a, k, u)[j] = a[j + k]
        BY <4>1 DEF Moved
      <4> QED  BY <4>2 DEF a, u
    <3> HIDE DEF b
    <3>4. n.buf = b /\ n.buf_used = m.buf_used - k
      BY <3>2 DEF Client
    <3>5. i = k
      BY <1>0, <3>1, <3>4
    <3> QED  BY <1>0, <3>1, <3>3, <3>4, <3>5
  <2> QED  BY <2>1, <2>2
<1>2. n.buf_used = m.buf_used - i
  BY <1>0
<1> HIDE DEF n, i
<1>3. SubSeq(m.buf, 1, m.buf_used) = line \o SubSeq(n.buf, 1, n.buf_used)
  <2> DEFINE a == m.buf
             b == n.buf
             u == m.buf_used
  <2>1. /\ a \in [1 .. max_line_len -> Byte] /\ b \in [1 .. max_line_len -> Byte]
        /\ u \in 0 .. max_line_len /\ i \in 0 .. u /\ max_line_len \in Nat
        /\ \A j \in 1 .. u - i : b[j] = a[j + i]
    BY <1>0, <1>1
  <2> HIDE DEF a, b, u
  <2>2. SubSeq(a, 1, u) = SubSeq(a, 1, i) \o SubSeq(b, 1, u - i)
    BY <2>1, MovedSplits
  <2> QED  BY <1>2, <2>2 DEF a, b, u
<1>4. line \in Seq(Byte) /\ Len(line) = i /\ \A j \in 1 .. i : line[j] = m.buf[j]
  <2>1. i \in 0 .. max_line_len
    BY <1>0, <1>1
  <2> QED  BY <1>0, <2>1, FirstBytes
<1>5. SubSeq(n.buf, 1, n.buf_used) \in Seq(Byte)
  BY <1>0, FirstBytes
<1> HIDE DEF line
<1>6. line # <<>> => Last(line) = "nl"
  <2>1. line # <<>> => i # 0
    BY <1>4, EmptySeq, LenProperties
  <2> QED  BY <1>1, <1>4, <2>1 DEF Last
<1> QED  BY <1>3, <1>4, <1>5, <1>6 DEF n, i, line

\* session_line_read: the first read of a call appends to what the buffer holds.
LEMMA LineAppends ==
  ASSUME SInv, LineRead("data"), ~ ReadBefore, LineStored(mem[cur]).buf_used <= max_line_len
  PROVE  LET m == mem[cur]
             n == LineStored(m)
         IN  SubSeq(n.buf, 1, n.buf_used)
               = SubSeq(m.buf, 1, m.buf_used) \o ReadBytes(max_line_len - off)
<1> DEFINE m == mem[cur]
           bytes == ReadBytes(max_line_len - off)
           n == LineStored(m)
           stored == Stored(m.buf, off, bytes)
<1>1. m \in Client /\ Filled(m) /\ KernelTypes
  BY Reader DEF LineRead
<1>2. off \in 0 .. max_line_len /\ off = m.buf_used /\ max_line_len \in Nat
  BY <1>1, ServerAssumption DEF LineRead, ReadBefore, SInv, ThreadInv, HandlerReads, Filled
<1>3. bytes \in Seq(Bytes) /\ Len(bytes) \in Nat
  <2>1. FileOf(m.fd) \in Conn /\ max_line_len - off \in Nat
    BY <1>2, DataFromSocket DEF LineRead
  <2> QED  BY <1>1, <2>1, BytesRead
<1>4. n.buf = stored /\ n.buf_used = off + Len(bytes)
  BY <1>1, <1>2 DEF LineStored, Client
<1>5. m.buf \in [1 .. max_line_len -> Byte]
  BY <1>1 DEF Client
<1>6. off + Len(bytes) <= max_line_len
  BY <1>4
<1> HIDE DEF m, n, bytes, stored
<1>7. SubSeq(stored, 1, off + Len(bytes)) = SubSeq(m.buf, 1, off) \o bytes
  BY <1>2, <1>3, <1>5, <1>6, StoredAppends DEF stored
<1>8. SubSeq(n.buf, 1, n.buf_used) = SubSeq(m.buf, 1, m.buf_used) \o bytes
  BY <1>2, <1>4, <1>7
<1> QED  BY <1>8 DEF m, n, bytes

-----------------------------------------------------------------------------
(***************************************************************************)
(* Lines.                                                                  *)
(***************************************************************************)

\* What client s typed after its name is what was sent of it and what its buffer holds,
\* unless a call of the handler has stored the bytes of two reads; only whole lines are
\* sent.
Intact(s) ==
  /\ reg[s] # nil =>
       LET m == mem[reg[s]]
       IN  /\ m.name_ok /\ ~ raced[s] => typed[s] = said[s] \o SubSeq(m.buf, 1, m.buf_used)
           /\ ~ m.name_ok => typed[s] = <<>> /\ said[s] = <<>> /\ m.buf_used = 0
  /\ reg[s] = nil /\ stage[s] # "closed" => typed[s] = <<>> /\ said[s] = <<>>
  /\ ~ raced[s] => /\ IsPrefix(said[s], typed[s])
                   /\ said[s] # <<>> => Last(said[s]) = "nl"

LinesTyped ==
  /\ typed \in [Conn -> Seq(Byte)] /\ said \in [Conn -> Seq(Byte)]
  /\ raced \in [Conn -> BOOLEAN]
LinesInv == LinesTyped /\ \A s \in Conn : Intact(s)

\* A step that reads and sends nothing after a name, and ends no session.
LEMMA LinesSame ==
  ASSUME LinesInv, UNCHANGED <<typed, said, raced>>,
         \A s \in Conn :
           /\ reg'[s] = reg[s]
           /\ (stage'[s] = "closed") = (stage[s] = "closed")
           /\ reg[s] # nil => /\ mem'[reg[s]].name_ok = mem[reg[s]].name_ok
                              /\ mem'[reg[s]].buf_used = mem[reg[s]].buf_used
                              /\ mem'[reg[s]].buf = mem[reg[s]].buf
  PROVE  LinesInv'
<1>1. ASSUME NEW s \in Conn PROVE Intact(s)'
  <2>1. Intact(s)
    BY DEF LinesInv
  <2>2. /\ typed'[s] = typed[s] /\ said'[s] = said[s] /\ raced'[s] = raced[s]
        /\ reg'[s] = reg[s] /\ (stage'[s] = "closed") = (stage[s] = "closed")
    OBVIOUS
  <2>3. CASE reg[s] = nil
    BY <2>1, <2>2, <2>3 DEF Intact
  <2>4. CASE reg[s] # nil
    <3> DEFINE m == mem[reg[s]]
               n == mem'[reg[s]]
    <3>1. n.name_ok = m.name_ok /\ n.buf_used = m.buf_used /\ n.buf = m.buf
      BY <2>4
    <3>2. /\ m.name_ok /\ ~ raced[s] => typed[s] = said[s] \o SubSeq(m.buf, 1, m.buf_used)
          /\ ~ m.name_ok => typed[s] = <<>> /\ said[s] = <<>> /\ m.buf_used = 0
      BY <2>1, <2>4 DEF Intact
    <3> HIDE DEF m, n
    <3>3. /\ n.name_ok /\ ~ raced[s] => typed[s] = said[s] \o SubSeq(n.buf, 1, n.buf_used)
          /\ ~ n.name_ok => typed[s] = <<>> /\ said[s] = <<>> /\ n.buf_used = 0
      BY <3>1, <3>2
    <3> QED  BY <2>1, <2>2, <2>4, <3>3 DEF Intact, n
  <2> QED  BY <2>3, <2>4
<1> QED  BY <1>1 DEF LinesInv, LinesTyped

\* session_close: of its connection only what was sent and typed remains.
LEMMA LinesClosing ==
  ASSUME SInv, Owned, LinesInv, pc \in {"name_read", "line_read"},
         NEW m \in Client, NEW own, NEW all, Closing(cur, m, own, all), m.fd = mem[cur].fd,
         UNCHANGED <<queue, sent, fin, who>>, rx' \in [Conn -> Seq(Bytes)], Return,
         LinesTyped',
         \A t \in Conn : t # who[cur] =>
           typed'[t] = typed[t] /\ said'[t] = said[t] /\ raced'[t] = raced[t],
         ~ raced'[who[cur]] => /\ IsPrefix(said'[who[cur]], typed'[who[cur]])
                               /\ said'[who[cur]] # <<>> => Last(said'[who[cur]]) = "nl"
  PROVE  LinesInv'
<1>1. pc # "epoll_ctl" /\ pc' # "epoll_ctl" /\ cur \in Sessions
  BY Reader DEF Return, HandleNext
<1>2. \A d \in Sessions \ {cur} : mem'[d] = mem[d]
  BY <1>1, ClosingKeeps
<1>3. PICK s : s = who[cur]
  OBVIOUS
<1>4. s \in Conn /\ reg[s] = cur /\ cur # nil /\ FileOf(m.fd) = s
  BY <1>1, <1>3, PointerOfSession
<1>5. /\ reg' = [g \in File |-> IF g = s THEN nil ELSE reg[g]]
      /\ stage' = [t \in Conn |-> IF t = s THEN "closed" ELSE stage[t]]
  BY <1>4 DEF Closing, CloseClient, CloseFd
<1>6. ASSUME NEW t \in Conn, t # s
      PROVE  /\ reg'[t] = reg[t] /\ stage'[t] = stage[t]
             /\ reg[t] # nil => mem'[reg[t]] = mem[reg[t]]
  <2>1. reg[t] # nil => reg[t] \in Sessions /\ reg[t] # cur
    BY <1>3, <1>6, SessionOfPointer
  <2> QED  BY <1>2, <1>5, <1>6, <2>1 DEF File
<1>7. ASSUME NEW t \in Conn PROVE Intact(t)'
  <2>1. CASE t = s
    BY <1>3, <1>4, <1>5, <2>1 DEF Intact, File
  <2>2. CASE t # s
    <3>1. Intact(t)
      BY DEF LinesInv
    <3>2. typed'[t] = typed[t] /\ said'[t] = said[t] /\ raced'[t] = raced[t]
      BY <1>3, <2>2
    <3> QED  BY <1>6, <2>2, <3>1, <3>2 DEF Intact
  <2> QED  BY <2>1, <2>2
<1> QED  BY <1>7 DEF LinesInv

\* What RecordRead and RecordLine note is about the session of the handler.
LEMMA ReadRecorded ==
  ASSUME SInv, Owned, LinesInv, LineRead("data"), RecordRead, UNCHANGED said
  PROVE  LET s == who[cur]
         IN  /\ LinesTyped'
             /\ typed'[s] = typed[s] \o ReadBytes(max_line_len - off)
             /\ ~ raced'[s] => ~ raced[s] /\ ~ ReadBefore
             /\ ~ raced'[s] => IsPrefix(said[s], typed'[s])
             /\ \A t \in Conn : t # s => typed'[t] = typed[t] /\ raced'[t] = raced[t]
<1> DEFINE s == who[cur]
           bytes == ReadBytes(max_line_len - off)
<1>1. /\ cur \in Sessions /\ KernelTypes /\ off \in 0 .. max_line_len
      /\ max_line_len \in Nat
  BY Reader, ServerAssumption DEF LineRead, SInv, ThreadInv, HandlerReads
<1>2. s \in Conn
  BY <1>1, PointerOfSession
<1>3. bytes \in Seq(Byte)
  <2>1. FileOf(mem[cur].fd) \in Conn /\ max_line_len - off \in Nat
    BY <1>1, DataFromSocket DEF LineRead
  <2> QED  BY <1>1, <2>1, BytesRead, SeqMonotonic DEF Byte
<1>4. /\ typed' = [typed EXCEPT ![s] = @ \o bytes]
      /\ raced' = [raced EXCEPT ![s] = @ \/ ReadBefore]
  BY DEF RecordRead
<1>5. LinesTyped /\ Intact(s)
  BY <1>2 DEF LinesInv
<1> HIDE DEF s, bytes
<1>6. typed[s] \in Seq(Byte) /\ said[s] \in Seq(Byte) /\ typed[s] \o bytes \in Seq(Byte)
  BY <1>2, <1>3, <1>5, ConcatProperties DEF LinesTyped
<1>7. typed' \in [Conn -> Seq(Byte)] /\ typed'[s] = typed[s] \o bytes
  BY <1>2, <1>4, <1>5, <1>6 DEF LinesTyped
<1>8. raced' \in [Conn -> BOOLEAN] /\ (~ raced'[s] => ~ raced[s] /\ ~ ReadBefore)
  BY <1>2, <1>4, <1>5 DEF LinesTyped, ReadBefore
<1>9. \A t \in Conn : t # s => typed'[t] = typed[t] /\ raced'[t] = raced[t]
  BY <1>4, <1>5 DEF LinesTyped
<1>10. ~ raced'[s] => IsPrefix(said[s], typed'[s])
  <2>1. IsPrefix(said[s], typed[s]) => IsPrefix(said[s], typed[s] \o bytes)
    BY <1>3, <1>6, PrefixContinues
  <2> QED  BY <1>5, <1>7, <1>8, <2>1 DEF Intact
<1> QED  BY <1>5, <1>7, <1>8, <1>9, <1>10 DEF LinesTyped, s, bytes

\* The bytes sent come next in what the client typed.
LEMMA LineRecorded ==
  ASSUME SInv, Owned, LinesInv, pc = "line_read", RecordLine, UNCHANGED <<typed, raced>>
  PROVE  LET s == who[cur]
             n == LineSent(mem[cur])
         IN  /\ LinesTyped'
             /\ ~ raced[s] => /\ typed[s] = said'[s] \o SubSeq(n.buf, 1, n.buf_used)
                              /\ IsPrefix(said'[s], typed[s])
                              /\ said'[s] # <<>> => Last(said'[s]) = "nl"
             /\ \A t \in Conn : t # s => said'[t] = said[t]
<1> DEFINE s == who[cur]
           m == mem[cur]
           n == LineSent(m)
           held == SubSeq(m.buf, 1, m.buf_used)
           line == SubSeq(m.buf, 1, m.buf_used - n.buf_used)
           rest == SubSeq(n.buf, 1, n.buf_used)
<1>1. /\ cur \in Sessions /\ m \in Client /\ Filled(m) /\ m.name_ok
  BY Reader DEF SInv, ThreadInv, HandlerReads
<1>2. s \in Conn /\ reg[s] = cur /\ cur # nil
  BY <1>1, PointerOfSession
<1>3. /\ line \in Seq(Byte) /\ rest \in Seq(Byte)
      /\ held = line \o rest /\ (line # <<>> => Last(line) = "nl")
  BY <1>1, LineSplits
<1>4. said' = [said EXCEPT ![s] = @ \o line]
  BY DEF RecordLine
<1>5. LinesTyped /\ Intact(s)
  BY <1>2 DEF LinesInv
<1>6. ~ raced[s] => typed[s] = said[s] \o held /\ (said[s] # <<>> => Last(said[s]) = "nl")
  BY <1>1, <1>2, <1>5 DEF Intact
<1> HIDE DEF s, n, held, line, rest
<1>7. said[s] \in Seq(Byte) /\ said[s] \o line \in Seq(Byte)
  BY <1>2, <1>3, <1>5, ConcatProperties DEF LinesTyped
<1>8. said' \in [Conn -> Seq(Byte)] /\ said'[s] = said[s] \o line
  <2>1. said \in [Conn -> Seq(Byte)] /\ s \in Conn
    BY <1>2, <1>5 DEF LinesTyped
  <2> QED  BY <1>4, <1>7, <2>1
<1>9. (said[s] \o line) \o rest = said[s] \o held
  <2>1. said[s] \in Seq(Byte) /\ line \in Seq(Byte) /\ rest \in Seq(Byte)
    BY <1>3, <1>7
  <2>2. (said[s] \o line) \o rest = said[s] \o (line \o rest)
    BY <2>1, ConcatBytes
  <2>3. held = line \o rest
    BY <1>3
  <2> QED  BY <2>2, <2>3
<1>10. IsPrefix(said[s] \o line, (said[s] \o line) \o rest)
  BY <1>3, <1>7, PrefixContinues
<1>11. ASSUME said[s] # <<>> => Last(said[s]) = "nl", said[s] \o line # <<>>
       PROVE  Last(said[s] \o line) = "nl"
  <2>1. CASE line = <<>>
    <3>1. said[s] \o line = said[s]
      BY <1>7, <2>1, ConcatEmptySeq
    <3> QED  BY <1>11, <3>1
  <2>2. CASE line # <<>>
    <3>1. Len(line) \in Nat \ {0} /\ Len(said[s]) \in Nat
      BY <1>3, <1>7, <2>2, EmptySeq, LenProperties
    <3>2. /\ Len(said[s] \o line) = Len(said[s]) + Len(line)
          /\ \A i \in 1 .. Len(said[s]) + Len(line) :
               (said[s] \o line)[i] = IF i <= Len(said[s]) THEN said[s][i]
                                      ELSE line[i - Len(said[s])]
      BY <1>3, <1>7, ConcatProperties
    <3>3. Last(said[s] \o line) = line[(Len(said[s]) + Len(line)) - Len(said[s])]
      BY <3>1, <3>2 DEF Last
    <3>4. (Len(said[s]) + Len(line)) - Len(said[s]) = Len(line)
      BY <3>1
    <3> QED  BY <1>3, <2>2, <3>3, <3>4 DEF Last
  <2> QED  BY <2>1, <2>2
<1>12. \A t \in Conn : t # s => said'[t] = said[t]
  BY <1>4, <1>5 DEF LinesTyped
<1>13. LinesTyped'
  BY <1>5, <1>8 DEF LinesTyped
<1>14. ~ raced[s] => /\ typed[s] = said'[s] \o rest
                     /\ IsPrefix(said'[s], typed[s])
                     /\ said'[s] # <<>> => Last(said'[s]) = "nl"
  BY <1>6, <1>8, <1>9, <1>10, <1>11
<1> QED  BY <1>12, <1>13, <1>14 DEF s, n, rest

\* The sessions that end while their name is read, or by an error.
LEMMA LinesCloses ==
  ASSUME SInv, Owned, LinesInv, name_read_too_long \/ name_read_closes \/ line_read_error
  PROVE  LinesInv'
<1>1. /\ pc \in {"name_read", "line_read"} /\ Return
      /\ UNCHANGED <<queue, sent, fin, who>> /\ UNCHANGED <<typed, said, raced>>
  BY DEF name_read_too_long, name_read_closes, line_read_error, NameEnds, NameRead, LineRead
<1>2. /\ cur \in Chunk /\ mem \in [Chunk -> Client] /\ KernelTypes
      /\ mem[cur] \in Client /\ rx \in [Conn -> Seq(Bytes)] /\ cur \in Sessions
  BY <1>1, Reader
<1>3. LinesTyped' /\ Intact(who[cur])
  BY <1>1, <1>2, PointerOfSession DEF LinesInv, LinesTyped
<1>4. ~ raced'[who[cur]] => /\ IsPrefix(said'[who[cur]], typed'[who[cur]])
                            /\ said'[who[cur]] # <<>> => Last(said'[who[cur]]) = "nl"
  BY <1>1, <1>3 DEF Intact
<1>5. CASE name_read_closes \/ line_read_error
  <2>1. Closing(cur, mem[cur], 0, 0) /\ rx' \in [Conn -> Seq(Bytes)]
    BY <1>2, <1>5 DEF name_read_closes, line_read_error
  <2> QED  BY <1>1, <1>2, <1>3, <1>4, <2>1, LinesClosing
<1>6. CASE name_read_too_long
  <2> DEFINE n == NameStored(mem[cur])
  <2>1. NameRead("data") /\ off \in 0 .. max_name_len
    BY <1>6 DEF name_read_too_long, NameRead, SInv, ThreadInv, HandlerReads
  <2>2. n \in Client /\ n.fd = mem[cur].fd /\ rx' \in [Conn -> Seq(Bytes)]
    BY <1>2, <1>6, <2>1, NameStoredFilled DEF name_read_too_long
  <2>3. Closing(cur, n, 1, 0)
    BY <1>6 DEF name_read_too_long
  <2> HIDE DEF n
  <2> QED  BY <1>1, <1>3, <1>4, <2>2, <2>3, LinesClosing
<1> QED  BY <1>5, <1>6

\* The session that ends with a line that is too long.
LEMMA LinesTooLong == ASSUME SInv, Owned, LinesInv, line_read_too_long PROVE LinesInv'
<1>1. /\ pc = "line_read" /\ LineRead("data") /\ Return /\ RecordRead
      /\ UNCHANGED <<queue, sent, fin, who, said>>
  BY DEF line_read_too_long, LineRead
<1>2. /\ cur \in Chunk /\ mem \in [Chunk -> Client] /\ KernelTypes /\ cur \in Sessions
  BY <1>1, Reader
<1> DEFINE n == LineStored(mem[cur])
<1>3. n \in Client /\ n.fd = mem[cur].fd /\ rx' \in [Conn -> Seq(Bytes)]
  <2>1. off \in 0 .. max_line_len
    BY <1>1 DEF SInv, ThreadInv, HandlerReads
  <2> QED  BY <1>1, <1>2, <2>1, LineStoredFilled DEF line_read_too_long
<1>4. Closing(cur, n, 1, 0)
  BY DEF line_read_too_long
<1> HIDE DEF n
<1>5. /\ LinesTyped' /\ (~ raced'[who[cur]] => ~ raced[who[cur]])
      /\ ~ raced'[who[cur]] => IsPrefix(said[who[cur]], typed'[who[cur]])
      /\ \A t \in Conn : t # who[cur] => typed'[t] = typed[t] /\ raced'[t] = raced[t]
  BY <1>1, ReadRecorded
<1>6. ~ raced[who[cur]] => (said[who[cur]] # <<>> => Last(said[who[cur]]) = "nl")
  BY <1>2, PointerOfSession DEF LinesInv, Intact
<1> QED  BY <1>1, <1>3, <1>4, <1>5, <1>6, LinesClosing

\* The session that ends with the stream: the last line is sent.
LEMMA LinesEof == ASSUME SInv, Owned, LinesInv, line_read_eof PROVE LinesInv'
<1>1. /\ pc = "line_read" /\ Return /\ RecordLine
      /\ UNCHANGED <<queue, rx, sent, fin, who>> /\ UNCHANGED <<typed, raced>>
  BY DEF line_read_eof, LineRead
<1>2. /\ mem[cur] \in Client /\ Filled(mem[cur]) /\ rx \in [Conn -> Seq(Bytes)]
  BY <1>1, Reader
<1> DEFINE n == LineSent(mem[cur])
           all == LinesSent(mem[cur])
<1>3. n \in Client /\ n.fd = mem[cur].fd
  BY <1>2, LineSentFilled
<1>4. Closing(cur, n, 0, all)
  BY DEF line_read_eof
<1>5. /\ LinesTyped'
      /\ ~ raced[who[cur]] => /\ IsPrefix(said'[who[cur]], typed[who[cur]])
                              /\ said'[who[cur]] # <<>> => Last(said'[who[cur]]) = "nl"
      /\ \A t \in Conn : t # who[cur] => said'[t] = said[t]
  BY <1>1, LineRecorded
<1> HIDE DEF n, all
<1> QED  BY <1>1, <1>2, <1>3, <1>4, <1>5, LinesClosing

\* A step that changes the buffer or the record of one session and keeps it.
LEMMA LinesOfOne ==
  ASSUME SInv, Owned, LinesInv, cur \in Sessions, UNCHANGED <<reg, stage>>, LinesTyped',
         mem \in [Chunk -> Client], NEW m \in Client, mem' = [mem EXCEPT ![cur] = m],
         \A t \in Conn : t # who[cur] =>
           typed'[t] = typed[t] /\ said'[t] = said[t] /\ raced'[t] = raced[t],
         m.name_ok,
         ~ raced'[who[cur]] =>
            /\ typed'[who[cur]] = said'[who[cur]] \o SubSeq(m.buf, 1, m.buf_used)
            /\ IsPrefix(said'[who[cur]], typed'[who[cur]])
            /\ said'[who[cur]] # <<>> => Last(said'[who[cur]]) = "nl"
  PROVE  LinesInv'
<1>1. PICK s : s = who[cur]
  OBVIOUS
<1>2. s \in Conn /\ reg[s] = cur /\ cur # nil /\ cur \in Chunk
  BY <1>1, PointerOfSession
<1>3. mem'[cur] = m /\ \A c \in Chunk : c # cur => mem'[c] = mem[c]
  BY <1>2
<1>4. ASSUME NEW t \in Conn PROVE Intact(t)'
  <2>1. CASE t = s
    BY <1>1, <1>2, <1>3, <2>1 DEF Intact
  <2>2. CASE t # s
    <3>1. Intact(t)
      BY DEF LinesInv
    <3>2. typed'[t] = typed[t] /\ said'[t] = said[t] /\ raced'[t] = raced[t]
      BY <1>1, <2>2
    <3>3. reg[t] # nil => mem'[reg[t]] = mem[reg[t]]
      BY <1>1, <1>3, <2>2, SessionOfPointer
    <3> QED  BY <3>1, <3>2, <3>3 DEF Intact
  <2> QED  BY <2>1, <2>2
<1> QED  BY <1>4 DEF LinesInv

\* session_line_read reads on.
LEMMA LinesMore == ASSUME SInv, Owned, LinesInv, line_read_more PROVE LinesInv'
<1>1. /\ pc = "line_read" /\ LineRead("data") /\ RecordRead
      /\ UNCHANGED <<reg, stage, who, said>> /\ LineStored(mem[cur]).buf_used <= max_line_len
  BY DEF line_read_more, LineRead
<1>2. /\ cur \in Chunk /\ mem \in [Chunk -> Client] /\ KernelTypes /\ cur \in Sessions
      /\ mem[cur].name_ok /\ off \in 0 .. max_line_len /\ Filled(mem[cur])
      /\ mem[cur] \in Client
  BY <1>1, Reader DEF SInv, ThreadInv, HandlerReads
<1> DEFINE m == mem[cur]
           n == LineStored(m)
           s == who[cur]
           held == SubSeq(m.buf, 1, m.buf_used)
           bytes == ReadBytes(max_line_len - off)
<1>3. n \in Client /\ n.name_ok
  BY <1>1, <1>2, LineStoredFilled
<1>4. mem' = [mem EXCEPT ![cur] = n]
  BY DEF line_read_more
<1>5. /\ LinesTyped' /\ (~ raced'[s] => ~ raced[s] /\ ~ ReadBefore)
      /\ typed'[s] = typed[s] \o bytes
      /\ ~ raced'[s] => IsPrefix(said[s], typed'[s])
      /\ \A t \in Conn : t # s => typed'[t] = typed[t] /\ raced'[t] = raced[t]
  BY <1>1, ReadRecorded
<1>6. s \in Conn /\ reg[s] = cur /\ cur # nil
  BY <1>2, PointerOfSession
<1>7. ~ raced[s] => /\ typed[s] = said[s] \o held
                    /\ said[s] # <<>> => Last(said[s]) = "nl"
  BY <1>2, <1>6 DEF LinesInv, Intact
<1>8. ~ ReadBefore => SubSeq(n.buf, 1, n.buf_used) = held \o bytes
  BY <1>1, LineAppends
<1>9. said[s] \in Seq(Byte) /\ held \in Seq(Byte) /\ bytes \in Seq(Byte)
  <2>1. said[s] \in Seq(Byte)
    BY <1>6 DEF LinesInv, LinesTyped
  <2>2. held \in Seq(Byte)
    BY <1>2, FirstBytes, ServerAssumption DEF Client, Filled
  <2>3. FileOf(m.fd) \in Conn /\ max_line_len - off \in Nat
    BY <1>1, <1>2, DataFromSocket, ServerAssumption DEF LineRead
  <2>4. bytes \in Seq(Byte)
    BY <1>2, <2>3, BytesRead, SeqMonotonic DEF Byte
  <2> QED  BY <2>1, <2>2, <2>4
<1> HIDE DEF n, s, held, bytes
<1>10. (said[s] \o held) \o bytes = said[s] \o (held \o bytes)
  BY <1>9, ConcatBytes
<1>11. ~ raced'[s] => /\ typed'[s] = said'[s] \o SubSeq(n.buf, 1, n.buf_used)
                      /\ IsPrefix(said'[s], typed'[s])
                      /\ said'[s] # <<>> => Last(said'[s]) = "nl"
  BY <1>1, <1>5, <1>7, <1>8, <1>10
<1> QED  BY <1>1, <1>2, <1>3, <1>4, <1>5, <1>11, LinesOfOne DEF s

\* check_line_and_send sends a line and keeps the rest.
LEMMA LinesDone == ASSUME SInv, Owned, LinesInv, line_read_done PROVE LinesInv'
<1>1. /\ pc = "line_read" /\ RecordLine
      /\ UNCHANGED <<reg, stage, who, typed, raced>>
  BY DEF line_read_done, LineRead
<1>2. /\ cur \in Chunk /\ mem \in [Chunk -> Client] /\ KernelTypes /\ cur \in Sessions
      /\ mem[cur].name_ok /\ Filled(mem[cur]) /\ mem[cur] \in Client
  BY <1>1, Reader DEF SInv, ThreadInv, HandlerReads
<1> DEFINE n == LineSent(mem[cur])
           s == who[cur]
<1>3. n \in Client /\ n.name_ok
  BY <1>2, LineSentFilled
<1>4. mem' = [mem EXCEPT ![cur] = n]
  BY DEF line_read_done
<1>5. /\ LinesTyped'
      /\ ~ raced[s] => /\ typed[s] = said'[s] \o SubSeq(n.buf, 1, n.buf_used)
                       /\ IsPrefix(said'[s], typed[s])
                       /\ said'[s] # <<>> => Last(said'[s]) = "nl"
      /\ \A t \in Conn : t # s => said'[t] = said[t]
  BY <1>1, LineRecorded
<1> HIDE DEF n
<1> QED  BY <1>1, <1>2, <1>3, <1>4, <1>5, LinesOfOne

\* session_name_read: the line buffer is empty and stays so; the client that gets its name
\* starts with nothing typed.
LEMMA LinesNames ==
  ASSUME SInv, Owned, LinesInv, name_read_more \/ name_read_done
  PROVE  LinesInv'
<1>1. /\ pc = "name_read" /\ UNCHANGED <<reg, stage, who>> /\ UNCHANGED <<typed, said, raced>>
  BY DEF name_read_more, name_read_done, NameRead, histVars
<1>2. /\ cur \in Chunk /\ mem \in [Chunk -> Client] /\ KernelTypes /\ cur \in Sessions
      /\ ~ mem[cur].name_ok /\ off \in 0 .. max_name_len /\ Filled(mem[cur])
      /\ mem[cur] \in Client
  BY <1>1, Reader DEF SInv, ThreadInv, HandlerReads
<1>3. who[cur] \in Conn /\ reg[who[cur]] = cur /\ cur # nil
  BY <1>2, PointerOfSession
<1>4. CASE name_read_more
  <2> DEFINE m == mem[cur]
             n == NameStored(m)
             bytes == ReadBytes(max_name_len - off)
             stored == Stored(m.name, off, bytes)
             used == m.name_used + Len(bytes)
  <2>1. n = [m EXCEPT !.name = stored, !.name_used = used] /\ m \in Client
    BY <1>2 DEF NameStored, Client
  <2>2. mem' = [mem EXCEPT ![cur] = n]
    BY <1>4 DEF name_read_more
  <2> HIDE DEF stored, used, n
  <2>3. n.name_ok = m.name_ok /\ n.buf_used = m.buf_used /\ n.buf = m.buf
    BY <2>1 DEF Client
  <2>4. \A s \in Conn : reg[s] # nil => /\ mem'[reg[s]].name_ok = mem[reg[s]].name_ok
                                        /\ mem'[reg[s]].buf_used = mem[reg[s]].buf_used
                                        /\ mem'[reg[s]].buf = mem[reg[s]].buf
    BY <1>2, <2>2, <2>3, SessionOfPointer
  <2> QED  BY <1>1, <2>4, LinesSame
<1>5. CASE UNCHANGED mem
  BY <1>1, <1>5, LinesSame
<1>6. ASSUME NEW i \in NamePos(mem[cur]), mem' = [mem EXCEPT ![cur] = Named(mem[cur], i)]
      PROVE  LinesInv'
  <2> DEFINE m == mem[cur]
             n == Named(m, i)
  <2>1. n \in Client /\ n.name_ok
    BY <1>2, NamedFilled
  <2>2. n.buf_used = m.buf_used
    BY <1>2 DEF Named, Client
  <2>3. mem' = [mem EXCEPT ![cur] = n]
    BY <1>6
  <2>4. /\ typed[who[cur]] = <<>> /\ said[who[cur]] = <<>> /\ m.buf_used = 0
    BY <1>2, <1>3 DEF LinesInv, Intact
  <2> HIDE DEF n
  <2>5. SubSeq(n.buf, 1, n.buf_used) = <<>>
    BY <2>2, <2>4, SubSeqEmpty
  <2>6. <<>> \in Seq(Byte) /\ <<>> \o <<>> = <<>>
    BY EmptySeq, ConcatEmptySeq
  <2>7. IsPrefix(<<>>, <<>>)
    BY <2>6, PrefixContinues
  <2>8. LinesTyped'
    BY <1>1 DEF LinesInv, LinesTyped
  <2>9. /\ typed'[who[cur]] = said'[who[cur]] \o SubSeq(n.buf, 1, n.buf_used)
        /\ IsPrefix(said'[who[cur]], typed'[who[cur]])
        /\ said'[who[cur]] = <<>>
    BY <1>1, <2>4, <2>5, <2>6, <2>7
  <2> QED  BY <1>1, <1>2, <2>1, <2>3, <2>8, <2>9, LinesOfOne
<1> QED  BY <1>4, <1>5, <1>6 DEF name_read_done

\* A new session has typed nothing, whatever the chunk held before.
LEMMA LinesRegister == ASSUME SInv, Owned, LinesInv, register PROVE LinesInv'
<1> DEFINE s == fdt[sock]
           m == SetUp(mem[cur])
<1>1. /\ pc = "epoll_ctl" /\ UNCHANGED <<stage, typed, said, raced>>
      /\ Register(s, cur) /\ mem' = [mem EXCEPT ![cur] = m]
  BY DEF register
<1>2. /\ cur \in LiveChunks /\ sock \in Fd /\ s \in Conn /\ reg[s] = nil /\ stage[s] = "open"
  BY <1>1 DEF SInv, HandlerAccepts, KernelInv, FilesOpen
<1>3. cur \in Chunk /\ mem \in [Chunk -> Client] /\ cur # nil
  BY <1>2, LiveMapped, ServerAssumption DEF SInv, LiveInMapped, MemoryInv
<1>4. m.name_ok = FALSE /\ m.buf_used = 0
  BY <1>3 DEF SetUp, Client
<1> HIDE DEF m, s
<1>5. mem'[cur].name_ok = FALSE /\ mem'[cur].buf_used = 0
  BY <1>1, <1>3, <1>4
<1>6. reg' = [reg EXCEPT ![s] = cur] /\ reg \in [File -> Chunk \cup {nil, serv}]
  BY <1>1 DEF Register, SInv, KernelInv, KernelTypes
<1>7. reg'[s] = cur /\ \A t \in Conn : t # s => reg'[t] = reg[t]
  BY <1>2, <1>6 DEF File
<1>8. \A t \in Conn : reg[t] # nil => mem'[reg[t]] = mem[reg[t]]
  <2>1. \A t \in Conn : reg[t] # nil => reg[t] # cur /\ reg[t] \in Chunk
    BY <1>1, SessionOfPointer DEF Sessions
  <2> QED  BY <1>1, <1>3, <2>1
<1>9. ASSUME NEW t \in Conn PROVE Intact(t)'
  <2>1. Intact(t)
    BY DEF LinesInv
  <2>2. CASE t = s
    BY <1>1, <1>2, <1>3, <1>5, <1>7, <2>1, <2>2 DEF Intact
  <2>3. CASE t # s
    BY <1>1, <1>7, <1>8, <2>1, <2>3 DEF Intact
  <2> QED  BY <2>2, <2>3
<1> QED  BY <1>1, <1>9 DEF LinesInv, LinesTyped

\* A connection that is turned away has typed nothing after a name.
LEMMA LinesRejects == ASSUME SInv, Owned, LinesInv, accept_rejects PROVE LinesInv'
<1> DEFINE s == Head(queue)
<1>1. /\ s \in Conn /\ stage[s] = "queued" /\ reg[s] = nil
  BY FirstQueued DEF accept_rejects
<1>2. /\ UNCHANGED <<reg, mem, typed, said, raced>>
      /\ stage' = [stage EXCEPT ![s] = "closed"]
  BY DEF accept_rejects
<1> HIDE DEF s
<1>3. \A t \in Conn : stage'[t] # "closed" => stage[t] # "closed"
  BY <1>1, <1>2 DEF SInv, KernelInv, KernelTypes
<1>4. ASSUME NEW t \in Conn PROVE Intact(t)'
  <2>1. Intact(t)
    BY DEF LinesInv
  <2> QED  BY <1>2, <1>3, <2>1 DEF Intact
<1> QED  BY <1>2, <1>4 DEF LinesInv, LinesTyped

\* accept4 opens a connection that is not registered yet.
LEMMA LinesAccept == ASSUME SInv, Owned, LinesInv, accept_client PROVE LinesInv'
<1> DEFINE s == Head(queue)
<1>1. PICK c \in Chunk : /\ session_new(c)
                         /\ mem' = [mem EXCEPT ![c] = Recycled(c)]
  BY DEF accept_client
<1>2. /\ stage' = [stage EXCEPT ![s] = "open"] /\ UNCHANGED <<reg, typed, said, raced>>
      /\ s \in Conn /\ stage[s] = "queued"
  BY FirstQueued DEF accept_client, histVars
<1> HIDE DEF s
<1>3. IInv'
  BY <1>1, NextIInv DEF SInv, PoolsNext
<1>4. c \notin LiveChunks
  BY <1>1, <1>3, NewImplements DEF SInv, Allocator!session_new
<1>5. \A t \in Conn : reg[t] # nil => mem'[reg[t]] = mem[reg[t]]
  <2>1. \A t \in Conn : reg[t] # nil => reg[t] # c /\ reg[t] \in Chunk
    BY <1>4, SessionOfPointer
  <2> QED  BY <1>1, <2>1 DEF SInv, MemoryInv
<1>6. \A t \in Conn : (stage'[t] = "closed") = (stage[t] = "closed")
  BY <1>2 DEF SInv, KernelInv, KernelTypes
<1> QED  BY <1>2, <1>5, <1>6, LinesSame

\* The start, the waiting and the peers read and send nothing.
LEMMA LinesElsewhere ==
  ASSUME SInv, LinesInv,
         \/ server_init \/ create_epoll \/ register_listener \/ epoll_wait \/ PeerNext
         \/ accept_drained \/ accept_nomem \/ interrupted \/ accept_fails \/ UNCHANGED vars
  PROVE  LinesInv'
<1>1. UNCHANGED <<mem, typed, said, raced>>
  BY DEF server_init, create_epoll, register_listener, StartStep, epoll_wait, PeerNext,
         accept_drained, accept_nomem, interrupted, accept_fails, vars, histVars, procVars
<1>2. \A s \in Conn : reg'[s] = reg[s] /\ (stage'[s] = "closed") = (stage[s] = "closed")
  BY ElsewhereSame
<1> QED  BY <1>1, <1>2, LinesSame

\* Nobody has typed anything.
LEMMA InitLines == Init => LinesInv
<1>1. <<>> \in Seq(Byte) /\ <<>> \o <<>> = <<>>
  BY EmptySeq, ConcatEmptySeq
<1>2. IsPrefix(<<>>, <<>>)
  BY <1>1, PrefixContinues
<1> QED
  BY <1>1, <1>2, SocketsAssumption DEF Init, SocketsInit, LinesInv, LinesTyped, Intact, File

\* Every step keeps the lines of every client.
LEMMA NextLines ==
  SInv /\ Owned /\ LinesInv /\ [Next]_vars /\ ~ EpollCtlMayFail => LinesInv'
<1> SUFFICES ASSUME SInv, Owned, LinesInv, [Next]_vars, ~ register_fails PROVE LinesInv'
  BY DEF register_fails
<1> QED
  BY LinesElsewhere, LinesAccept, LinesRejects, LinesRegister, LinesNames, LinesMore,
     LinesTooLong, LinesDone, LinesEof, LinesCloses
  DEF Next, ServerNext

\* The bytes of others that reached a client.
HeardTyped == heard \in [Conn -> [Conn -> Seq(Byte)]]

\* A line reaches some, and is added to what they heard of its client.
LEMMA HeardRecorded ==
  ASSUME SInv, Owned, HeardTyped, pc = "line_read", RecordLine
  PROVE  HeardTyped'
<1> DEFINE s == who[cur]
           m == mem[cur]
           line == SubSeq(m.buf, 1, m.buf_used - LineSent(m).buf_used)
<1>1. s \in Conn /\ line \in Seq(Byte)
  BY Reader, PointerOfSession, LineSplits
<1>2. PICK lost \in MayLose(cur) :
        heard' = [t \in Conn |-> IF t \in Receivers(cur) \ lost
                                THEN [heard[t] EXCEPT ![s] = @ \o line] ELSE heard[t]]
  BY DEF RecordLine
<1> HIDE DEF s, line
<1>3. ASSUME NEW t \in Conn PROVE [heard[t] EXCEPT ![s] = @ \o line] \in [Conn -> Seq(Byte)]
  <2>1. heard[t] \in [Conn -> Seq(Byte)] /\ heard[t][s] \o line \in Seq(Byte)
    BY <1>1, ConcatProperties DEF HeardTyped
  <2> QED  BY <1>1, <2>1
<1> QED  BY <1>2, <1>3 DEF HeardTyped

LEMMA NextHeard ==
  ASSUME SInv, Owned, HeardTyped, [Next]_vars, ~ register_fails
  PROVE  HeardTyped'
<1>1. CASE line_read_done \/ line_read_eof
  BY <1>1, HeardRecorded DEF line_read_done, line_read_eof, LineRead
<1>2. CASE ~ (line_read_done \/ line_read_eof)
  <2>1. UNCHANGED heard
    BY <1>2
    DEF Next, ServerNext, server_init, create_epoll, register_listener, StartStep, epoll_wait,
        PeerNext, accept_drained, accept_nomem, interrupted, accept_fails, accept_client,
        accept_rejects, register, name_read_more, name_read_too_long, name_read_closes,
        name_read_done, line_read_more, line_read_too_long, line_read_error, vars, histVars
  <2> QED  BY <2>1 DEF HeardTyped
<1> QED  BY <1>1, <1>2

\* The buffer of a client holds what is typed and not sent, as long as epoll_ctl does not
\* fail.
THEOREM LinesInvariant ==
  Spec => [](~ EpollCtlMayFail => SInv /\ Owned /\ LinesInv /\ HeardTyped)
<1> DEFINE Inv == ~ EpollCtlMayFail => SInv /\ Owned /\ LinesInv /\ HeardTyped
<1>1. Init => Inv
  <2>1. Init => HeardTyped
    BY EmptySeq DEF Init, HeardTyped
  <2> QED  BY <2>1, InitSInv, InitOwned, InitLines DEF OwnedInv
<1>2. Inv /\ [Next]_vars => Inv'
  <2>1. ~ EpollCtlMayFail => ~ register_fails
    BY DEF register_fails
  <2> QED  BY <2>1, NextSInv, NextOwned, NextLines, NextHeard DEF OwnedInv
<1> QED  BY <1>1, <1>2, PTL DEF Spec

\* What is sent to the others of a client is what it typed after its name, in order and in
\* whole lines, however the bytes arrive and however long the lines are; the rest waits in
\* the client's buffer.  (A handler whose second read also returns bytes stores them over
\* those of the first: nothing is said about such a client.)
THEOREM LinesAreSentWhole == Spec => [](~ EpollCtlMayFail => LinesIntact)
<1>1. SInv /\ Owned /\ LinesInv => LinesIntact
  <2> SUFFICES ASSUME SInv, Owned, LinesInv PROVE LinesIntact
    OBVIOUS
  <2>1. ASSUME NEW c \in Sessions, mem[c].name_ok, ~ raced[who[c]]
        PROVE  typed[who[c]] = said[who[c]] \o SubSeq(mem[c].buf, 1, mem[c].buf_used)
    <3>1. who[c] \in Conn /\ reg[who[c]] = c /\ c # nil
      BY PointerOfSession
    <3> QED  BY <2>1, <3>1 DEF LinesInv, Intact
  <2> QED  BY <2>1 DEF LinesInv, Intact, LinesIntact
<1> QED  BY <1>1, LinesInvariant, PTL

-----------------------------------------------------------------------------
(***************************************************************************)
(* The chat room.  Every step of the server is one event of ChatRoom, or   *)
(* one that nobody sees.  Who is inside is told by the registrations.      *)
(***************************************************************************)

\* What the room sees of the sessions, told by the registrations.
RoomSeen ==
  /\ {who[c] : c \in Sessions} = Inside
  /\ NamedConns = Members
  /\ \A s \in Conn : SessionOf(s) # {} <=> s \in Inside

\* A session has one connection and a connection one session.
LEMMA SessionsSeen == SInv /\ Owned => RoomSeen
<1> SUFFICES ASSUME SInv, Owned PROVE RoomSeen
  OBVIOUS
<1>1. \A c \in Sessions : who[c] \in Inside
  BY PointerOfSession DEF Inside
<1>2. \A s \in Inside : reg[s] \in Sessions /\ who[reg[s]] = s
  BY SessionOfPointer DEF Inside
<1>3. {who[c] : c \in Sessions} = Inside
  BY <1>1, <1>2
<1>4. \A s \in Conn : SessionOf(s) # {} <=> s \in Inside
  BY <1>1, <1>2 DEF SessionOf, Inside
<1> QED  BY <1>3, <1>4, NamedAreMembers DEF RoomSeen

\* Who misses something now is among those who are spoken to.
LEMMA SeenMissing ==
  ASSUME NEW S, missed \subseteq missed', missed' \subseteq missed \cup S
  PROVE  Room!MayMiss(S)
<1>1. missed' \ missed \in SUBSET S /\ missed' = missed \cup (missed' \ missed)
  OBVIOUS
<1> QED  BY <1>1 DEF Room!MayMiss

\* server_handle has set up a client: somebody comes.
LEMMA SeenComing ==
  ASSUME RoomSeen, RoomSeen', NEW s \in Conn, s \notin Inside, stage[s] # "closed",
         Inside' = Inside \cup {s}, Members' = Members, told[s] = {},
         missed \subseteq missed', missed' \subseteq missed \cup {s},
         UNCHANGED <<told, said, heard, stage>>
  PROVE  Room!Come(s)
BY SeenMissing DEF RoomSeen, Room!Come

\* session_name_read has told the others.
LEMMA SeenEntering ==
  ASSUME RoomSeen, RoomSeen', NEW s \in Inside, s \notin Members,
         Inside' = Inside, Members' = Members \cup {s},
         missed \subseteq missed', missed' \subseteq missed \cup Inside,
         told \in [Conn -> SUBSET Conn], told' \in [Conn -> SUBSET Conn],
         NEW lost \in SUBSET (Inside \cap missed'),
         \A t \in Conn :
           told'[t] = IF t \in Inside \ (lost \cup {s}) THEN told[t] \cup {s} ELSE told[t],
         UNCHANGED <<said, heard, stage>>
  PROVE  Room!Enter(s)
<1> DEFINE inside == {who[c] : c \in Sessions}
           known == [t \in Conn |-> IF SessionOf(t) # {} THEN told[t] ELSE {}]
<1>1. Room!MayMiss(inside)
  BY SeenMissing DEF RoomSeen
<1>2. inside = Inside /\ inside' = Inside /\ lost \in SUBSET (inside \cap missed')
  BY DEF RoomSeen
<1>3. known' = [t \in Conn |-> IF t \in inside \ (lost \cup {s}) THEN known[t] \cup {s}
                              ELSE IF t = s /\ s \notin inside' THEN {} ELSE known[t]]
  BY <1>2 DEF RoomSeen, Inside
<1>4. Room!Tell(s, LAMBDA k : k \cup {s})
  BY <1>2, <1>3 DEF Room!Tell, Room!Reached
<1>5. /\ s \in inside \ NamedConns /\ NamedConns' = NamedConns \cup {s} /\ inside' = inside
      /\ UNCHANGED <<said, heard>>
      /\ {t \in Conn : stage[t] = "closed"}' = {t \in Conn : stage[t] = "closed"}
  BY <1>2 DEF RoomSeen
<1> QED  BY <1>1, <1>4, <1>5 DEF Room!Enter

\* A connection is closed without a session: somebody is turned away.
LEMMA SeenTurnedAway ==
  ASSUME RoomSeen, RoomSeen', NEW s \in Conn, s \notin Inside, stage[s] # "closed",
         Inside' = Inside, Members' = Members, UNCHANGED <<told, said, heard>>,
         missed \subseteq missed', missed' \subseteq missed \cup {s},
         \A t \in Conn : stage'[t] = "closed" <=> t = s \/ stage[t] = "closed"
  PROVE  Room!TurnAway(s)
BY SeenMissing DEF RoomSeen, Room!TurnAway

\* What s says in a step of the server reaches everybody inside but s and who misses it.
Spoken(s, line) ==
  /\ said' = [said EXCEPT ![s] = @ \o line]
  /\ \E lost \in SUBSET (Inside \cap missed') :
       heard' = [t \in Conn |-> IF t \in Inside \ (lost \cup {s})
                               THEN [heard[t] EXCEPT ![s] = @ \o line] ELSE heard[t]]
SpokenBy(s) == \E n \in 1 .. max_line_len : \E line \in [1 .. n -> Byte] : Spoken(s, line)

LEMMA SeenSpeaking ==
  ASSUME RoomSeen, NEW s, SpokenBy(s)
  PROVE  \E line \in UNION {[1 .. k -> Byte] : k \in 1 .. max_line_len} : Room!Speak(s, line)
<1> DEFINE Words == UNION {[1 .. k -> Byte] : k \in 1 .. max_line_len}
<1>1. PICK n \in 1 .. max_line_len : \E line \in [1 .. n -> Byte] : Spoken(s, line)
  BY DEF SpokenBy
<1>2. PICK text \in [1 .. n -> Byte] : Spoken(s, text)
  BY <1>1
<1>3. Room!Speak(s, text)
  <2> DEFINE inside == {who[c] : c \in Sessions}
  <2>1. inside = Inside
    BY DEF RoomSeen
  <2>2. PICK lost \in SUBSET (Inside \cap missed') :
          heard' = [t \in Conn |-> IF t \in Inside \ (lost \cup {s})
                                  THEN [heard[t] EXCEPT ![s] = @ \o text] ELSE heard[t]]
    BY <1>2 DEF Spoken
  <2>3. /\ lost \in SUBSET (inside \cap missed')
        /\ heard' = [t \in Conn |-> IF t \in inside \ (lost \cup {s})
                                   THEN [heard[t] EXCEPT ![s] = @ \o text] ELSE heard[t]]
    BY <2>1, <2>2
  <2>4. said' = [said EXCEPT ![s] = @ \o text]
    BY <1>2 DEF Spoken
  <2> QED  BY <2>3, <2>4 DEF Room!Speak, Room!Reached
<1>4. text \in Words
  OBVIOUS
<1> HIDE DEF Words
<1>5. \E line \in Words : Room!Speak(s, line)
  BY <1>3, <1>4
<1> QED  BY <1>5 DEF Words

\* session_close has told the others: somebody leaves, with last words or without.
LEMMA SeenLeaving ==
  ASSUME RoomSeen, RoomSeen', NEW s \in Inside,
         Inside' = Inside \ {s}, Members' = Members \ {s},
         missed \subseteq missed',
         missed' \subseteq missed \cup (IF s \in Members THEN Inside ELSE {s}),
         told' \in [Conn -> SUBSET Conn],
         \E lost \in SUBSET (Inside \cap missed') : \A t \in Inside \ {s} :
           told'[t] = IF s \in Members /\ t \notin lost THEN told[t] \ {s} ELSE told[t],
         \A t \in Conn : stage'[t] = "closed" <=> t = s \/ stage[t] = "closed",
         UNCHANGED <<said, heard>> \/ (s \in Members /\ SpokenBy(s))
  PROVE  Room!Leave(s)
<1>0. PICK lost \in SUBSET (Inside \cap missed') : \A t \in Inside \ {s} :
        told'[t] = IF s \in Members /\ t \notin lost THEN told[t] \ {s} ELSE told[t]
  OBVIOUS
<1>1. Room!MayMiss(IF s \in NamedConns THEN {who[c] : c \in Sessions} ELSE {s})
  BY SeenMissing DEF RoomSeen
<1>2. \/ UNCHANGED <<said, heard>>
      \/ s \in NamedConns /\ \E line \in UNION {[1 .. n -> Byte] : n \in 1 .. max_line_len} :
                                 Room!Speak(s, line)
  BY SeenSpeaking DEF RoomSeen
<1> DEFINE inside == {who[c] : c \in Sessions}
           hears == [t \in Conn |-> IF SessionOf(t) # {} THEN told[t] ELSE {}]
           Told(k) == IF s \in NamedConns THEN k \ {s} ELSE k
<1>6. inside = Inside /\ inside' = Inside \ {s} /\ lost \in SUBSET (inside \cap missed')
  BY <1>0 DEF RoomSeen
<1>7. hears' = [t \in Conn |-> IF t \in inside \ (lost \cup {s}) THEN Told(hears[t])
                              ELSE IF t = s /\ s \notin inside' THEN {} ELSE hears[t]]
  <2> SUFFICES ASSUME NEW t \in Conn
               PROVE  hears'[t] = IF t \in inside \ (lost \cup {s}) THEN Told(hears[t])
                                  ELSE IF t = s /\ s \notin inside' THEN {} ELSE hears[t]
    OBVIOUS
  <2>1. CASE t \in Inside \ {s}
    BY <1>0, <1>6, <2>1 DEF RoomSeen
  <2>2. CASE t \notin Inside \ {s}
    BY <1>6, <2>2 DEF RoomSeen
  <2> QED  BY <2>1, <2>2
<1>3. Room!Tell(s, LAMBDA known : IF s \in NamedConns THEN known \ {s} ELSE known)
  BY <1>6, <1>7 DEF Room!Tell, Room!Reached
<1>4. /\ s \in {who[c] : c \in Sessions}
      /\ {who[c] : c \in Sessions}' = {who[c] : c \in Sessions} \ {s}
      /\ NamedConns' = NamedConns \ {s}
  BY DEF RoomSeen
<1>5. {t \in Conn : stage[t] = "closed"}' = {t \in Conn : stage[t] = "closed"} \cup {s}
  BY DEF Inside
<1>8. /\ \/ UNCHANGED <<said, heard>>
         \/ s \in NamedConns /\ \E line \in UNION {[1 .. n -> Byte] : n \in 1 .. max_line_len} :
                                   Room!Speak(s, line)
      /\ Room!Tell(s, LAMBDA known : IF s \in NamedConns THEN known \ {s} ELSE known)
  BY <1>2, <1>3
<1>9. /\ Room!MayMiss(IF s \in NamedConns THEN {who[c] : c \in Sessions} ELSE {s})
      /\ s \in {who[c] : c \in Sessions}
      /\ {who[c] : c \in Sessions}' = {who[c] : c \in Sessions} \ {s}
      /\ NamedConns' = NamedConns \ {s}
      /\ {t \in Conn : stage[t] = "closed"}' = {t \in Conn : stage[t] = "closed"} \cup {s}
  BY <1>1, <1>4, <1>5
<1> QED  BY <1>8, <1>9 DEF Room!Leave

\* check_line_and_send has sent a line: somebody speaks.
LEMMA SeenSaying ==
  ASSUME RoomSeen, RoomSeen', NEW s \in Members, SpokenBy(s),
         missed \subseteq missed', missed' \subseteq missed \cup (Inside \ {s}),
         Inside' = Inside, Members' = Members, UNCHANGED <<told, stage>>
  PROVE  \E words \in UNION {[1 .. k -> Byte] : k \in 1 .. max_line_len} : Room!Say(s, words)
<1>1. Room!MayMiss({who[c] : c \in Sessions} \ {s})
  BY SeenMissing DEF RoomSeen
<1>2. PICK words \in UNION {[1 .. k -> Byte] : k \in 1 .. max_line_len} : Room!Speak(s, words)
  BY SeenSpeaking
<1> QED  BY <1>1, <1>2 DEF RoomSeen, Room!Say

\* What nobody sees.
Unseen ==
  /\ Inside' = Inside /\ Members' = Members
  /\ UNCHANGED <<told, said, heard, missed>>
  /\ \A s \in Conn : (stage'[s] = "closed") = (stage[s] = "closed")
LEMMA UnseenSame == ASSUME RoomSeen, RoomSeen', Unseen PROVE Room!Quiet
BY DEF RoomSeen, Unseen, Room!Quiet

-----------------------------------------------------------------------------
(***************************************************************************)
(* Step by step.                                                           *)
(***************************************************************************)

\* register: the connection accepted last comes.
LEMMA ComesStep ==
  ASSUME SInv, Owned, RoomInv, RoomSeen, RoomSeen', register
  PROVE  \E s \in Conn : Room!Come(s)
<1> DEFINE s == fdt[sock]
<1>1. /\ pc = "epoll_ctl" /\ Register(s, cur) /\ UNCHANGED <<stage, told, said, heard>>
      /\ MakeWrites([t \in Conn |-> IF t = s THEN 1 ELSE 0])
  BY DEF register
<1>2. /\ cur \in LiveChunks /\ s \in Conn /\ reg[s] = nil /\ stage[s] = "open"
  BY <1>1 DEF SInv, HandlerAccepts, KernelInv, FilesOpen
<1>3. cur # nil /\ reg \in [File -> Chunk \cup {nil, serv}]
  BY <1>2, LiveMapped, ServerAssumption DEF SInv, LiveInMapped, KernelInv, KernelTypes
<1> HIDE DEF s
<1>4. Inside' = Inside \cup {s}
  BY <1>1, <1>2, <1>3 DEF Inside, Register, File
<1>5. told[s] = {}
  BY <1>2 DEF RoomInv, Accounted
<1>6. Members' = Members
  BY RoomRegister
<1>7. s \notin Inside
  BY <1>2 DEF Inside
<1>8. missed \subseteq missed' /\ missed' \subseteq missed \cup {s}
  BY <1>1, WritesMiss
<1> QED  BY <1>1, <1>2, <1>4, <1>5, <1>6, <1>7, <1>8, SeenComing

\* The writes of a handler are missed by nobody but those who have a session, the client's
\* own alone if nothing is sent to the others, and not by it if nothing is sent to it.
LEMMA MissedInside ==
  ASSUME SInv, Owned, pc \in {"name_read", "line_read"}, NEW own, NEW all \in Nat,
         MakeWrites(Writes(cur, own, all))
  PROVE  /\ missed \subseteq missed' /\ missed' \subseteq missed \cup Inside
         /\ all = 0 => missed' \subseteq missed \cup {who[cur]}
         /\ own = 0 => missed' \subseteq missed \cup (Inside \ {who[cur]})
<1> DEFINE W == {s \in Conn : Writes(cur, own, all)[s] > 0}
<1>1. missed \subseteq missed' /\ missed' \subseteq missed \cup W
  BY WritesMiss
<1>2. \A s \in W : s \in Inside /\ (all = 0 => s = who[cur]) /\ (own = 0 => s # who[cur])
  BY WritesReach
<1> HIDE DEF W
<1> QED  BY <1>1, <1>2

\* Who a message to the others is lost on has a session and has missed something.
LEMMA LostInside ==
  ASSUME SInv, Owned, pc \in {"name_read", "line_read"}, NEW lost \in MayLose(cur)
  PROVE  lost \in SUBSET (Inside \cap missed')
<1>1. Receivers(cur) \subseteq Conn
  BY DEF Receivers, SocketsOf
<1> QED  BY <1>1, OthersHear DEF MayLose, Inside

\* name_read_done: the client of the handler enters the chat, or its name is not complete.
LEMMA EntersStep ==
  ASSUME SInv, Owned, RoomInv, RoomInv', RoomSeen, RoomSeen', name_read_done
  PROVE  (\E s \in Conn : Room!Enter(s)) \/ Room!Quiet
<1>1. pc = "name_read" /\ UNCHANGED <<reg, stage, said, heard>>
  BY DEF name_read_done, NameRead
<1>2. Inside' = Inside
  BY <1>1 DEF Inside
<1>3. CASE Members' = Members /\ UNCHANGED <<mem, arrived, told, missed>>
  <2>1. Unseen
    BY <1>1, <1>2, <1>3 DEF Unseen
  <2> QED  BY <2>1, UnseenSame
<1>4. CASE /\ Members' = Members \cup {who[cur]} /\ who[cur] \notin Members
           /\ TellArrival(cur) /\ MakeWrites(Writes(cur, 1, 1))
  <2>1. PICK s : s = who[cur]
    OBVIOUS
  <2>2. s \in Inside /\ s \in Conn
    BY <1>1, <2>1, Reader, PointerOfSession DEF Inside
  <2>3. told \in [Conn -> SUBSET Conn] /\ told' \in [Conn -> SUBSET Conn]
    BY DEF RoomInv
  <2>4. PICK lost \in MayLose(cur) :
          told' = [t \in Conn |-> IF t \in Receivers(cur) \ lost THEN told[t] \cup {s}
                                 ELSE told[t]]
    BY <1>4, <2>1 DEF TellArrival
  <2>5. lost \in SUBSET (Inside \cap missed')
    BY <1>1, LostInside
  <2>6. \A t \in Conn :
          told'[t] = IF t \in Inside \ (lost \cup {s}) THEN told[t] \cup {s} ELSE told[t]
    BY <1>1, <2>1, <2>4, OthersHear DEF Inside
  <2>7. missed \subseteq missed' /\ missed' \subseteq missed \cup Inside
    BY <1>1, <1>4, MissedInside
  <2>8. Room!Enter(s)
    BY <1>1, <1>2, <1>4, <2>1, <2>2, <2>3, <2>5, <2>6, <2>7, SeenEntering
  <2> QED  BY <2>2, <2>8
<1> QED  BY <1>3, <1>4, RoomNames

\* A line that check_line_and_send sends is not empty and fits the buffer, and all others
\* inside hear it but those who have missed something.
LEMMA LineSaid ==
  ASSUME SInv, Owned, LinesInv, HeardTyped, pc = "line_read", RecordLine
  PROVE  /\ who[cur] \in Members
         /\ \/ LinesSent(mem[cur]) = 0 /\ UNCHANGED <<said, heard>>
            \/ LinesSent(mem[cur]) = 1 /\ SpokenBy(who[cur])
<1> DEFINE s == who[cur]
           m == mem[cur]
           k == m.buf_used - LineSent(m).buf_used
           line == SubSeq(m.buf, 1, k)
<1>1. cur \in Sessions /\ m \in Client /\ Filled(m) /\ m.name_ok
  BY Reader DEF SInv, ThreadInv, HandlerReads
<1>2. s \in Conn /\ s \in Members
  BY <1>1, PointerOfSession DEF Members
<1>3. /\ said' = [said EXCEPT ![s] = @ \o line]
      /\ said \in [Conn -> Seq(Byte)]
  BY DEF RecordLine, LinesInv, LinesTyped
<1>4. PICK lost \in MayLose(cur) :
        heard' = [t \in Conn |-> IF t \in Receivers(cur) \ lost
                                THEN [heard[t] EXCEPT ![s] = @ \o line] ELSE heard[t]]
  BY DEF RecordLine
<1>5. /\ m.buf \in [1 .. max_line_len -> Byte] /\ m.buf_used \in 0 .. max_line_len
      /\ max_line_len \in Nat
  BY <1>1, ServerAssumption DEF Filled, Client
<1>6. CASE LinePos(m) = {}
  <2>1. k = 0 /\ LinesSent(m) = 0
    BY <1>5, <1>6 DEF LineSent, LinesSent
  <2> HIDE DEF s, m, k
  <2>2. line \in Seq(Byte) /\ Len(line) = 0
    BY <1>5, <2>1, FirstBytes
  <2>3. line = <<>>
    BY <2>2, EmptySeq
  <2> HIDE DEF line
  <2>4. UNCHANGED said
    <3>1. said[s] \o line = said[s]
      BY <1>2, <1>3, <2>3, ConcatEmptySeq
    <3> QED  BY <1>3, <3>1
  <2>5. UNCHANGED heard
    <3>1. ASSUME NEW t \in Conn PROVE [heard[t] EXCEPT ![s] = @ \o line] = heard[t]
      <4>1. heard[t] \in [Conn -> Seq(Byte)]
        BY DEF HeardTyped
      <4>2. heard[t][s] \o line = heard[t][s]
        BY <1>2, <2>3, <4>1, ConcatEmptySeq
      <4> QED  BY <4>1, <4>2
    <3> QED  BY <1>4, <3>1 DEF HeardTyped
  <2> QED  BY <1>2, <2>1, <2>4, <2>5 DEF s, m
<1>7. CASE LinePos(m) # {}
  <2> DEFINE i == CHOOSE i \in LinePos(m) : TRUE
  <2>1. i \in 1 .. m.buf_used
    BY <1>7 DEF LinePos
  <2>2. LineSent(m).buf_used = m.buf_used - i /\ LinesSent(m) = 1
    BY <1>1, <1>7 DEF LineSent, LinesSent, Client
  <2> HIDE DEF i
  <2>3. k \in 1 .. max_line_len
    BY <1>5, <2>1, <2>2
  <2>4. lost \in SUBSET (Inside \cap missed')
    BY LostInside
  <2>5. \A t \in Conn : t \in Receivers(cur) \ lost <=> t \in Inside \ (lost \cup {s})
    BY OthersHear DEF Inside
  <2> HIDE DEF s, m, k
  <2>6. line \in Seq(Byte) /\ Len(line) = k
    BY <1>5, <2>3, FirstBytes
  <2>7. line \in [1 .. k -> Byte]
    BY <2>6, LenProperties, ElementOfSeq
  <2> HIDE DEF line
  <2>8. heard' = [t \in Conn |-> IF t \in Inside \ (lost \cup {s})
                                THEN [heard[t] EXCEPT ![s] = @ \o line] ELSE heard[t]]
    BY <1>4, <2>5
  <2>9. Spoken(s, line)
    BY <1>3, <2>4, <2>8 DEF Spoken
  <2>10. SpokenBy(s)
    BY <2>3, <2>7, <2>9 DEF SpokenBy
  <2> QED  BY <1>2, <2>2, <2>10 DEF s, m
<1> QED  BY <1>6, <1>7

\* line_read_done: the client of the handler speaks, or its line is not complete.
LEMMA SaysStep ==
  ASSUME SInv, Owned, RoomInv, LinesInv, HeardTyped, RoomSeen, RoomSeen', line_read_done
  PROVE  \/ \E s \in Conn :
              \E words \in UNION {[1 .. k -> Byte] : k \in 1 .. max_line_len} :
                Room!Say(s, words)
         \/ Room!Quiet
<1>1. /\ pc = "line_read" /\ RecordLine /\ UNCHANGED <<reg, stage, told>>
      /\ MakeWrites(Writes(cur, 0, LinesSent(mem[cur])))
  BY DEF line_read_done, LineRead
<1>2. Inside' = Inside /\ Members' = Members
  BY <1>1, RoomReads DEF Inside
<1>3. PICK s : s = who[cur]
  OBVIOUS
<1>4. LinesSent(mem[cur]) \in Nat
  BY DEF LinesSent
<1>5. /\ missed \subseteq missed' /\ missed' \subseteq missed \cup (Inside \ {s})
      /\ LinesSent(mem[cur]) = 0 => missed' \subseteq missed \cup {s}
  BY <1>1, <1>3, <1>4, MissedInside
<1>6. CASE LinesSent(mem[cur]) = 0 /\ UNCHANGED <<said, heard>>
  <2>1. UNCHANGED missed
    BY <1>5, <1>6
  <2>2. Unseen
    BY <1>1, <1>2, <1>6, <2>1 DEF Unseen
  <2> QED  BY <2>2, UnseenSame
<1>7. CASE SpokenBy(s)
  <2>1. s \in Members
    BY <1>1, <1>3, LineSaid
  <2>2. \E words \in UNION {[1 .. k -> Byte] : k \in 1 .. max_line_len} : Room!Say(s, words)
    BY <1>1, <1>2, <1>5, <1>7, <2>1, SeenSaying
  <2> QED  BY <2>1, <2>2 DEF Members
<1> QED  BY <1>1, <1>3, <1>6, <1>7, LineSaid

\* The handlers that close their client: it leaves.
LEMMA LeavesStep ==
  ASSUME SInv, Owned, RoomInv, RoomInv', LinesInv, HeardTyped, RoomSeen, RoomSeen',
         \/ name_read_too_long \/ name_read_closes
         \/ line_read_too_long \/ line_read_eof \/ line_read_error
  PROVE  \E s \in Conn : Room!Leave(s)
<1>1. PICK m \in Client :
        \E own, all \in Nat :
          /\ Closing(cur, m, own, all) /\ (~ m.name_ok => all = 0)
          /\ m.fd = mem[cur].fd /\ m.name_ok = mem[cur].name_ok
  BY ClosesOne
<1>2. PICK own \in Nat, all \in Nat :
        /\ Closing(cur, m, own, all) /\ (~ m.name_ok => all = 0)
        /\ m.fd = mem[cur].fd /\ m.name_ok = mem[cur].name_ok
  BY <1>1
<1>3. PICK s : s = who[cur]
  OBVIOUS
<1>4. /\ pc \in {"name_read", "line_read"}
      /\ s \in Conn /\ s \in Inside /\ FileOf(m.fd) = s
      /\ s \in Members <=> mem[cur].name_ok
  BY <1>2, <1>3, ClosesOne, Reader, PointerOfSession DEF Inside, Members
<1>5. Members' = Members \ {s}
  BY <1>3, RoomCloses
<1>6. /\ reg' = [f \in File |-> IF f = s THEN nil ELSE reg[f]]
      /\ stage' = [t \in Conn |-> IF t = s THEN "closed" ELSE stage[t]]
  BY <1>2, <1>4 DEF Closing, CloseClient, CloseFd
<1>7. Inside' = Inside \ {s}
  BY <1>4, <1>6 DEF Inside, File
<1>8. \A t \in Conn : stage'[t] = "closed" <=> t = s \/ stage[t] = "closed"
  BY <1>6
<1>9. /\ missed \subseteq missed'
      /\ missed' \subseteq missed \cup (IF s \in Members THEN Inside ELSE {s})
  <2> DEFINE total == all + IF Announced(m) THEN 1 ELSE 0
  <2>1. total \in Nat /\ (~ m.name_ok => total = 0) /\ MakeWrites(Writes(cur, own, total))
    BY <1>2 DEF Closing, Announced
  <2> HIDE DEF total
  <2> QED  BY <1>2, <1>3, <1>4, <2>1, MissedInside
<1>10. \E lost \in SUBSET (Inside \cap missed') : \A t \in Inside \ {s} :
         told'[t] = IF s \in Members /\ t \notin lost THEN told[t] \ {s} ELSE told[t]
  <2>1. CASE mem[cur].name_ok
    <3>1. PICK lost \in MayLose(cur) :
            told' = [t \in Conn |-> IF t \in Receivers(cur) \ lost THEN told[t] \ {s}
                                   ELSE told[t]]
      BY <1>2, <1>3, <2>1 DEF Closing, Announced, TellDeparture
    <3>2. lost \in SUBSET (Inside \cap missed')
      BY <1>4, LostInside
    <3>3. \A t \in Inside \ {s} : t \in Conn /\ t \in Receivers(cur)
      BY <1>3, <1>4, OthersHear DEF Inside
    <3> QED  BY <1>4, <2>1, <3>1, <3>2, <3>3
  <2>2. CASE ~ mem[cur].name_ok
    BY <1>2, <1>4, <2>2 DEF Closing, Announced
  <2> QED  BY <2>1, <2>2
<1>11. UNCHANGED <<said, heard>> \/ (s \in Members /\ SpokenBy(s))
  <2>1. CASE line_read_eof
    <3>1. pc = "line_read" /\ RecordLine
      BY <2>1 DEF line_read_eof, LineRead
    <3> QED  BY <1>3, <3>1, LineSaid
  <2>2. CASE ~ line_read_eof
    BY <2>2 DEF name_read_too_long, name_read_closes, line_read_too_long, line_read_error
  <2> QED  BY <2>1, <2>2
<1>12. told' \in [Conn -> SUBSET Conn]
  BY DEF RoomInv
<1> QED  BY <1>4, <1>5, <1>7, <1>8, <1>9, <1>10, <1>11, <1>12, SeenLeaving

\* accept_rejects: the connection at the head of the queue is turned away.
LEMMA TurnsAwayStep ==
  ASSUME SInv, Owned, RoomInv, RoomSeen, RoomSeen', accept_rejects
  PROVE  \E s \in Conn : Room!TurnAway(s)
<1> DEFINE s == Head(queue)
<1>1. s \in Conn /\ stage[s] = "queued" /\ reg[s] = nil
  BY FirstQueued DEF accept_rejects
<1>2. /\ UNCHANGED <<reg, told, said, heard>> /\ stage' = [stage EXCEPT ![s] = "closed"]
      /\ MakeWrites([t \in Conn |-> IF t = s THEN 1 ELSE 0])
  BY DEF accept_rejects
<1> HIDE DEF s
<1>3. \A t \in Conn : stage'[t] = "closed" <=> t = s \/ stage[t] = "closed"
  BY <1>1, <1>2 DEF SInv, KernelInv, KernelTypes
<1>4. Inside' = Inside /\ Members' = Members /\ s \notin Inside
  BY <1>1, <1>2, RoomRejects DEF Inside
<1>5. missed \subseteq missed' /\ missed' \subseteq missed \cup {s}
  BY <1>2, WritesMiss
<1> QED  BY <1>1, <1>2, <1>3, <1>4, <1>5, SeenTurnedAway

\* What the room does not see: the start, waiting, accepting, reading on, and the peers.
LEMMA UnseenStep ==
  ASSUME SInv, Owned, RoomInv,
         \/ server_init \/ create_epoll \/ register_listener \/ epoll_wait \/ PeerNext
         \/ accept_drained \/ accept_nomem \/ interrupted \/ accept_fails \/ UNCHANGED vars
         \/ accept_client \/ name_read_more \/ line_read_more
  PROVE  Unseen
<1>1. CASE name_read_more \/ line_read_more
  <2>1. UNCHANGED <<reg, stage, told, said, heard, missed>>
    BY <1>1 DEF name_read_more, line_read_more, histVars
  <2> QED  BY <1>1, <2>1, RoomReads DEF Unseen, Inside
<1>2. CASE accept_client
  <2> DEFINE s == Head(queue)
  <2>1. /\ stage' = [stage EXCEPT ![s] = "open"]
        /\ UNCHANGED <<reg, told, said, heard, missed>>
        /\ s \in Conn /\ stage[s] = "queued"
    BY <1>2, FirstQueued DEF accept_client, histVars
  <2> HIDE DEF s
  <2>2. \A t \in Conn : (stage'[t] = "closed") = (stage[t] = "closed")
    BY <2>1 DEF SInv, KernelInv, KernelTypes
  <2> QED  BY <1>2, <2>1, <2>2, RoomAccept DEF Unseen, Inside
<1>3. CASE ~ (name_read_more \/ line_read_more \/ accept_client)
  <2>1. UNCHANGED <<told, said, heard, missed>>
    BY <1>3 DEF server_init, create_epoll, register_listener, StartStep, epoll_wait, PeerNext,
       accept_drained, accept_nomem, interrupted, accept_fails, vars, histVars
  <2>2. \A s \in Conn : reg'[s] = reg[s] /\ (stage'[s] = "closed") = (stage[s] = "closed")
    BY <1>3, ElsewhereSame
  <2>3. Members' = Members
    BY <1>3, RoomElsewhere
  <2> QED  BY <2>1, <2>2, <2>3 DEF Unseen, Inside
<1> QED  BY <1>1, <1>2, <1>3

\* Nobody is there when the server starts.
LEMMA InitSeen == Init /\ RoomSeen => Room!Init
<1> SUFFICES ASSUME Init, RoomSeen PROVE Room!Init
  OBVIOUS
<1>1. Inside = {} /\ Members = {} /\ {s \in Conn : stage[s] = "closed"} = {}
  BY DEF Init, SocketsInit, Inside, Members, File
<1>2. Running = TRUE
  BY DEF Init, PoolsInit, Running
<1>3. [s \in Conn |-> IF SessionOf(s) # {} THEN told[s] ELSE {}] = [s \in Conn |-> {}]
  BY DEF Init
<1>4. /\ said = [s \in Conn |-> <<>>] /\ missed = {}
      /\ heard = [t \in Conn |-> [s \in Conn |-> <<>>]]
  BY DEF Init
<1> QED  BY <1>1, <1>2, <1>3, <1>4 DEF RoomSeen, Room!Init

\* Every step of the server or of a peer is one event of the room or none, the step that
\* ends the process included.
LEMMA NextSeen ==
  ASSUME SInv, SInv', Owned, RoomInv, RoomInv', LinesInv, HeardTyped, RoomSeen, RoomSeen',
         ~ EpollCtlMayFail, [Next]_vars
  PROVE  [Room!Next]_(Room!vars)
<1>1. CASE UNCHANGED vars
  <2>1. UNCHANGED <<exited, killed>> /\ Room!Quiet
    BY <1>1, UnseenStep, UnseenSame DEF vars, poolVars, procVars
  <2> QED  BY <2>1 DEF Running, Room!Quiet, Room!vars
<1>2. ASSUME Next PROVE Room!Next
  <2>1. \/ \E s \in Conn :
             \/ Room!Come(s) \/ Room!Enter(s) \/ Room!Leave(s) \/ Room!TurnAway(s)
             \/ \E words \in UNION {[1 .. k -> Byte] : k \in 1 .. max_line_len} :
                  Room!Say(s, words)
        \/ Room!Quiet
    <3>1. CASE register
      BY <3>1, ComesStep
    <3>2. CASE accept_rejects
      BY <3>2, TurnsAwayStep
    <3>3. CASE name_read_done
      BY <3>3, EntersStep
    <3>4. CASE line_read_done
      BY <3>4, SaysStep
    <3>5. CASE \/ name_read_too_long \/ name_read_closes
               \/ line_read_too_long \/ line_read_eof \/ line_read_error
      BY <3>5, LeavesStep
    <3>6. CASE \/ server_init \/ create_epoll \/ register_listener \/ epoll_wait \/ PeerNext
               \/ accept_drained \/ accept_nomem \/ interrupted \/ accept_fails
               \/ accept_client \/ name_read_more \/ line_read_more
      BY <3>6, UnseenStep, UnseenSame
    <3>7. ~ register_fails
      BY DEF register_fails
    <3> QED  BY <1>2, <3>1, <3>2, <3>3, <3>4, <3>5, <3>6, <3>7 DEF Next, ServerNext
  <2>2. Running /\ Running' \in BOOLEAN
    <3>1. Running' \in BOOLEAN
      BY DEF Running
    <3>2. Running
      BY <1>2
      DEF Next, ServerNext, PeerNext, server_init, create_epoll, register_listener, StartStep,
        epoll_wait, interrupted, accept_fails, accept_drained, accept_client, accept_nomem,
        accept_rejects, register, register_fails, name_read_more, name_read_too_long,
        name_read_closes, name_read_done, line_read_more, line_read_too_long,
        line_read_done, line_read_eof, line_read_error, NameEnds, NameRead, LineRead
    <3> QED  BY <3>1, <3>2
  <2> QED  BY <2>1, <2>2 DEF Room!Next
<1> QED  BY <1>1, <1>2

\* Seen from outside the server is a chat room: people come in, enter the chat, speak and
\* leave, everybody inside hears of all others who enter and leave, and what they say,
\* unless a socket did not take a message, and nobody hears of anything else, whatever the
\* pools, the descriptors and the order of the events are.
THEOREM ServerIsChatRoom == ASSUME ~ EpollCtlMayFail PROVE Spec => RoomSpec
<1> DEFINE Inv == SInv /\ Owned /\ RoomInv /\ LinesInv /\ HeardTyped /\ RoomSeen
<1>1. /\ ~ EpollCtlMayFail => SInv /\ Owned /\ RoomInv
      /\ ~ EpollCtlMayFail => SInv /\ Owned /\ LinesInv /\ HeardTyped
      => Inv
  BY SessionsSeen
<1>2. Init /\ Inv => Room!Init
  BY InitSeen
<1>3. Inv /\ Inv' /\ [Next]_vars => [Room!Next]_(Room!vars)
  BY NextSeen
<1> QED
  BY <1>1, <1>2, <1>3, RoomInvariant, LinesInvariant, PTL DEF Spec, RoomSpec, Room!Spec

=============================================================================
