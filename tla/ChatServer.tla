----------------------------- MODULE ChatServer -----------------------------
(***************************************************************************)
(* The event loop of chat_server.c over the client pools and the sockets.  *)
(* The server is one thread.  One step is one blocking or reading system   *)
(* call (epoll_wait, accept4, epoll_ctl, read) with the code that follows  *)
(* it up to the next one, its writes and closes included; the peers act    *)
(* between any two steps.  The calls of the start are steps of their own   *)
(* from listen on.                                                         *)
(***************************************************************************)
EXTENDS ClientPools, Sockets

CONSTANTS
  max_events,      \* length of the array evt of server_go
  max_line_len,    \* size of client.buf
  max_name_len,    \* size of client.name
  EpollCtlMayFail  \* epoll_ctl may report an error (ENOMEM, ENOSPC)

ASSUME ServerAssumption ==
  /\ Chunk \cap {nil, serv} = {}
  /\ max_events \in Nat \ {0}
  /\ max_line_len \in Nat \ {0}
  /\ max_name_len \in Nat \ {0}
  /\ EpollCtlMayFail \in BOOLEAN

VARIABLES
  pc,      \* the call the thread makes next
  evt,     \* the events of the current batch that are not handled yet
  cur,     \* the client c of the running handler
  sock,    \* conn_sock of server_handle
  off,     \* bufn or bufp of the running handler
  mem,     \* mem[c]: the fields of the client in chunk c
  killed   \* TRUE once SIGPIPE ended the process, or sys_exit a failed start

\* What happened so far, as seen from outside; no code reads these.
VARIABLES
  who,     \* who[c]: the connection chunk c was last set up for
  arrived, \* arrived[s]: how often "s has entered the chat" was sent
  parted,  \* parted[s]: how often "s has left the chat" was sent
  told,    \* told[s]: who is in the chat, as far as s was told
  typed,   \* typed[s]: the bytes of s that read stored in client.buf
  said,    \* said[s]: the bytes of s that were sent to the others
  heard,   \* heard[t][s]: the bytes of s that reached t
  missed,  \* the connections on which some message was cut short or lost
  raced    \* raced[s]: two reads of one call of a handler returned bytes of s

procVars == <<pc, evt, cur, sock, off, mem, killed>>
histVars == <<who, arrived, parted, told, typed, said, heard, missed, raced>>
vars == <<poolVars, sockVars, procVars, histVars>>

Running == ~ exited /\ ~ killed

-----------------------------------------------------------------------------
(***************************************************************************)
(* The memory of a client.                                                 *)
(***************************************************************************)

\* Arenas come zeroed from mmap.
Zeroed == [fd |-> 0, buf_used |-> 0, name_used |-> 0, name_ok |-> FALSE,
           buf  |-> [i \in 1 .. max_line_len |-> "nul"],
           name |-> [i \in 1 .. max_name_len |-> "nul"]]

\* bytes stored in array a from position k + 1 on: what read does
Stored(a, k, bytes) ==
  [i \in DOMAIN a |->
     IF i - k \in DOMAIN bytes THEN bytes[i - k] ELSE a[i]]

\* memmove(buf, buf + k, n)
Moved(a, k, n) == [i \in DOMAIN a |-> IF i <= n THEN a[i + k] ELSE a[i]]

\* The first position of buf that holds a line feed, if one does.
LinePos(m) ==
  {i \in 1 .. m.buf_used :
     m.buf[i] = "nl" /\ \A j \in 1 .. i - 1 : m.buf[j] # "nl"}
NamePos(m) ==
  {i \in 1 .. m.name_used :
     m.name[i] \in {"nl", "cr"} /\ \A j \in 1 .. i - 1 : m.name[j] \notin {"nl", "cr"}}

-----------------------------------------------------------------------------
(***************************************************************************)
(* Writing.  A step is charged with the writes it makes on each socket:    *)
(* own on the socket of client c, and for each of all messages one on the  *)
(* socket of every other client, also of those without a name.             *)
(***************************************************************************)

Others_FirstPoolOnly(c) == ToSet(client[first_clp[1]]) \ {c}
Others(c) == LiveChunks \ {c}
SocketsOf(cs) == {FileOf(mem[d].fd) : d \in cs} \cap Conn

Writes(c, own, all) ==
  [s \in Conn |->
     (IF s = FileOf(mem[c].fd) THEN own ELSE 0)
     + all * Cardinality({d \in Others(c) : FileOf(mem[d].fd) = s})]

\* SIGPIPE ends the process.  What the step does after the fatal write does not
\* happen then; nothing is said about the state of a server that is not Running.
\* sys_write gets nil for err and nobody looks at its result: a message that does not
\* fit, as a whole or in part, is not written again.
MakeWrites(n) ==
  /\ err' = ErrAfterWrites(n)
  /\ killed' = WritesFatal(n)
  /\ \E full \in SUBSET MayNotFit(n) : missed' = missed \cup NotTaken(n) \cup full

\* One message to everybody but c.  Those who miss something may miss this one; a message
\* that is cut short may still be understood.
Receivers(c) == SocketsOf(Others(c))
MayLose(c) == SUBSET (Receivers(c) \cap missed')

\* Everybody but c is told that the holder of c came, or left.
TellArrival(c) ==
  /\ arrived' = [arrived EXCEPT ![who[c]] = @ + 1]
  /\ \E lost \in MayLose(c) :
       told' = [s \in Conn |-> IF s \in Receivers(c) \ lost
                              THEN told[s] \cup {who[c]} ELSE told[s]]
TellDeparture(c) ==
  /\ parted' = [parted EXCEPT ![who[c]] = @ + 1]
  /\ \E lost \in MayLose(c) :
       told' = [s \in Conn |-> IF s \in Receivers(c) \ lost
                              THEN told[s] \ {who[c]} ELSE told[s]]

-----------------------------------------------------------------------------
(***************************************************************************)
(* session_close.  m is the client's memory when it is called, own and all *)
(* are the writes the step has made before.                                *)
(***************************************************************************)

\* pool_put writes its link over fd and buf_used, which are set before they are
\* read again, and leaves the other fields as they are.
Linked(m) == [m EXCEPT !.fd = garbage, !.buf_used = 0]

\* A departure is announced if the client ever entered.
Announced_ByNameLength(m) == m.name_used > 0
Announced(m) == m.name_ok

CloseClient_LeftOpen(m) == UNCHANGED <<fdt, stage, reg, ready>>
CloseClient(m) == CloseFd(m.fd)

Closing(c, m, own, all) ==
  /\ MakeWrites(Writes(c, own, all + IF Announced(m) THEN 1 ELSE 0))
  /\ IF Announced(m) THEN TellDeparture(c) ELSE UNCHANGED <<parted, told>>
  /\ CloseClient(m)
  /\ session_close_chunk(c)
  /\ mem' = [d \in Chunk |-> IF region'[PoolOf(d)] # "mapped" THEN Zeroed
                             ELSE IF d = c THEN Linked(m) ELSE mem[d]]

-----------------------------------------------------------------------------
(***************************************************************************)
(* The start.  Each call may fail, which ends the process.  Peers may      *)
(* connect as soon as the socket listens.                                  *)
(***************************************************************************)

StartStep(here, next) ==
  /\ Running /\ pc = here
  /\ UNCHANGED <<poolVars, histVars, stage, fdt, queue, rx, sent, fin, err,
                 evt, cur, sock, off, mem>>
  /\ \/ pc' = next /\ UNCHANGED killed
     \/ killed' = TRUE /\ UNCHANGED <<pc, reg, ready>>

\* socket, setsockopt, bind and listen.
server_init == StartStep("listen", "epoll_create1") /\ UNCHANGED <<reg, ready>>

create_epoll == StartStep("epoll_create1", "epoll_add") /\ UNCHANGED <<reg, ready>>

\* The listening socket is registered with serv as its pointer.
register_listener ==
  /\ StartStep("epoll_add", "epoll_wait")
  /\ ~ killed' => Register(serv, serv)

\* EINTR: epoll_wait, accept4 or read is called again.
interrupted ==
  /\ Running /\ pc \in {"epoll_wait", "accept", "name_read", "line_read"}
  /\ UNCHANGED vars

-----------------------------------------------------------------------------
(***************************************************************************)
(* The loop of server_go.                                                  *)
(***************************************************************************)

\* The loop over the events of a batch: the handler of the next one starts, which
\* one depends on the client's memory at that moment; after the last event the
\* server waits again.
HandleNext(events) ==
  \/ /\ events = <<>>
     /\ pc' = "epoll_wait"
     /\ evt' = <<>> /\ cur' = nil /\ off' = 0
  \/ /\ events # <<>> /\ Head(events) = serv
     /\ pc' = "accept"
     /\ evt' = Tail(events) /\ cur' = nil /\ off' = 0
  \/ /\ events # <<>> /\ Head(events) # serv
     /\ evt' = Tail(events) /\ cur' = Head(events)
     /\ LET m == mem'[Head(events)]
        IN  \/ ~ m.name_ok /\ pc' = "name_read" /\ off' = m.name_used
            \/ m.name_ok   /\ pc' = "line_read" /\ off' = m.buf_used

\* A handler returns; reads on; calls accept4 again.
Return == HandleNext(evt)
ReadOn_Returns == Return
ReadOn == UNCHANGED <<pc, evt, cur, off>>
AcceptOn_Returns == sock' = garbage /\ Return
AcceptOn ==
  /\ pc' = "accept"
  /\ cur' = nil
  /\ sock' = garbage
  /\ UNCHANGED <<evt, off>>

epoll_wait ==
  /\ Running /\ pc = "epoll_wait"
  /\ UNCHANGED <<poolVars, histVars, stage, fdt, queue, rx, sent, fin, err, reg,
                 sock, mem, killed>>
  /\ \E k \in 1 .. Len(ready) :
       /\ TakenFor(k, max_events)
       /\ HandleNext([i \in DOMAIN Reported(k) |-> reg[Reported(k)[i]]])
       /\ ready' = SubSeq(ready, k + 1, Len(ready))

-----------------------------------------------------------------------------
(***************************************************************************)
(* server_handle.                                                          *)
(***************************************************************************)

\* EMFILE: the error is printed and accept4 called again.
accept_fails ==
  /\ Running /\ pc = "accept"
  /\ FreeFds = {}
  /\ UNCHANGED vars

accept_drained ==
  /\ Running /\ pc = "accept"
  /\ FreeFds # {} /\ queue = <<>>
  /\ UNCHANGED <<poolVars, sockVars, histVars, sock, mem, killed>>
  /\ Return

\* The first word of a chunk session_new returns is still the link of the free
\* list: nil behind the last free chunk, some address otherwise.  A new pool
\* is zeroed.
Recycled(c) ==
  LET p == PoolOf(c)
      m == IF region[p] = "mapped" THEN mem[c] ELSE Zeroed
  IN  [m EXCEPT !.fd = IF free'[p] = <<>> THEN 0 ELSE garbage]

accept_client ==
  /\ Running /\ pc = "accept"
  /\ FreeFds # {} /\ queue # <<>>
  /\ \E c \in Chunk :
       /\ session_new(c)
       /\ mem' = [mem EXCEPT ![c] = Recycled(c)]
       /\ cur' = c
  /\ sock' = LowestFreeFd
  /\ fdt' = [fdt EXCEPT ![LowestFreeFd] = Head(queue)]
  /\ stage' = [stage EXCEPT ![Head(queue)] = "open"]
  /\ queue' = Tail(queue)
  /\ pc' = "epoll_ctl"
  /\ UNCHANGED <<histVars, rx, sent, fin, err, reg, ready, evt, off, killed>>

accept_nomem ==
  /\ Running /\ pc = "accept"
  /\ FreeFds # {} /\ queue # <<>>
  /\ session_new_nomem
  /\ UNCHANGED <<sockVars, procVars, histVars>>

\* The client is told that the limit is reached; its descriptor is free again.
accept_rejects ==
  /\ Running /\ pc = "accept"
  /\ FreeFds # {} /\ queue # <<>>
  /\ session_new_nil
  /\ MakeWrites([s \in Conn |-> IF s = Head(queue) THEN 1 ELSE 0])
  /\ stage' = [stage EXCEPT ![Head(queue)] = "closed"]
  /\ queue' = Tail(queue)
  /\ UNCHANGED <<poolVars, fdt, rx, sent, fin, reg, ready, pc, evt, cur, sock, off,
                 mem, who, arrived, parted, told, typed, said, heard, raced>>

SetUp_NameOkKept(m) == [m EXCEPT !.fd = sock, !.buf_used = 0, !.name_used = 0]
SetUp(m) ==
  [m EXCEPT !.fd = sock, !.buf_used = 0, !.name_used = 0, !.name_ok = FALSE]

\* The client's fields are set after epoll_ctl, and the prompt is written.
register ==
  /\ Running /\ pc = "epoll_ctl"
  /\ LET s == fdt[sock]
     IN  /\ Register(s, cur)
         /\ MakeWrites([t \in Conn |-> IF t = s THEN 1 ELSE 0])
         /\ who' = [who EXCEPT ![cur] = s]
  /\ mem' = [mem EXCEPT ![cur] = SetUp(@)]
  /\ AcceptOn
  /\ UNCHANGED <<poolVars, stage, fdt, queue, rx, sent, fin,
                 arrived, parted, told, typed, said, heard, raced>>

\* epoll_ctl fails: session_close is called on a client whose fields are those of
\* the chunk's last use, and conn_sock stays open.
register_fails ==
  /\ Running /\ pc = "epoll_ctl"
  /\ EpollCtlMayFail
  /\ Closing(cur, mem[cur], 0, 0)
  /\ AcceptOn
  /\ UNCHANGED <<queue, rx, sent, fin, who, arrived, typed, said, heard, raced>>

-----------------------------------------------------------------------------
(***************************************************************************)
(* session_name_read: one step per read.  off is fixed when the handler    *)
(* starts, so a second read of the same call stores at the same place.     *)
(***************************************************************************)

NameRead(result) ==
  /\ Running /\ pc = "name_read"
  /\ ReadResult(mem[cur].fd, max_name_len - off) = result

\* The n bytes a read returns.
ReadBytes(count) ==
  LET s == FileOf(mem[cur].fd)
  IN  SubSeq(rx[s], 1, ReadLen(s, count))
Consume(count) ==
  LET s == FileOf(mem[cur].fd)
  IN  rx' = [rx EXCEPT ![s] = SubSeq(@, ReadLen(s, count) + 1, Len(@))]

NameStored(m) ==
  LET bytes == ReadBytes(max_name_len - off)
  IN  [m EXCEPT !.name = Stored(@, off, bytes), !.name_used = @ + Len(bytes)]

NameFits_Unchecked(m) == TRUE
NameFits(m) == m.name_used <= max_name_len

name_read_more ==
  /\ NameRead("data")
  /\ NameFits(NameStored(mem[cur]))
  /\ mem' = [mem EXCEPT ![cur] = NameStored(@)]
  /\ Consume(max_name_len - off)
  /\ UNCHANGED <<poolVars, histVars, stage, fdt, queue, sent, fin, err, reg, ready,
                 sock, killed>>
  /\ ReadOn

name_read_too_long ==
  /\ NameRead("data")
  /\ ~ NameFits(NameStored(mem[cur]))
  /\ Closing(cur, NameStored(mem[cur]), 1, 0)
  /\ Consume(max_name_len - off)
  /\ UNCHANGED <<queue, sent, fin, sock, who, arrived, typed, said, heard, raced>>
  /\ Return

NameEnds_IgnoresEof == NameRead("error")
NameEnds == NameRead("eof") \/ NameRead("error")

name_read_closes ==
  /\ NameEnds
  /\ Closing(cur, mem[cur], 0, 0)
  /\ UNCHANGED <<queue, rx, sent, fin, sock, who, arrived, typed, said, heard, raced>>
  /\ Return

\* The name is the text before the first line end; what follows it is dropped.
Named(m, i) ==
  [m EXCEPT !.name[i] = "nul", !.name_ok = TRUE, !.name_used = i - 1]

name_read_done ==
  /\ NameRead("again")
  /\ \/ /\ NamePos(mem[cur]) = {}
        /\ UNCHANGED <<mem, err, killed, arrived, told, missed>>
     \/ \E i \in NamePos(mem[cur]) :
          /\ mem' = [mem EXCEPT ![cur] = Named(@, i)]
          /\ MakeWrites(Writes(cur, 1, 1))
          /\ TellArrival(cur)
  /\ UNCHANGED <<poolVars, stage, fdt, queue, rx, sent, fin, reg, ready, sock,
                 who, parted, typed, said, heard, raced>>
  /\ Return

-----------------------------------------------------------------------------
(***************************************************************************)
(* session_line_read and check_line_and_send.                              *)
(***************************************************************************)

LineRead(result) ==
  /\ Running /\ pc = "line_read"
  /\ ReadResult(mem[cur].fd, max_line_len - off) = result

LineStored(m) ==
  LET bytes == ReadBytes(max_line_len - off)
  IN  [m EXCEPT !.buf = Stored(@, off, bytes), !.buf_used = @ + Len(bytes)]

\* An earlier read of this call of the handler has returned bytes.
ReadBefore == mem[cur].buf_used > off

RecordRead ==
  LET s == who[cur]
  IN  /\ typed' = [typed EXCEPT ![s] = @ \o ReadBytes(max_line_len - off)]
      /\ raced' = [raced EXCEPT ![s] = @ \/ ReadBefore]

line_read_more ==
  /\ LineRead("data")
  /\ LineStored(mem[cur]).buf_used <= max_line_len
  /\ mem' = [mem EXCEPT ![cur] = LineStored(@)]
  /\ Consume(max_line_len - off)
  /\ RecordRead
  /\ UNCHANGED <<poolVars, stage, fdt, queue, sent, fin, err, reg, ready,
                 sock, killed, who, arrived, parted, told, said, heard, missed>>
  /\ ReadOn

line_read_too_long ==
  /\ LineRead("data")
  /\ LineStored(mem[cur]).buf_used > max_line_len
  /\ Closing(cur, LineStored(mem[cur]), 1, 0)
  /\ Consume(max_line_len - off)
  /\ RecordRead
  /\ UNCHANGED <<queue, sent, fin, sock, who, arrived, said, heard>>
  /\ Return

LineSent_NotMoved(m) ==
  IF LinePos(m) = {} THEN m
  ELSE LET i == CHOOSE i \in LinePos(m) : TRUE
       IN  [m EXCEPT !.buf_used = @ - i]
\* The first line of the buffer goes to the others and out of the buffer.
LineSent(m) ==
  IF LinePos(m) = {} THEN m
  ELSE LET i == CHOOSE i \in LinePos(m) : TRUE
       IN  [m EXCEPT !.buf = Moved(@, i, m.buf_used - i), !.buf_used = @ - i]
LinesSent(m) == IF LinePos(m) = {} THEN 0 ELSE 1
RecordLine ==
  LET m == mem[cur]
      line == SubSeq(m.buf, 1, m.buf_used - LineSent(m).buf_used)
  IN  /\ said' = [said EXCEPT ![who[cur]] = @ \o line]
      /\ \E lost \in MayLose(cur) :
           heard' = [t \in Conn |-> IF t \in Receivers(cur) \ lost
                                   THEN [heard[t] EXCEPT ![who[cur]] = @ \o line]
                                   ELSE heard[t]]

line_read_done ==
  /\ LineRead("again")
  /\ mem' = [mem EXCEPT ![cur] = LineSent(@)]
  /\ MakeWrites(Writes(cur, 0, LinesSent(mem[cur])))
  /\ RecordLine
  /\ UNCHANGED <<poolVars, stage, fdt, queue, rx, sent, fin, reg, ready, sock,
                 who, arrived, parted, told, typed, raced>>
  /\ Return

line_read_eof ==
  /\ LineRead("eof")
  /\ Closing(cur, LineSent(mem[cur]), 0, LinesSent(mem[cur]))
  /\ RecordLine
  /\ UNCHANGED <<queue, rx, sent, fin, sock, who, arrived, typed, raced>>
  /\ Return

line_read_error ==
  /\ LineRead("error")
  /\ Closing(cur, mem[cur], 0, 0)
  /\ UNCHANGED <<queue, rx, sent, fin, sock, who, arrived, typed, said, heard, raced>>
  /\ Return

-----------------------------------------------------------------------------

Init ==
  /\ PoolsInit
  /\ SocketsInit
  /\ pc = "listen"
  /\ evt = <<>>
  /\ cur = nil
  /\ sock = garbage
  /\ off = 0
  /\ mem = [c \in Chunk |-> Zeroed]
  /\ killed = FALSE
  /\ who = [c \in Chunk |-> nil]
  /\ arrived = [s \in Conn |-> 0]
  /\ parted = [s \in Conn |-> 0]
  /\ told = [s \in Conn |-> {}]
  /\ typed = [s \in Conn |-> <<>>]
  /\ said = [s \in Conn |-> <<>>]
  /\ heard = [t \in Conn |-> [s \in Conn |-> <<>>]]
  /\ missed = {}
  /\ raced = [s \in Conn |-> FALSE]

ServerNext ==
  \/ server_init \/ create_epoll \/ register_listener
  \/ epoll_wait \/ interrupted
  \/ accept_fails \/ accept_drained \/ accept_client \/ accept_nomem \/ accept_rejects
  \/ register \/ register_fails
  \/ name_read_more \/ name_read_too_long \/ name_read_closes \/ name_read_done
  \/ line_read_more \/ line_read_too_long \/ line_read_done \/ line_read_eof
  \/ line_read_error

PeerNext ==
  /\ Running
  /\ \E s \in Conn : \/ pc # "listen" /\ Connect(s)
                     \/ \E b \in Bytes : Send(s, b)
                     \/ Hangup(s)
                     \/ Reset(s)
  /\ UNCHANGED <<poolVars, procVars, histVars>>

Next == ServerNext \/ PeerNext

Spec == Init /\ [][Next]_vars

\* The kernel runs the server's thread; nothing makes the peers do anything.
FairSpec == Spec /\ WF_vars(ServerNext)

-----------------------------------------------------------------------------
(***************************************************************************)
(* Properties.                                                             *)
(***************************************************************************)

Byte == Bytes \cup {"nul"}
Client == [fd : Fd \cup {garbage}, buf_used : Int, name_used : Int, name_ok : BOOLEAN,
           buf : [1 .. max_line_len -> Byte], name : [1 .. max_name_len -> Byte]]

TypeOK ==
  /\ PoolsTypeOK
  /\ stage \in [Conn -> Stage]
  /\ fdt \in [Fd -> Conn \cup {"free", "stdin"}]
  /\ queue \in Seq(Conn) /\ rx \in [Conn -> Seq(Bytes)]
  /\ sent \in [Conn -> 0 .. MaxSent]
  /\ fin \in [Conn -> BOOLEAN] /\ err \in [Conn -> {"ok", "reset", "pipe"}]
  /\ reg \in [File -> Chunk \cup {nil, serv}] /\ ready \in Seq(Conn \cup {serv})
  /\ pc \in {"listen", "epoll_create1", "epoll_add",
             "epoll_wait", "accept", "epoll_ctl", "name_read", "line_read"}
  /\ evt \in Seq(Chunk \cup {serv}) /\ Len(evt) <= max_events
  /\ cur \in Chunk \cup {nil} /\ sock \in Fd \cup {garbage} /\ off \in Int
  /\ mem \in [Chunk -> Client]
  /\ killed \in BOOLEAN

\* The clients server_handle has finished setting up.
Sessions == LiveChunks \ (IF pc = "epoll_ctl" THEN {cur} ELSE {})
SessionOf(s) == {c \in Sessions : who[c] = s}
NamedConns == {who[c] : c \in {d \in Sessions : mem[d].name_ok}}

\* Every session has a socket of its own, registered with epoll under the
\* session's address, and every open socket is some session's: no descriptor is
\* leaked, closed twice or shared, in whatever order clients come and go.
SocketsOwned ==
  Running =>
    /\ \A c \in Sessions : FileOf(mem[c].fd) = who[c] /\ who[c] \in Conn /\ reg[who[c]] = c
    /\ \A fd \in Fd : fdt[fd] \in Conn =>
         \/ \E c \in Sessions : mem[c].fd = fd
         \/ pc = "epoll_ctl" /\ fd = sock

\* The pointers the kernel keeps for the server and the unhandled events of a
\* batch point to sessions, although handlers of earlier events of the batch
\* close sessions, unmap pools and recycle chunks.
EventsTargetSessions ==
  Running =>
    /\ \A s \in Conn : reg[s] # nil => reg[s] \in Sessions
    /\ \A i \in DOMAIN evt : evt[i] # serv => evt[i] \in Sessions
    /\ \A i, j \in DOMAIN evt : evt[i] = evt[j] => i = j

\* Edge-triggered epoll reports new events only: when the server waits, whatever
\* it could still read or accept is queued in epoll.
NoLostWakeup ==
  Running /\ pc = "epoll_wait" =>
    /\ queue # <<>> => Contains(ready, serv)
    /\ \A s \in Conn : reg[s] # nil /\ Readable(s) => Contains(ready, s)

\* Nobody is announced to have left who was not announced to have entered, nobody
\* twice, and who is gone after entering has been announced to have left.
AnnouncementsPaired ==
  Running => \A s \in Conn :
    /\ parted[s] <= arrived[s] /\ arrived[s] <= 1
    /\ stage[s] = "closed" => parted[s] = arrived[s]

\* Whoever a client was told is in the chat, is: everybody who saw an arrival
\* also sees the departure, whatever the reason the session ends for.  A client that
\* reads too slowly does not (chat_server.c:73).
ToldOnlyOfMembers ==
  Running => \A c \in Sessions : told[who[c]] \subseteq NamedConns

\* The same of the clients whose sockets have taken all that was written to them: what
\* session_close announces, and to whom, makes nobody a ghost.
NoGhosts ==
  Running => \A c \in Sessions : who[c] \notin missed => told[who[c]] \subseteq NamedConns

\* read never writes past buf or name: bufp and bufn leave room for the count
\* passed, also when a call reads twice; and a name ends in a NUL inside its array.
BuffersBounded ==
  Running =>
    /\ pc = "name_read" => off \in 0 .. max_name_len /\ off <= mem[cur].name_used
    /\ pc = "line_read" => off \in 0 .. max_line_len /\ off <= mem[cur].buf_used
    /\ \A c \in Sessions :
         /\ mem[c].buf_used \in 0 .. max_line_len
         /\ mem[c].name_used \in 0 .. max_name_len
         /\ mem[c].name_ok => /\ mem[c].name_used < max_name_len
                              /\ mem[c].name[mem[c].name_used + 1] = "nul"

\* As long as no call of session_line_read gets bytes from two reads, what was
\* sent to the others and what is still in the buffer is what the client typed
\* after its name, in order, and the others get whole lines only.
LinesIntact ==
  Running =>
    /\ \A c \in Sessions : mem[c].name_ok /\ ~ raced[who[c]] =>
         typed[who[c]] = said[who[c]] \o SubSeq(mem[c].buf, 1, mem[c].buf_used)
    /\ \A s \in Conn : ~ raced[s] => /\ IsPrefix(said[s], typed[s])
                                     /\ said[s] # <<>> => Last(said[s]) = "nl"

\* Seen from outside the server is a chat room: each of its steps, the one that ends the
\* process included, is one event of the room or none, whatever the pools and
\* descriptors behind it do, and only who misses a message does not hear it.
Room == INSTANCE ChatRoom WITH
  up      <- Running,
  inside  <- {who[c] : c \in Sessions},
  members <- NamedConns,
  told    <- [s \in Conn |-> IF SessionOf(s) # {} THEN told[s] ELSE {}],
  gone    <- {s \in Conn : stage[s] = "closed"},
  Lines   <- UNION {[1 .. n -> Byte] : n \in 1 .. max_line_len}
RoomSpec == Room!Spec

-----------------------------------------------------------------------------
(***************************************************************************)
(* Liveness, for a server that keeps running.                              *)
(***************************************************************************)

\* No handler loops for ever: the server comes back to epoll_wait.
AlwaysBackToWait == []<>(~ Running \/ pc = "epoll_wait")

\* A connection in the queue is accepted or turned away.
QueuedIsServed ==
  \A s \in Conn : stage[s] = "queued" ~> ~ Running \/ stage[s] # "queued"

\* What a client sends is read, or its session ends: no edge is lost.
SentIsRead ==
  \A s \in Conn :
    stage[s] = "open" /\ rx[s] # <<>> ~> ~ Running \/ stage[s] # "open" \/ rx[s] = <<>>

\* The session of a client that hung up is closed and its chunk freed.
HangupEndsSession ==
  \A s \in Conn :
    stage[s] = "open" /\ fin[s] ~> ~ Running \/ (stage[s] = "closed" /\ SessionOf(s) = {})

=============================================================================
