------------------------------ MODULE Sockets ------------------------------
(***************************************************************************)
(* The part of Linux chat_server.c stands on, as far as the server can     *)
(* tell: its descriptor table, the listening socket's queue, the stream    *)
(* sockets of its clients and an edge-triggered epoll instance.  None of   *)
(* it is code of the repository: it is modelled from the calls the server  *)
(* makes and what it does with their results.                              *)
(*                                                                         *)
(* The descriptors that stay open all the time (1, 2, the listening socket *)
(* and the epoll instance) are left out; 0 is standard input.              *)
(***************************************************************************)
EXTENDS Integers, FiniteSets, SequencesExt

CONSTANTS
  Conn,     \* connections the peers may make, each one once
  Bytes,    \* bytes the peers may send
  Nofile,   \* size of the descriptor table (RLIMIT_NOFILE)
  MayReset, \* peers may abort connections
  MayBlock, \* peers may read too slowly: a write finds the socket's buffer full
  MaxSent,  \* bound: bytes sent on one connection
  nil,      \* no data.ptr
  serv      \* data.ptr of the listening socket, here also its file

ASSUME SocketsAssumption ==
  /\ Conn \cap {nil, serv, "free", "stdin"} = {}
  /\ {nil, serv} \cap {"free", "stdin"} = {} /\ nil # serv
  /\ Bytes \subseteq {"char", "nl", "cr"}
  /\ Nofile \in Nat \ {0}
  /\ MaxSent \in Nat
  /\ MayReset \in BOOLEAN /\ MayBlock \in BOOLEAN

VARIABLES
  stage,  \* stage[s]: how far connection s is
  fdt,    \* fdt[fd]: the file behind descriptor fd
  queue,  \* connections waiting for accept4, oldest first
  rx,     \* rx[s]: bytes received on s and not read yet
  sent,   \* sent[s]: how many bytes the peer has sent on s
  fin,    \* fin[s]: the peer has shut down its sending side
  err,    \* err[s]: what a reset did to s
  reg,    \* reg[f]: data.ptr of file f in the epoll instance
  ready   \* epoll's list of files that had an event, oldest first

sockVars == <<stage, fdt, queue, rx, sent, fin, err, reg, ready>>

Fd == 0 .. Nofile - 1
garbage == -1        \* no descriptor of this process
Stage == {"away", "queued", "open", "closed"}
File == Conn \cup {serv}

\* The elements of s that are in S, in their order.
Kept(s, S) ==
  LET kept[n \in 0 .. Len(s)] ==
        IF n = 0 THEN <<>>
        ELSE IF s[n] \in S THEN Append(kept[n - 1], s[n]) ELSE kept[n - 1]
  IN  kept[Len(s)]

-----------------------------------------------------------------------------
(***************************************************************************)
(* Descriptors.  accept4 takes the lowest free one, and looks for it       *)
(* before it looks at the queue.                                           *)
(***************************************************************************)

FreeFds == {fd \in Fd : fdt[fd] = "free"}
LowestFreeFd == CHOOSE fd \in FreeFds : \A other \in FreeFds : fd <= other
FileOf(fd) == IF fd \in Fd THEN fdt[fd] ELSE "free"

\* close(fd): the file leaves the epoll instance.  Any other number than an open
\* descriptor's is an error nobody looks at.
CloseFd(fd) ==
  /\ fdt'   = [n \in Fd |-> IF n = fd THEN "free" ELSE fdt[n]]
  /\ stage' = [s \in Conn |-> IF s = FileOf(fd) THEN "closed" ELSE stage[s]]
  /\ reg'   = [f \in File |-> IF f = FileOf(fd) THEN nil ELSE reg[f]]
  /\ ready' = Kept(ready, File \ {FileOf(fd)})

-----------------------------------------------------------------------------
(***************************************************************************)
(* read and write on a non-blocking stream socket.                         *)
(***************************************************************************)

\* What read(fd, _, count) reports: a read of 0 bytes reports 0, like the end of
\* the stream, whatever there is to read.
ReadResult(fd, count) ==
  LET s == FileOf(fd)
  IN  CASE s \notin Conn                    -> "error"
        [] s \in Conn /\ count = 0          -> "eof"
        [] s \in Conn /\ count # 0 /\ rx[s] # <<>> -> "data"
        [] s \in Conn /\ count # 0 /\ rx[s] = <<>> ->
             CASE err[s] = "reset"             -> "error"
               [] err[s] = "pipe"              -> "eof"
               [] err[s] = "ok" /\ fin[s]      -> "eof"
               [] err[s] = "ok" /\ ~ fin[s]    -> "again"

\* How many bytes a read that reports "data" returns.
ReadLen(s, count) == IF Len(rx[s]) < count THEN Len(rx[s]) ELSE count

\* n[s] writes are made on each connection s, without MSG_NOSIGNAL.  The first
\* write after a reset only reports it; the next one raises SIGPIPE.
WritesFatal(n) ==
  \E s \in Conn : \/ err[s] = "pipe"  /\ n[s] > 0
                  \/ err[s] = "reset" /\ n[s] > 1
ErrAfterWrites(n) ==
  [s \in Conn |-> IF err[s] = "reset" /\ n[s] > 0 THEN "pipe" ELSE err[s]]

\* Nobody reads what is written after a reset.  A write that finds too little room in the
\* buffer of its socket takes what fits, or nothing (EAGAIN); and of the writes that are
\* due when SIGPIPE comes some are not made any more.
NotTaken(n) == {s \in Conn : n[s] > 0 /\ err[s] # "ok"}
MayNotFit(n) == {s \in Conn : n[s] > 0 /\ (MayBlock \/ WritesFatal(n))}

-----------------------------------------------------------------------------
(***************************************************************************)
(* epoll, edge-triggered.  A file with an event is queued once; epoll_wait *)
(* takes files off the queue, drops those with nothing to report and       *)
(* reports the others.                                                     *)
(***************************************************************************)

Readable(f) ==
  IF f = serv THEN queue # <<>> ELSE rx[f] # <<>> \/ fin[f] \/ err[f] # "ok"

QueueReady(f) == ready' = IF Contains(ready, f) THEN ready ELSE Append(ready, f)

\* An event on file f wakes epoll if f is registered.
Wake(f) == IF reg[f] = nil THEN UNCHANGED ready ELSE QueueReady(f)

\* epoll_ctl(epoll_ctl_add): the file is registered with a pointer, and queued if it
\* has something to report already.
Register(f, ptr) ==
  /\ reg' = [reg EXCEPT ![f] = ptr]
  /\ IF Readable(f) THEN QueueReady(f) ELSE UNCHANGED ready

\* The files reported when k are taken off the list, n being asked for: taking
\* ends at the n-th file with an event or at the end of the list.
Reported(k) == Kept(SubSeq(ready, 1, k), {f \in File : Readable(f)})
TakenFor(k, n) ==
  /\ Reported(k) # <<>>
  /\ \/ Len(Reported(k)) = n /\ Readable(ready[k])
     \/ Len(Reported(k)) < n /\ k = Len(ready)

-----------------------------------------------------------------------------
(***************************************************************************)
(* The peers.                                                              *)
(***************************************************************************)

Connect(s) ==
  /\ stage[s] = "away"
  /\ stage' = [stage EXCEPT ![s] = "queued"]
  /\ queue' = Append(queue, s)
  /\ Wake(serv)
  /\ UNCHANGED <<fdt, rx, sent, fin, err, reg>>

Alive(s) == stage[s] \in {"queued", "open"}

Send(s, b) ==
  /\ Alive(s) /\ ~ fin[s] /\ err[s] = "ok"
  /\ sent[s] < MaxSent
  /\ rx'   = [rx EXCEPT ![s] = Append(@, b)]
  /\ sent' = [sent EXCEPT ![s] = @ + 1]
  /\ Wake(s)
  /\ UNCHANGED <<stage, fdt, queue, fin, err, reg>>

\* The peer has nothing more to send.
Hangup(s) ==
  /\ Alive(s) /\ ~ fin[s] /\ err[s] = "ok"
  /\ fin' = [fin EXCEPT ![s] = TRUE]
  /\ Wake(s)
  /\ UNCHANGED <<stage, fdt, queue, rx, sent, err, reg>>

\* The peer aborts the connection, or answers a write after it has closed: after
\* the end of its stream a reset is only seen by writes.
Reset(s) ==
  /\ MayReset
  /\ Alive(s) /\ err[s] = "ok"
  /\ err' = [err EXCEPT ![s] = IF fin[s] THEN "pipe" ELSE "reset"]
  /\ Wake(s)
  /\ UNCHANGED <<stage, fdt, queue, rx, sent, fin, reg>>

SocketsInit ==
  /\ stage = [s \in Conn |-> "away"]
  /\ fdt   = [fd \in Fd |-> IF fd = 0 THEN "stdin" ELSE "free"]
  /\ queue = <<>>
  /\ rx    = [s \in Conn |-> <<>>]
  /\ sent  = [s \in Conn |-> 0]
  /\ fin   = [s \in Conn |-> FALSE]
  /\ err   = [s \in Conn |-> "ok"]
  /\ reg   = [f \in File |-> nil]
  /\ ready = <<>>
=============================================================================
