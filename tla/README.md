# Verification of chat_server

TLA+ models of the chat server in `src/src/chat_server.c` and of the parts of its
library (`src/lib/cfa`) that keep state, checked with TLC and proved about with
TLAPS. Paths below are relative to the repository's root, which is `src/`.

## 1. The system

The program is one process with one thread and no C library. It listens on port
7070, speaks a line protocol (first line: a name, then lines of chat) and sends
each line, each arrival and each departure to everybody else.

| Component | State it keeps | Operations | What makes it correct |
|---|---|---|---|
| client pools (`chat_server.c`) | `server.first_clp`, `n_pls`; per pool the free list, the client list, `free_ch`, `used_ch` | `session_new`, `session_new_clp`, `session_close` | the array holds the mapped pools and nothing else; counters agree with lists; a chunk is free or one client's; clients are turned away only when all is full |
| event loop (`chat_server.c`) | the epoll instance, the batch `evt`, the running handler's locals | `server_go`, `server_handle` | events reach live clients only; every handler ends and drains what an edge announced |
| sessions (`chat_server.c`) | `client`: `fd`, `buf`, `buf_used`, `name`, `name_used`, `name_ok` | `session_name_read`, `session_line_read`, `check_line_and_send`, `session_send_all`, `session_close` | one socket per session; no read past a buffer; lines whole and in order; nobody but who misses a message takes for a member who has gone |
| kernel (external) | descriptor table, accept queue, stream sockets, edge-triggered epoll | `accept4`, `read`, `write`, `close`, `epoll_*` | - |
| pool allocator (`pool.c`) | `buf`, `buf_len`, `chunk_size`, `head`, links in the free chunks | `pool_init`, `pool_get`, `pool_put` | chunks disjoint, aligned, in the buffer; the free list holds what nobody holds |
| arena allocator (`arena.c`) | `buf`, `buf_len`, `prev_off`, `curr_off` | alloc, resize, free all, `temp_arena_*`, `arena_create` | blocks disjoint, aligned, in the buffer |
| circular buffer (`buffer.c`) | `buf`, `len`, `head`, `tail` | `produce`, `consume`, `reset`, slices | slices stay in the mapping; what was put is there to be read |
| memory copy (`builtin.c`) | - | `memcpy`, `memmove` | overlapping areas are copied as if at once |
| strings and slices (`builtin.c`) | `global_arena` | `make_slice`, `grow_slice`, cuts, `*_in_slice` | slices share no byte; messages are whole and inside their arrays |
| time (`time.c`) | - | `time_to_tm`, formatters | the civil date of a second |
| formatted output, assertions (`fmt.c`, `assert.c`) | - | `fmt_fprintf`, `assert_fail` | nothing stored behind the buffer; conversions get the arguments meant for them |
| system calls (`syscall.c`, `errno.h`) | - | wrappers | errors told from results, each by its own entry |
| `iovec.c`, `u.h` | - | struct copies, type names | - |

How they interact: `server_go` calls a handler for each event of a batch; which one
depends on `name_ok` of the client the event points to *at that moment*. Handlers
call `session_close`, which writes to all other clients, closes the descriptor and
gives the chunk back; that may unmap the pool. `server_handle` calls `session_new`,
which may map a pool; a chunk is memory of an arena cut up by `pool.c`. The kernel
keeps pointers to clients (`ev.data.ptr`) and hands them back later.

What is hard: there are no threads, but the peers run beside the server, so bytes,
connections, hang-ups and resets arrive between any two system calls; events are
edge-triggered and batched, so a pointer may outlive what it points to and a missed
byte is never announced again; chunks, descriptors and arenas are reused, so a field
not reset shows the last user's value. There is no persistent state, hence nothing
to recover, and the code has no timeouts or retries but the loops on `EINTR` and on
errors of `accept4`. `PROJECT.json` lists the hazards at their lines.

## 2. Modules

| Module | Models | Notes |
|---|---|---|
| `ClientPools` | the pools of `chat_server.c` | one action per way `session_new` and `session_close` can go |
| `SessionAllocator` | - | what the pools promise the server; implemented by `ClientPools` |
| `ClientPoolsProofs` | - | invariant and implementation, proved |
| `ClientMemory` | the same pools in the words of their arenas | implements `ClientPools` |
| `ClientMemoryProofs` | - | its lists and fields in memory, and the implementation, proved |
| `Lists` | linked lists read from memory | used by `ClientMemory` and `Pool` |
| `Sockets` | Linux, as the server sees it | external |
| `ChatServer` | event loop and sessions | extends `ClientPools` and `Sockets` |
| `ChatRoom` | - | what the users see; implemented by `ChatServer` |
| `DataLemmas` | - | lemmas on numbers, multiples of a size, sequences and linked lists, proved |
| `SessionsProofs` | - | the pools in the running server, sessions and their sockets, buffers, proved |
| `WakeupsProofs` | - | no event is lost, proved |
| `RoomProofs` | - | announcements, lines and the implementation of `ChatRoom`, proved |
| `Alignment`, `Pool` | `pool.c`, to the words of memory | |
| `FreeList` | - | the stack `ClientPools` builds on; implemented by `Pool` |
| `Arena` | `arena.c` | |
| `CircularBuffer` | `buffer.c` | |
| `MemoryCopy` | `memcpy`, `memmove` | loop by loop, against a copy of all bytes at once |
| `GlobalArena` | `make_slice`, `grow_slice`, `panic` | |
| `AllocatorsProofs` | - | `Pool` and that it implements `FreeList`, `Arena`, `GlobalArena`, proved |
| `Calendar` | `time.c` | `time_to_tm` against a calendar |
| `Messages` | the message arrays of `chat_server.c`, slices | |
| `Format` | `fmt.c`, the call in `assert.c` | |
| `SystemCalls` | `syscall.c`, `errno.h` | |
| `LibraryProofs` | - | `CircularBuffer`, `MemoryCopy`, `Messages`, `Format`, `SystemCalls`, `Calendar`, proved |
| `MCClientPools`, `MCChatServer`, `MCLibrary`, `MCLayout` | - | small instances |

### ClientPools

A pool is known by the address of its arena (`Regions`), a chunk by the pool and its
index in `p.buf`. `free[p]` is the list from `p.head`, `client[p]` the list from
`clp->client`, both as sequences; the counters are variables of their own because
the code tests them in place of the lists. `session_new` is `session_new_reuse` (the
loop at lines 312-327), `session_new_grow` (333-338), `session_new_nil` (330-331) or
`session_new_nomem` (`arena_create` exits when `mmap` fails). `session_close_chunk`
searches the lists as lines 139-143 do and then keeps the pool (`KeepPool`) or drops
it (`DropPool`, lines 148-171). `munmap` gets one page, so a dropped arena is
`"leaked"`: its address never comes free and no pointer to the rest exists. Since the
server is one thread, each call is one step.

### ClientMemory

Here a pool is what its arena holds: the header, then the client structs, word by
word. `store` is the memory; `FreeNodesOf` and `ClientList` read the lists from it
(`ListFrom` of `Lists`), and every step writes the words the code writes, in its order.
`session_new_grow` leaves `c->next` alone, as line 335 does. Between the calls
`set_fields` stores what a session keeps (`wrote`). The refinement mapping gives
`ClientPools` the lists, the counters and which pages are mapped; `PoolsSpec` says that
each step is one of its steps, so the sequences of `ClientPools` are justified by the
layout. Sizes are in words: the instance has a header of 4 and clients of 3 words. In
the program a client is 568 bytes, its first word is `fd` and `buf_used`, under the link
of the free list, its last is `next`; a header of 48 bytes and 1023 clients leave 520
bytes of 142 pages unused, as the comment at line 53 says.

### Sockets

Descriptors are a table with the lowest free one taken first, searched before the
accept queue is (this is why a full table gives `EMFILE` even with an empty queue).
Descriptors that stay open for good are left out, 0 is standard input. `read` gives
what is there, up to the count; a count of 0 gives 0. A reset gives an error once,
then end of stream; the first write after a reset reports it, the next raises
SIGPIPE. If peers may read too slowly (`MayBlock`), any write may find too little room
and take a part or nothing (`MayNotFit`). epoll's ready list is a sequence: an event
appends the file unless it is in; `epoll_wait` takes files from its front and drops those with nothing to report.

### ChatServer

`pc` is the call the thread makes next. One step is one of `epoll_wait`, `accept4`,
`epoll_ctl`, `read`, together with all code behind it up to the next of these calls;
writes and closes belong to the step they follow. This is sound because a write or
close of the server has no effect on a peer that the model describes other than
what reaches it and ending its connection, and peers act between all steps. `cur`, `sock`, `off` are the
handler's locals (`off` is `bufn` or `bufp`: fixed before the loop, as in the code).
`mem[c]` is the client struct in chunk `c`; it survives in a freed chunk and is what
a new user finds there, but for the words the free list's link covers: `Recycled`
says what `fd` is then.

| Code | Actions |
|---|---|
| `_start`, `server_init`, `server_go` 399-414 | `server_init`, `create_epoll`, `register_listener`, each of which may fail and end the process; connections come from `listen` on, so the queue may be full of them when it is registered |
| `server_go` 416-435 | `epoll_wait`; the dispatch is `HandleNext`, which ends every handler too |
| `server_handle` 356-389 | `accept_fails`, `accept_drained`, `accept_client`, `accept_nomem`, `accept_rejects`, `register`, `register_fails` |
| `session_name_read` | `name_read_more`, `name_read_too_long`, `name_read_closes`, `name_read_done` |
| `session_line_read` | `line_read_more`, `line_read_too_long`, `line_read_done`, `line_read_eof`, `line_read_error` |
| `session_close` | `Closing`, part of five of these |
| `session_send_all` | `Writes`: how many messages each socket gets in a step; `MakeWrites`: what becomes of them; `Receivers`, `MayLose`: whom one message reaches |

`interrupted` is `EINTR`: the call is repeated. A write to a reset connection ends
the process (`killed`, also when the start failed), as does `sys_exit` (`exited`); properties are stated for a server that is `Running`. `who`, `arrived`,
`parted`, `typed`, `said`, `raced` record what was sent and read, `told` and `heard` what
reached whom; no code reads them.

`sys_write` at line 73 works on non-blocking sockets, gets nil for `err`, and its result is
not used. So a message that does not fit is cut short or lost, and nothing is sent again:
`missed` are the connections on which that happened, or whose socket was reset when
something was written. Each of them may lose this message and later ones, or still get
them; which bytes of a message that was cut short arrive is left out.

### Pool, Arena, CircularBuffer

`Pool` has a memory of words: what a `free_node` read at an address gives, `"data"`
where somebody wrote over it. Holders write into their chunks as they like.
`FreeNodes` walks that memory from `p->head`; the property `StackSpec` says that the
walk is the stack `FreeList`. `Arena` keeps the offsets and, as a record, the blocks
a program may still use. Addresses, sizes and their sums are `uint64`: `Wrapped` takes
them modulo `WordValues` wherever the code adds. `CircularBuffer` numbers the bytes put so that a slice
shows which ones it holds.

### MemoryCopy, GlobalArena

`MemoryCopy` has a step per turn of each loop, `asked_copy` are the arguments, and every
pair of areas in the memory is tried, whatever they share. `GlobalArena` keeps the
slices a program may still use with their base in the arena there is, at nil, or
left behind in one that was replaced. Products, sums and lengths wrap, and `max_alloc`,
which overflows, is what it is: `PlaceFor` makes the comparison of `arena.c:59` with sums
that may have wrapped.

### Messages, Format, SystemCalls

Texts are lengths. `Messages` puts the pieces of each message into slices of an
array of the size the code declares; `cut` counts what did not fit, `reach` how far
was written. `Format` goes through a format once as `fmt_fprintf` does; `stored`
counts the NUL `c_strncpy` adds. `SystemCalls` takes every number the kernel may
leave for an error and looks it up as the three kinds of wrappers do.

### Calendar

A number of seconds is a pair of days and seconds of the day, which loses nothing as
every divisor above 86400 is a whole number of days. The state is a clock and a date
kept by the rules of the calendar, day after day; `time_to_tm` is computed from the
clock alone and compared. Formatters are modelled by the number of bytes they write.

## 3. Runs

Deadlock is not checked: the peers may have nothing left to do, and a server in
`epoll_wait` rests; the calendar, a copy or a message ends.

| Run | Question | Bounds |
|---|---|---|
| `pools` | Do the pools stay consistent, and implement `SessionAllocator`? | 3 pools of 2 chunks, 4 addresses: every pool can be first, middle and last when it is dropped, and one dropped pool can be replaced |
| `sessions` | Sockets, events, announcements; is the server a `ChatRoom`? | 3 connections, 2 pools of 1 chunk: the third is turned away or takes a chunk another left, and each close may drop a pool; one event at a time; a name and a line each; any write may be cut short or lost |
| `lines` | Buffers and lines | 1 client, name of 2 and buffer of 3 bytes, 6 bytes out of a letter, LF and CR: names and lines that are too short, exact and too long, several lines at once, two reads in one call; the peer may reset at any time |
| `epoll_failure` | What does a failing `epoll_ctl` not break? | 3 connections, 2 pools of 2 chunks and room for 3 descriptors: chunks are recycled, batches of 2 hold events of clients that earlier handlers close, and with three sessions `accept4` fails for ever; peers may reset, so that the server may be killed while it writes |
| `liveness` | Does the server always get on? | 2 connections of up to 3 bytes, names of 1 and buffers of 2 bytes, so that data outlasts a read; batches of 2 |
| `library` | `pool.c`, `arena.c`, `buffer.c`, the arena and the copies of `builtin.c`, `time.c` | seven layouts of up to 4 chunks, buffers at boundaries and between them; an arena of 7 misaligned bytes, blocks of 0, 2 and 5, alignments 1 and 2, 2 blocks at a time (a third is cut and looked at); a circular buffer of 4 and 14 bytes through it; all copies in 14 bytes with words of 4 (an unaligned head, a word or two and a tail, both ways); slices of 1- and 3-byte elements in an arena of 8 to 32 bytes replaced up to twice, lengths that fit, that do not and that pass `max_alloc` (values wrap at 256, which no sum of these sizes reaches, see `huge_slice`); every day from 1970 to 2101 (a leap century, one that is not, the end of 400 years on 31 December 2000; the limit at `time.c:57` is never taken, since 36524 days hold 1461 only 24 times), the seconds around midnight in Moscow and one by day; a later year brings no new case before 2400, which is like 2000 |
| `layout` | What was laid out by hand: do clients, messages, diagnostics and errors fit? | 3 places for 2 pools of 2 clients, arenas of two pages, so that a dropped one can be replaced; names of all lengths, lines and strings of lengths around each limit, in the arrays' own sizes; the formats the server and the library use but for that of `assert.c`, and two with every conversion and an unknown one; all error numbers |

`Symmetric` (addresses and connections) is used in `sessions` and `epoll_failure`,
which check no liveness; all properties there treat addresses and connections alike.

What they show, beside the type invariants:

- Pools: `FiledIffMapped`, `CountersMatchLists`, `ChunksAccounted`, `NoEmptySparePool`,
  `RejectOnlyWhenFull`, and `AllocatorSpec`.
- `SocketsOwned`: no descriptor is leaked, closed twice or shared, as long as
  `epoll_ctl` succeeds. `EventsTargetSessions`: no event or registration points to a
  chunk without a session, even if `epoll_ctl` fails. `NoLostWakeup`: when the server
  waits, whatever it could read or accept is in epoll's list.
- `AnnouncementsPaired`: who is announced to have come or gone. `NoGhosts`: a client
  whose socket took all that was written to it believes nobody to be there who is not; of
  the others this is not true (`ToldOnlyOfMembers`, section 5). `RoomSpec`: every step is
  one event of `ChatRoom` or none, so that a message, also the last words of a client
  that leaves, reaches everybody inside but its subject and those who are known to have
  missed something; the step that ends the server is no exception.
- `BuffersBounded`: the arguments of `read` stay inside `name` and `buf`, and a name
  ends in a NUL inside its array. `LinesIntact`: what was sent and what is in the
  buffer is what was typed, and only whole lines go out; unless two reads of one call
  returned bytes, when the second overwrites the first (section 5).
- `AlwaysBackToWait`, `QueuedIsServed`, `SentIsRead`, `HangupEndsSession` under
  `FairSpec`.
- `PoolsSpec`: the pools in memory implement `ClientPools`, `FieldsKept`: no link of a
  list is stored over what a session keeps in its client.
- `CopiedAtOnce`, `WordsAligned`: `memcpy` copies overlapping areas right in both
  directions, and reads and writes words at multiples of their size only.
- `SlicesApart`: slices of the global arena share no byte, however they grew, where no
  sum wraps.
- `MessagesWhole`: no message is cut or passes its array. `FormatBounded`: neither does
  formatted output. `ArgumentsFit`: each conversion finds its argument.
  `ErrorsTold`: failure and success are told apart, and an error by its own number.
- `TimeAgrees`: the fields of `struct tm` are the date and time in Moscow.
  `StampsFit`: a stamp never takes more than the 17 bytes `check_line_and_send` keeps.
- The library's `ChunksInBuffer`, `StackSpec`, `BlocksDisjoint`, `SlicesInMapping`,
  `UnconsumedUnlessCarried`; and `ChunksLikeBuffer`: each chunk is as far from a
  boundary as the buffer is, so that chunks are aligned in an aligned buffer alone.

**Fairness.** `FairSpec` is weak fairness of the server's steps together: the process
is scheduled, and a call that can return does. Peers owe nothing. A server with an
endless error from `accept4` takes only stuttering steps, which is the busy loop of
line 363: it is scheduled and does nothing else. In `liveness` the descriptor table has
room for every connection, the case the code handles.

Every property of these runs has a mutant in `PROJECT.json`: an operator, defined
beside the one it replaces, with a mistake that the code could have had (a loop left
one read early, a field not reset, a counter forgotten), under which TLC finds the
property violated.

## 4. Proofs

All theorems hold for every value of the constants: any number of pools, chunks,
connections, descriptors, events, bytes and buffer sizes.

| Theorem | Says |
|---|---|
| `PoolsInvariant`, `PoolsCorrect` | type correctness and the four pool invariants |
| `RejectsOnlyWhenFull` | `session_new` returns nil only when as many sessions are open as there are chunks |
| `PoolsImplementAllocator` | `PoolsSpec => AllocatorSpec` |
| `ServerKeepsPools`, `ServerRejectsOnlyWhenFull` | the same invariants under `ChatServer`'s `Spec` |
| `ServerImplementsPools`, `ServerImplementsAllocator` | the server's steps are the pools' steps, so two clients never share a chunk |
| `ServerInvariant`, `ServerTypes` | `SInv`, and `TypeOK` from it |
| `EventsReachSessions` | `EventsTargetSessions`, also when `epoll_ctl` fails |
| `ReadsStayInBuffers` | `BuffersBounded`, also when `epoll_ctl` fails |
| `EverySocketOwned` | `SocketsOwned`, if `epoll_ctl` does not fail |
| `NoWakeupLost` | `NoLostWakeup`, also when `epoll_ctl` fails |
| `EveryArrivalParted`, `NobodyTakenForMember` | `AnnouncementsPaired`, `NoGhosts`, if `epoll_ctl` does not fail |
| `LinesAreSentWhole` | `LinesIntact`, if `epoll_ctl` does not fail |
| `ServerIsChatRoom` | `Spec => RoomSpec`, if `epoll_ctl` does not fail |
| `ChunksFit` | `ChunksInBuffer` of `Pool`, if no stranger is put |
| `ChunksLieLikeBuffer` | `ChunksLikeBuffer` of `Pool`, if no stranger is put |
| `PoolIsStack` | `StackSpec`: `Pool` implements `FreeList`, if no stranger is put |
| `BlocksKeepApart` | `BlocksDisjoint` of `Arena`, if `SumsFit` |
| `SlicesKeepApart` | `SlicesApart` of `GlobalArena`, if `SizesFit` |
| `CopiesAtOnce`, `MovesAlignedWords` | `CopiedAtOnce` and `WordsAligned` of `MemoryCopy` |
| `BufferBounds`, `BytesAreRead` | `SlicesInMapping` (and `LengthsCount`), `UnconsumedUnlessCarried` of `CircularBuffer` |
| `MemoryInvariant`, `FieldsAreKept` | the layout of `ClientMemory` (`MemoryInv`), and `FieldsKept` from it |
| `MemoryImplementsPools` | `MemorySpec => PoolsSpec`, if a pool takes more than a page |
| `MemoryImplementsAllocator`, `MemoryRejectsOnlyWhenFull` | hence, for the words in memory: they implement `SessionAllocator`, and nil is returned only when all clients are in use |
| `MessagesFit` | `MessagesWhole` of `Messages`, if a stamp takes at most 12 bytes |
| `FormatFits` | `FormatBounded` of `Format` |
| `ArgumentsFound` | `ArgumentsFit` of `Format`, if each call passes what its format names |
| `ErrorsAreTold` | `ErrorsTold` of `SystemCalls` |
| `TimeIsCivil` | `TimeAgrees` of `Calendar`, from 1970 on |
| `StampsAreShort` | `StampsFit` of `Calendar`, before the year 10000 |

**Assumptions** are the `ASSUME`s of the modules: `PoolsAssumption`,
`ServerAssumption` and `BufferAssumption` say that limits and sizes are at least 1,
`ArenaAssumption` that sizes are numbers and alignments positive, `CopyAssumption`
the same of memory and words; `PoolAssumption` that the buffers asked for lie in the
memory and hold a chunk, and that nil is no address of it;
`GlobalArenaAssumption` that the widths and the sizes of the arena are numbers;
`ClientMemoryAssumption` that a page holds the header and a client its two links, and that
arenas are apart (a bound: the kernel could place one over the page a dropped one gave
back); `MessagesAssumption` that a line is at most 512 bytes, as `check_line_and_send` sees
to, and that what wraps below 0 is more than any array; `FormatAssumption` that formats and
arguments are sequences; `CallsAssumption` that results are numbers; `CalendarAssumption`
that the clock starts in 1970 or later. `SocketsAssumption` and the first line of
`ServerAssumption` keep names apart: a connection is not the listening socket, a
chunk's address is neither nil nor that of the listening socket's entry.

**`~ EpollCtlMayFail`** is a hypothesis where the property is false without it:
`register_fails` closes a client whose `fd` and `name` are those of the chunk's last
user, so a descriptor is left open and a departure announced that did not happen (run
`stale_name`). What does not depend on it is proved without it.

**Hypotheses about the library's callers.** `Strangers = {}`: a program puts back what
`pool_get` gave it; the assertion of `pool_put` does not stop one that does not (line 96
of `pool.c`), and then none of the three holds. `SumsFit`: no sum of an arena's
address and length, two of the sizes and an alignment reaches 2^64. `SizesFit`: no product of
a length and an element size wraps to one that `max_alloc` allows (`make_slice` multiplies
before it tests), and no sum of sizes that it allows with the length of the arena wraps;
without the latter slices do overlap (run `huge_slice`). TLC evaluates both for the instance
(`SizesAssumption` in `MCLibrary`). A pool of more than a page: the server's
takes 142; when one that fits in a page is dropped its arena is gone, where `ClientPools`
has it leaked. Stamps of 12 bytes: what `StampsFit` shows of `tm_in_slice2`, 17 bytes less
the five around it. What a format names: `assert_fail`'s call is the one that passes
something else (section 5); `PrintsAssumption` in `MCLayout` evaluates the
hypothesis for the formats there are and its negation for that one.

### The pools

The inductive invariant `IInv` of the pools is the conjunction of `PoolsTypeOK`,
`FiledIffMapped`, `CountersMatchLists`, `ChunksAccounted` and `NoEmptySparePool`.
None of the parts is inductive alone: a chunk can be taken safely only if the counter
that was tested is the list's length; a pool can be dropped without losing a client
only if its lists hold no chunk but its own; shifting the array keeps `FiledIffMapped`
only if no pool is in it twice. The proof has a lemma per action (`ReuseStep`,
`GrowStep`, `KeepStep`, `DropStep`) over lemmas on sequences (`RemoveAtProperties`,
`PushProperties`, `TakeKeepsEachOnce`, `GiveKeepsEachOnce`). Since a step rewrites
the lists of one pool, `OnePoolChanged` reduces each to that pool.

`RejectOnlyWhenFull` counts: when nil is returned every pool of the array has an empty
free list, so each of its chunks is on its client list (`AllFullLive`). The live chunks
are then in bijection with the pairs of a place in the array and an index of a chunk,
and there are `max_pools * max_clients_in_pool` of those.

In the server each action calls `session_new`, `session_close_chunk` or neither
(`NextUsesPools`); the client `session_close` is called with is a chunk because the
search found it on a list (`ClosedIsChunk`).

### Sessions and their sockets

`SInv` ties the kernel's tables to the client structs. It is `IInv` with

- `KernelInv`: the accept queue holds connections that wait, each once; an open
  descriptor has a file of its own; epoll's list holds registered files, each once
  (closing a descriptor ends the registration and takes the file off the list);
- `RegisteredSessions`: the pointer a connection is registered with leads to a session
  whose `fd` is that connection's descriptor. So no pointer is stale in the kernel: to
  close a session is to close the descriptor in it, hence to end that registration;
- `MemoryInv`: in every session `buf_used` and `name_used` are within their arrays, and
  a client with a name has its NUL there;
- `ThreadInv`: the events that are left point to sessions or the listening socket, no
  two to the same, and none to the running handler's client; `name_ok` of that client
  agrees with the handler, and `off` does not pass what is filled;
- `HandlerAccepts`: between `accept4` and `epoll_ctl` the descriptor in `sock` is open,
  registered with nothing, and its session is there.

An event of a batch could point to a session that an earlier handler of the batch
closed only if two events had the same pointer, or if a handler closed a client other
than its own. Neither happens: `epoll_wait` reports a file once, two files have
different pointers (`PointersDiffer`), and handlers close `cur`. `Owned` adds that each
session's descriptor is registered with the session's address, and that every open
descriptor is a session's; it is kept as long as `register_fails` does not happen
(`OwnedInv`).

`epoll_wait` and the batch are computed by `Kept`, a recursion over the list;
`KeptProperties` in `SessionsProofs` shows what it keeps. Since the induction theorems of
the library take a predicate, `DataLemmas` has `LeastOf` (every set of numbers has a least element,
from the well-foundedness of finite subsets) and `UpTo`, which give induction over the set of
numbers for which a claim fails.

### Wakeups

`NoLostWakeup` speaks of a server in `epoll_wait`; on the way there a byte may have
arrived at a file whose edge was taken off the list earlier. `WakeInv` therefore says of
every registered file with something to read that it is `Covered`: queued in epoll,
among the events left, or read by the running handler. A handler may stop covering its
file only after a `read` that returned `EAGAIN`, which is why `session_name_read` and
`session_line_read` loop, and why the proof fails if one of them returns early.

### The room

`RoomInv` accounts for each connection by where it is: not yet in (nothing said of it),
in with or without a name, or over (`parted = arrived`). `told[s] \subseteq Members`
for an `s` that is not in `missed` needs that a departure is written to every connection
that has a session (`Writes` reaches all of them: sessions and registered connections
correspond), and that whoever loses a message is in `missed` from then on.
`LinesInv` says of each connection that was not `raced` that what was sent and what is
in `buf` is what was typed, and that what was sent ends with a line. Both are about
connections, not chunks, because a connection is never reused and a chunk is; `Owned`
makes the way from one to the other unique. `ServerIsChatRoom` maps the server's state to
the room's (`RoomSeen` relates both); a lemma per handler shows which event of the room
its step is (`Unseen` are those that are none).

### Clients in memory

`MemoryInv` says of each pool of the array that its header and clients hold two linked
lists (`PoolAt`): each chunk once, on one of them, in its own place of the arena, the
counters equal to the lengths; of each other arena that its first page is not mapped; and
that `new` and the clients in `wrote` are in use. It is inductive where `FieldsKept` alone
is not: that a push onto the free list spoils no field needs that the chunk pushed is in
no other place of either list.

The proof is in layers. Layout: the words of a client are those of no other client, header
or arena (`ClientsApart`, `ClientWords`, `ArenasApart`). Lists: `ReadsPool` shows that what
is read link by link is the list that is linked; `TakenFrom`, `GivenBack` and `NewlyMade`
what `pool_get`, `pool_put` and the loop of `pool_init` make of them. `Unlinked` covers the
four ways `session_close` takes a client out of the list (lines 139-147). Frame:
`OtherPools` and `PoolChanged` reduce a step to the pool it writes to. Then a lemma per
action, `ReuseStep` to `DropStep`. For the refinement `ChunkNames` turns addresses into
pairs of a pool and an index, and a second lemma per action shows the step of
`ClientPools` it is. So the theorems of `ClientPoolsProofs` hold of what is read from
memory: `Proved` is their instance.

### The library

- `CopyInv` splits the area in the bytes copied, which are in place (`Placed`), and the
  bytes left, which still have the value they had at the start (`Left`). For `memmove`
  towards higher addresses `Left` holds because the copy runs downwards; this is the
  conjunct a wrong direction breaks. The word loops need that both addresses are
  multiples of the word size, which is shown by lemmas about `\div` and `%`
  (`WordsAndRest`, `WordApart`, `Boundaries`).
- `PoolInv` says that the chunks lie apart in the buffer (`Slots`) and that there is a
  list of the free ones, each once, whose links are in memory (`Linked`). What
  `FreeNodes` reads is a definition over the memory; `ReadsLinks` shows that it is
  exactly that list, because the list ends at nil and is no longer than there are
  addresses (the free chunks are different addresses: a pigeonhole argument).
  So a push or a pop is a push or a pop of the list, and a holder's write, which falls
  into its own chunk, changes no link: this is what `PoolIsStack` needs.
- `GlobalInv` lays out the slices of the arena there is (`SlicesLaid`): they lie apart,
  and all but the one at `prev_offset` end before it; those of an arena that was
  replaced are left behind and no part of the layout. `LengthBound` and `OffsetsBound`
  limit the length of the arena and what is used of it by the sizes asked for: under
  `SizesFit` this is what keeps each sum the code computes from wrapping (`NotWrapped`),
  so that the offsets only grow while an arena is in use.
- `ArenaInv` (`Laid`): blocks lie apart and all but the one at `prev_off` end before
  it, so that a resize in place, which grows the last block without a check, reaches no
  other, even where it passes the end of the buffer; the next block then does not fit.
  `curr_off` is behind the end by one of the sizes at most, hence no sum wraps under
  `SumsFit` (`PlaceOfCut`). A temporary arena's offsets are laid out as well, with the
  blocks of then.
- `BInv` ties the difference of `head` and `tail` to the bytes put and not taken;
  `BytesInv` adds the mapped bytes, and that each unconsumed one is the one that was
  put in its turn, for a buffer that was not `carried`.
- `MessageInv`: what was written and the pieces still to write fit in the array together,
  so that no slice is too short; the sum is taken over the five pieces a message has at
  most. `SizesCountPieces` compares it with the sizes the code declares.
- `FormatInv`: `c_strncpy` keeps a byte for its NUL, all else stays in `Room`. For
  `ArgumentsFound` the invariant is that what is left of the arguments is what the rest
  of the format takes (`Fed`); `PassedIsFed` gets it from counting conversions.
- `CallInv` relates what the wrapper stored to what the kernel returned.

### The calendar

`CalendarInv` gives the date as a number: days since 1601 are `DayNumber(year) + yday`,
a closed form (`DaysBeforeYear` shows by induction that counting leap years comes to it),
and the month and day follow from the table. `NextDateIsDate` shows that the next date has
the next number, `HandMoves` that a day in Moscow ends when the hand goes back. Going the
other way, `YearSplit` cuts the years since 1601 into periods of 400, 100, 4 and 1, and
`PeriodsFound` shows that the quotients of `time_to_tm`, each limited to the number of
periods there are, are these, also on the last day of a leap year. `MonthFound` does the
same for the loop over the months.

### Only model-checked

All liveness: it needs fairness and ENABLED, which the prover does not do. That `Pool` and
`ClientMemory` are the same code twice, in the words of one memory each, is not stated.

## 5. Where the code and its words differ

Each is a run that TLC ends with a violation.

- `stale_name`: after a failed `epoll_ctl`, "has left the chat" is announced for the
  chunk's former user, and the new connection's descriptor stays open (line 379).
- `descriptors_out`: "Connection limit reached" is never sent when descriptors run
  out before chunks; `accept4` is retried for ever (lines 361-363).
- `slow_reader`: " has left the chat" is lost on a client whose send buffer is full; the
  client takes the one who left for a member (line 73, `ToldOnlyOfMembers`).
- `unaligned_buffer`: "Align buffer to the specified chunk alignment" (`pool.c:48`), but
  line 60 stores the start as it was given, so no chunk of an unaligned buffer is aligned.
- `huge_slice`: `max_alloc` is `1 << 31` in `int`, which is 2 GB below 2^64 as a `uint64`
  (`builtin.c:12`). Nearly every size is allowed; for the largest the sum at `arena.c:59`
  wraps, the slice is cut from an arena it is longer than, and the next lies over others.

Seen while modelling, and part of the models without a run of their own: a deleted pool
gives back one page of 142 (line 149; the comment at line 52 calls them "142 KB"), so that
its arena is `"leaked"` in `ClientPools`; the bounds assertion of `pool_put` joins its two
tests with `||` and cannot fail (`pool.c:96`, `OutOfBounds`); the message of a failed
assertion has `%ld`, which `fmt_fprintf` skips without its argument, so that the next `%s`
takes the line number for an address (`assert.c:7`; `AssertFormat` is the one format that
`PrintsAssumption` finds not passed what it names); a block that is resized in place may
pass the end of the buffer (`arena.c:84`); two reads in
one call store at the same place (`raced`); a line in the segment that carries the name
is dropped; "Line too long!" goes to clients whose lines are short but come faster than
one per event (lines 268, 274); lines left in the buffer at the end of the stream are
lost but for one; a name or buffer filled exactly closes the client without a message;
writing to a reset connection kills the server; a block of an arena is moved to nil when
there is no room; the circular buffer shows old
bytes after moving its indices back with data left (`carried`); `make_slice` leaves the
slices of a replaced arena behind and returns nil for one longer than the new arena;
`memcpy` returns a pointer it has
moved, not the destination; an error number above 133 is told as entry 133, "memory page
has hardware error", and never as "unknown error"; -4095 is taken for a result; the
comment at `time.c:25` counts 135139 days from 1601 to 1970, the code has 134774, which
is right.

## 6. Not modelled

What messages and diagnostics say, which bytes of a message that was cut short arrive,
`memequal`, `sl_to_str_new_base` and the cuts of `string`, which the
server does not use, `iovec.c` (three struct copies), which system call each wrapper
makes. The server never reads the terminal, keeps nothing on disk and sets no timer.
In `pool.c` a buffer that is shorter than the gap in front of its first boundary, whose
length would wrap, is excluded by `PoolAssumption`; the server's sizes are constants.

## 7. Plan

Done: `ClientPools`, its allocator and proofs; `Sockets`, `ChatServer` from its start,
with writes that do not fit, `ChatRoom`; `ClientMemory`; the library's memory modules, `MemoryCopy` and
`GlobalArena`; `Calendar`, `Messages`, `Format`, `SystemCalls`.

Proved: everything the runs check but liveness, the refinements included.

Next, in this order:

1. `ClientMemory` built on `Pool` and `Arena` instead of beside them, so that their
   theorems carry over and `pool.c` is in one module only.
2. Runs for the cuts of `string` and `memequal`, should the server come to use them.
