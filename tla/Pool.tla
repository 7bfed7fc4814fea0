-------------------------------- MODULE Pool --------------------------------
(***************************************************************************)
(* pool.c down to the addresses: a buffer cut into chunks of one size, the *)
(* free ones linked through their own first words.  The program that uses  *)
(* the pool writes what it likes into the chunks it holds, and a chunk it  *)
(* puts back is linked over what it wrote.                                 *)
(***************************************************************************)
EXTENDS Alignment, FiniteSets, SequencesExt, Lists

CONSTANTS
  Memory,     \* size of the modelled memory: its addresses are 0 .. Memory-1
  node_size,  \* sizeof(free_node)
  Requests,   \* <<buf, buf_len, chunk_size, chunk_align>> pool_init may be given
  Strangers,  \* addresses outside of the buffer a program may put back by mistake
  nil

ASSUME PoolAssumption ==
  /\ Memory \in 0 .. WordValues - 1 /\ node_size \in Nat \ {0}
  /\ Requests \subseteq Nat \X Nat \X (Nat \ {0}) \X (Nat \ {0})
  \* the buffer is part of the memory, and a chunk is left when it is aligned
  /\ \A r \in Requests : r[1] + r[2] <= Memory /\ r[2] >= r[3] + 2 * r[4]
  /\ Strangers \subseteq 0 .. Memory - node_size
  /\ nil \notin 0 .. Memory - 1

VARIABLES
  buf, buf_len, chunk_size, head,  \* the fields of struct pool
  word,     \* word[a]: what a program reads as a free_node at address a
  held,     \* the chunks the program holds
  asked,    \* the request pool_init was given
  failed    \* an assertion failed: int3 stopped the program

poolVars == <<buf, buf_len, chunk_size, head, word, held, asked, failed>>

Address == 0 .. Memory - 1

-----------------------------------------------------------------------------

\* What is read as a link after n bytes at a were overwritten: data, wherever a
\* byte is shared.
Overwritten(a, n) ==
  [x \in Address |-> IF x < a + n /\ a < x + node_size THEN "data" ELSE word[x]]

chunkc_RoundedUp(len, size) == (len + size - 1) \div size
chunkc(len, size) == len \div size

\* The loop of pool_free_all pushes the chunks in the order of their addresses.
FreeAll(start, len, size) ==
  [x \in Address |->
     IF \E i \in 0 .. chunkc(len, size) - 1 : x = start + i * size
     THEN IF x = start THEN nil ELSE x - size
     ELSE "data"]

ChunkSize_AsAsked(r) == r[3]
ChunkSize(r) == align_forward(r[3], r[4])

\* A request pool_init's assertions let pass.  The start of the buffer is aligned
\* to compute buf_len; p->buf is the start as it was given.
pool_init(r) ==
  /\ buf = r[1]
  /\ buf_len = r[2] - (align_forward(r[1], r[4]) - r[1])
  /\ chunk_size = ChunkSize(r)
  /\ chunk_size >= node_size
  /\ buf_len >= chunk_size
  /\ word = FreeAll(buf, buf_len, chunk_size)
  /\ head = buf + (chunkc(buf_len, chunk_size) - 1) * chunk_size

pool_get ==
  /\ ~ failed /\ head # nil
  /\ head' = word[head]
  /\ held' = held \cup {head}
  /\ UNCHANGED <<buf, buf_len, chunk_size, word, asked, failed>>

\* No chunk is left: nil is returned.
pool_get_nil ==
  /\ ~ failed /\ head = nil
  /\ UNCHANGED poolVars

\* The test of the assertion in pool_put, as it is written there.
OutOfBounds(ptr) == ~ (buf <= ptr \/ ptr < buf + buf_len)

Push_LinkForgotten(ptr) == UNCHANGED word
Push(ptr) == word' = [Overwritten(ptr, node_size) EXCEPT ![ptr] = head]

pool_put(ptr) ==
  /\ ~ failed
  /\ \/ /\ OutOfBounds(ptr)
        /\ failed' = TRUE
        /\ UNCHANGED <<head, word, held>>
     \/ /\ ~ OutOfBounds(ptr)
        /\ Push(ptr)
        /\ head' = ptr
        /\ held' = held \ {ptr}
        /\ UNCHANGED failed
  /\ UNCHANGED <<buf, buf_len, chunk_size, asked>>

\* The program writes into a chunk it holds, as much as it asked for.
Use(c) ==
  /\ ~ failed
  /\ word' = Overwritten(c, asked[3])
  /\ UNCHANGED <<buf, buf_len, chunk_size, head, held, asked, failed>>

-----------------------------------------------------------------------------

PoolInit ==
  /\ asked \in Requests
  /\ pool_init(asked)
  /\ held = {}
  /\ failed = FALSE

PoolNext ==
  \/ pool_get \/ pool_get_nil
  \/ \E c \in held : pool_put(c) \/ Use(c)
  \/ \E a \in Strangers : pool_put(a)

PoolSpec == PoolInit /\ [][PoolNext]_poolVars

-----------------------------------------------------------------------------
(***************************************************************************)
(* Properties.                                                             *)
(***************************************************************************)

\* The free list as it is read from memory, from p->head on.
most == Memory \div node_size
FreeNodes == ListFrom(head, word, most)
Chunks == ToSet(FreeNodes) \cup held

\* All chunks lie in the buffer the program gave, and none of them shares a byte
\* with another: neither links nor clients' data go past the end of the buffer.
ChunksInBuffer ==
  \A c \in Chunks :
    /\ asked[1] <= c /\ c + asked[3] <= asked[1] + asked[2]
    /\ \A d \in Chunks : c < d => c + asked[3] <= d

\* All chunks lie as far from an aligned address as the buffer the program gave does,
\* which pool.c:60 stores: one whose start is aligned has aligned chunks only, whatever
\* the size of a chunk, and another none.
ChunksLikeBuffer == \A c \in Chunks : c % asked[4] = asked[1] % asked[4]

\* Every chunk is aligned as pool_init was asked to align it: "Align buffer to the
\* specified chunk alignment" (comment at pool.c:48).
ChunksAligned == \A c \in Chunks : c % asked[4] = 0

\* The free list read from memory is a stack of chunks nobody holds, whatever the
\* program writes into its own and in whatever order it puts them back.
Stack == INSTANCE FreeList WITH list <- FreeNodes
StackSpec == Stack!Spec
=============================================================================
