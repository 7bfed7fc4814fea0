------------------------------- MODULE Arena -------------------------------
(***************************************************************************)
(* arena.c: a buffer from which blocks are cut one behind the other.  The  *)
(* blocks a program may still use are kept as a record; all of them are    *)
(* given up with arena_free_all, and those that came after temp_arena_     *)
(* create with temp_arena_recover.                                         *)
(***************************************************************************)
EXTENDS Alignment, FiniteSets

CONSTANTS
  Base,       \* address of the buffer
  Length,     \* its length, buf_len
  Sizes,      \* sizes the program asks for
  Alignments, \* alignments the program asks for, powers of two as arena.c asserts
  none        \* no temp_arena

ASSUME ArenaAssumption ==
  /\ Base \in Nat /\ Length \in Nat
  /\ Sizes \subseteq Nat /\ Alignments \subseteq Nat \ {0}

VARIABLES
  prev_off, curr_off,  \* the offsets of struct arena
  blocks,   \* the blocks in use: where they are and how long
  temp,     \* the temp_arena, with the blocks in use when it was created
  crashed   \* memmove was called with no place to move to

arenaVars == <<prev_off, curr_off, blocks, temp, crashed>>

Block(at, size) == [at |-> at, size |-> size]
Running == ~ crashed

-----------------------------------------------------------------------------

\* Where arena_alloc_align puts a block of this alignment.
Offset(align) == Wrapped(align_forward(Wrapped(Base + curr_off), align) - Base)

NewBlock(size, align) == Block(Wrapped(Base + Offset(align)), size)

\* The sum is one of two uint64: a large size may make it small.
Fits(size, align) == Wrapped(Offset(align) + size) <= Length

Cut_PaddingForgotten(size, align) ==
  /\ prev_off' = Offset(align)
  /\ curr_off' = Wrapped(curr_off + size)
Cut(size, align) ==
  /\ prev_off' = Offset(align)
  /\ curr_off' = Wrapped(Offset(align) + size)

arena_alloc_align(size, align) ==
  /\ Running
  /\ \/ /\ Fits(size, align)
        /\ Cut(size, align)
        /\ blocks' = blocks \cup {NewBlock(size, align)}
     \/ /\ ~ Fits(size, align)   \* nil
        /\ UNCHANGED <<prev_off, curr_off, blocks>>
  /\ UNCHANGED <<temp, crashed>>

\* A block of size 0 is not resized: a new one is cut.
arena_resize_fresh(b, size, align) ==
  /\ Running /\ b.size = 0
  /\ arena_alloc_align(size, align)

\* Any other must start in the buffer: arena_resize_align asserts it.
InBuffer(b) == Base <= b.at /\ b.at < Base + Length
IsLast(b) == Wrapped(Base + prev_off) = b.at

\* The block cut last is resized where it is, whatever the size and the alignment
\* asked for, and without a check.
arena_resize_in_place(b, size) ==
  /\ Running /\ b.size # 0 /\ InBuffer(b) /\ IsLast(b)
  /\ curr_off' = Wrapped(prev_off + size)
  /\ blocks' = (blocks \ {b}) \cup {Block(b.at, size)}
  /\ UNCHANGED <<prev_off, temp, crashed>>

\* Another block is copied to a new one.  If there is no room for that, nil is
\* what memmove copies to.
arena_resize_move(b, size, align) ==
  /\ Running /\ b.size # 0 /\ InBuffer(b) /\ ~ IsLast(b)
  /\ \/ /\ Fits(size, align)
        /\ Cut(size, align)
        /\ blocks' = (blocks \ {b}) \cup {NewBlock(size, align)}
        /\ UNCHANGED crashed
     \/ /\ ~ Fits(size, align)
        /\ crashed' = (size # 0)
        /\ UNCHANGED <<prev_off, curr_off, blocks>>
  /\ UNCHANGED temp

arena_free_all ==
  /\ Running
  /\ prev_off' = 0 /\ curr_off' = 0
  /\ blocks' = {}
  /\ UNCHANGED <<temp, crashed>>

temp_arena_create ==
  /\ Running
  /\ temp' = [prev_off |-> prev_off, curr_off |-> curr_off, blocks |-> blocks]
  /\ UNCHANGED <<prev_off, curr_off, blocks, crashed>>

\* What was cut or enlarged since temp_arena_create is given up.
temp_arena_recover ==
  /\ Running /\ temp # none
  /\ prev_off' = temp.prev_off /\ curr_off' = temp.curr_off
  /\ blocks' = {b \in temp.blocks : \E live \in blocks : live.at = b.at}
  /\ UNCHANGED <<temp, crashed>>

-----------------------------------------------------------------------------

\* arena_init
ArenaInit ==
  /\ prev_off = 0 /\ curr_off = 0
  /\ blocks = {}
  /\ temp = none
  /\ crashed = FALSE

ArenaNext ==
  \/ \E size \in Sizes, align \in Alignments :
       \/ arena_alloc_align(size, align)
       \/ \E b \in blocks : \/ arena_resize_fresh(b, size, align)
                            \/ arena_resize_in_place(b, size)
                            \/ arena_resize_move(b, size, align)
  \/ arena_free_all
  \/ temp_arena_create
  \/ temp_arena_recover

ArenaSpec == ArenaInit /\ [][ArenaNext]_arenaVars

-----------------------------------------------------------------------------
(***************************************************************************)
(* Properties.                                                             *)
(***************************************************************************)

\* No sum of what the program asks for reaches 2^64.
SumsFit ==
  \A s, t \in Sizes, align \in Alignments : Base + Length + s + align + t < WordValues

\* Two blocks in use share no byte, whatever was resized, given up or recovered
\* between the calls that cut them, and although a block that is resized in place
\* (arena.c:84) may pass the end of the buffer.
BlocksDisjoint ==
  \A b, c \in blocks :
    b # c => b.at + b.size <= c.at \/ c.at + c.size <= b.at
=============================================================================
