----------------------------- MODULE MemoryCopy -----------------------------
(***************************************************************************)
(* memcpy of builtin.c, which is also its memmove: bytes until source and  *)
(* destination are aligned, whole words, then the bytes that are left;     *)
(* upwards when the destination lies below the source and downwards when   *)
(* it lies above, so that the two may overlap.  Each byte of the memory is *)
(* known by the address it had when memcpy was called.                     *)
(***************************************************************************)
EXTENDS Integers

CONSTANTS
  Space,  \* bound: the addresses of the modelled memory are 0 .. Space-1
  wsize   \* sizeof(word)

ASSUME CopyAssumption == Space \in Nat /\ wsize \in Nat \ {0}

VARIABLES
  cells,               \* cells[a]: the byte at address a
  to, from, length, t, \* dst, src, length and t of memcpy
  at,                  \* where memcpy is
  asked_copy           \* the arguments memcpy was called with

copyVars == <<cells, to, from, length, t, at, asked_copy>>

CopyAddress == 0 .. Space - 1

-----------------------------------------------------------------------------

Forward_Always == TRUE
\* The areas may overlap: the copy runs away from the overlap.
Forward == asked_copy.dst < asked_copy.src

LowBitsDiffer == from % wsize # to % wsize
BothAligned == from % wsize = 0 /\ to % wsize = 0

TooShortToAlign == IF Forward THEN length < wsize ELSE length <= wsize
ToBoundary_SameBothWays == from % wsize
ToBoundary == IF Forward THEN wsize - (from % wsize) ELSE from % wsize

\* The bytes to copy one at a time at the end the copy starts at, all of them when
\* the operands cannot be aligned.
BytesToAlign ==
  CASE BothAligned -> 0
    [] ~ BothAligned /\ (LowBitsDiffer \/ TooShortToAlign) -> length
    [] OTHER -> ToBoundary

\* n bytes are read, then written; the pointers move behind them or in front.
Move(n) ==
  LET d == IF Forward THEN to ELSE to - n
      s == IF Forward THEN from ELSE from - n
  IN  /\ cells' = [a \in CopyAddress |->
                     IF a \in d .. d + n - 1 THEN cells[a - d + s] ELSE cells[a]]
      /\ to'   = IF Forward THEN to + n ELSE d
      /\ from' = IF Forward THEN from + n ELSE s

\* length = 0 or dst = src: nothing to do.
copy_nothing ==
  /\ at = "call"
  /\ length = 0 \/ to = from
  /\ at' = "done"
  /\ UNCHANGED <<cells, to, from, length, t, asked_copy>>

\* A copy downwards starts at the ends.
copy_start ==
  /\ at = "call"
  /\ length # 0 /\ to # from
  /\ IF Forward THEN UNCHANGED <<to, from>>
     ELSE to' = to + length /\ from' = from + length
  /\ at' = "align"
  /\ UNCHANGED <<cells, length, t, asked_copy>>

copy_align ==
  /\ at = "align"
  /\ t' = BytesToAlign
  /\ length' = length - t'
  /\ at' = "head"
  /\ UNCHANGED <<cells, to, from, asked_copy>>

copy_byte ==
  /\ at \in {"head", "tail"}
  /\ t > 0
  /\ Move(1)
  /\ t' = t - 1
  /\ UNCHANGED <<length, at, asked_copy>>

copy_word ==
  /\ at = "words"
  /\ t > 0
  /\ Move(wsize)
  /\ t' = t - 1
  /\ UNCHANGED <<length, at, asked_copy>>

\* The next loop, once the one before has come to its end.
copy_next_loop ==
  /\ t = 0
  /\ \/ at = "head"  /\ at' = "words" /\ t' = length \div wsize
     \/ at = "words" /\ at' = "tail"  /\ t' = length % wsize
     \/ at = "tail"  /\ at' = "done"  /\ t' = t
  /\ UNCHANGED <<cells, to, from, length, asked_copy>>

-----------------------------------------------------------------------------

\* Two areas of n bytes inside of the memory, which may overlap.
Calls == {c \in [dst : CopyAddress, src : CopyAddress, length : 0 .. Space] :
            c.dst + c.length <= Space /\ c.src + c.length <= Space}

CopyInit ==
  /\ asked_copy \in Calls
  /\ cells = [a \in CopyAddress |-> a]
  /\ to = asked_copy.dst /\ from = asked_copy.src /\ length = asked_copy.length
  /\ t = 0
  /\ at = "call"

CopyNext ==
  \/ copy_nothing \/ copy_start \/ copy_align
  \/ copy_byte \/ copy_word \/ copy_next_loop

CopySpec == CopyInit /\ [][CopyNext]_copyVars

-----------------------------------------------------------------------------
(***************************************************************************)
(* Properties.                                                             *)
(***************************************************************************)

\* What a copy of all bytes at once leaves behind.
AtOnce(c) ==
  [a \in CopyAddress |-> IF a \in c.dst .. c.dst + c.length - 1 THEN a - c.dst + c.src ELSE a]

\* However the two areas overlap and wherever they start, memcpy leaves what a
\* copy of all bytes at once would: check_line_and_send moves the rest of its
\* buffer to the front with it (chat_server.c:118).
CopiedAtOnce == at = "done" => cells = AtOnce(asked_copy)

\* Words are read and written at multiples of their size only ("Try to align
\* operands", builtin.c:32).
WordsAligned == at = "words" /\ t > 0 => BothAligned
=============================================================================
