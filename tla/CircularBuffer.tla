--------------------------- MODULE CircularBuffer ---------------------------
(***************************************************************************)
(* buffer.c: 2 * size bytes from one anonymous mapping, of which size are  *)
(* in use.  A program puts bytes into remaining_slice and calls produce,   *)
(* takes them from unconsumed_slice and calls consume.  The bytes it puts  *)
(* are numbered here in the order they come.                               *)
(***************************************************************************)
EXTENDS Integers, Sequences

CONSTANTS
  cb_size,     \* what new_circular_buffer is given
  MaxBytes  \* bound: bytes the program puts

ASSUME BufferAssumption ==
  /\ cb_size \in Nat \ {0}
  /\ MaxBytes \in Nat

VARIABLES
  cb_buf, cb_head, cb_tail,  \* the fields of circular_buffer
  put,      \* how many bytes were put
  taken,    \* how many of them were consumed or given up by reset
  carried   \* consume moved cb_head and cb_tail back while bytes were left

bufferVars == <<cb_buf, cb_head, cb_tail, put, taken, carried>>

-----------------------------------------------------------------------------

\* cb->len is 2 * cb_size throughout.
unconsumed_len == cb_tail - cb_head
remaining_space == cb_size - (cb_tail - cb_head)

\* The positions of remaining_slice and of unconsumed_slice, counted from 0.
remaining_slice == cb_tail .. cb_head + cb_size - 1
unconsumed_slice == cb_head .. cb_tail - 1

\* The program fills the first n bytes of remaining_slice and calls produce.
produce(n) ==
  /\ n \in 1 .. remaining_space
  /\ put + n <= MaxBytes
  /\ cb_buf' = [i \in DOMAIN cb_buf |->
               IF i \in cb_tail .. cb_tail + n - 1 THEN put + 1 + (i - cb_tail) ELSE cb_buf[i]]
  /\ cb_tail' = cb_tail + n
  /\ put' = put + n
  /\ UNCHANGED <<cb_head, taken, carried>>

Wrap_AtTheMiddle(n) ==
  /\ cb_head' = IF cb_head + n >= cb_size THEN cb_head + n - cb_size ELSE cb_head + n
  /\ cb_tail' = IF cb_head + n >= cb_size THEN cb_tail - cb_size ELSE cb_tail
Wrap_TooLate(n) ==
  /\ cb_head' = IF cb_head + n > 2 * cb_size THEN cb_head + n - cb_size ELSE cb_head + n
  /\ cb_tail' = IF cb_head + n > 2 * cb_size THEN cb_tail - cb_size ELSE cb_tail
\* Past the middle of the mapping both indices go back by half of it; the bytes
\* stay where they are.
Wrap(n) ==
  /\ cb_head' = IF cb_head + n > cb_size THEN cb_head + n - cb_size ELSE cb_head + n
  /\ cb_tail' = IF cb_head + n > cb_size THEN cb_tail - cb_size ELSE cb_tail

\* The program has dealt with the first n bytes of unconsumed_slice.
consume(n) ==
  /\ n \in 1 .. unconsumed_len
  /\ Wrap(n)
  /\ taken' = taken + n
  /\ carried' = (n < unconsumed_len /\ (carried \/ cb_head + n > cb_size))
  /\ UNCHANGED <<cb_buf, put>>

reset ==
  /\ cb_head' = 0 /\ cb_tail' = 0
  /\ taken' = put
  /\ carried' = FALSE
  /\ UNCHANGED <<cb_buf, put>>

-----------------------------------------------------------------------------

\* new_circular_buffer: mmap gives zeroed memory.
BufferInit ==
  /\ cb_buf = [i \in 0 .. 2 * cb_size - 1 |-> 0]
  /\ cb_head = 0 /\ cb_tail = 0
  /\ put = 0 /\ taken = 0
  /\ carried = FALSE

BufferNext ==
  \/ \E n \in 1 .. 2 * cb_size : produce(n) \/ consume(n)
  \/ reset

BufferSpec == BufferInit /\ [][BufferNext]_bufferVars

-----------------------------------------------------------------------------
(***************************************************************************)
(* Properties.                                                             *)
(***************************************************************************)

\* Neither slice reaches out of the mapping, however produce and consume alternate.
SlicesInMapping ==
  /\ 0 <= cb_head /\ cb_head <= cb_tail /\ cb_tail <= 2 * cb_size
  /\ cb_head + cb_size <= 2 * cb_size

\* The lengths say how much was put and not taken, and that it is at most cb_size.
LengthsCount ==
  /\ unconsumed_len = put - taken
  /\ remaining_space = cb_size - (put - taken)
  /\ put - taken <= cb_size

\* What is unconsumed is there to be read, in the order it was put.
UnconsumedIsThere ==
  \A i \in 1 .. put - taken : cb_buf[cb_head + i - 1] = taken + i

\* It is, as long as no consume moved the indices back with bytes left over.
UnconsumedUnlessCarried == carried \/ UnconsumedIsThere
=============================================================================
