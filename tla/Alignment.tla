----------------------------- MODULE Alignment -----------------------------
(***************************************************************************)
(* uint64 sums, and align_forward, of which arena.c and pool.c each have a *)
(* copy.                                                                   *)
(***************************************************************************)
EXTENDS Integers

CONSTANT WordValues  \* values of an uint64, which addresses and sizes are

ASSUME WordAssumption == WordValues \in Nat \ {0}

Wrapped(x) == x % WordValues

\* align is a power of two, as the assertion there demands.
align_forward(ptr, align) ==
  LET modulo == ptr % align
  IN  IF modulo # 0 THEN Wrapped(ptr + (align - modulo)) ELSE ptr
=============================================================================
