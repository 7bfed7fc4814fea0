------------------------------ MODULE FreeList ------------------------------
(***************************************************************************)
(* What pool.c promises: a stack of free chunks.  A chunk is handed out    *)
(* once until it is put back, and what its holder writes there changes     *)
(* nothing.  This is the free list ClientPools builds on.                  *)
(***************************************************************************)
EXTENDS Naturals, SequencesExt

CONSTANT Address

VARIABLES
  list,  \* the free chunks, the next one to hand out first
  held   \* the chunks handed out

Init == /\ list \in Seq(Address) /\ IsInjective(list)
        /\ held = {}

Get == /\ list # <<>>
       /\ list' = Tail(list)
       /\ held' = held \cup {Head(list)}

Put(c) == /\ c \in held
          /\ list' = <<c>> \o list
          /\ held' = held \ {c}

Next == Get \/ \E c \in held : Put(c)

Spec == Init /\ [][Next]_<<list, held>>
=============================================================================
