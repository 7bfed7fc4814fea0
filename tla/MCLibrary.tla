----------------------------- MODULE MCLibrary -----------------------------
(***************************************************************************)
(* Small instances of the modules of the library: a program that uses one  *)
(* of them, whichever.                                                     *)
(***************************************************************************)
EXTENDS Calendar, Pool, Arena, CircularBuffer, GlobalArena, MemoryCopy

CONSTANTS
  MaxBlocks,  \* bound: blocks of the arena in use at a time
  MaxSlices,  \* bound: slices of the global arena in use at a time
  SumsMayWrap \* sizes are asked for with which sums wrap

VARIABLE inUse

\* Chunks of 2 to 4 bytes, up to four of them, in buffers that start at an aligned
\* address and in others.
ManyRequests ==
  {<<0, 8, 2, 1>>, <<3, 7, 3, 1>>, <<4, 9, 2, 2>>, <<2, 9, 3, 2>>, <<4, 12, 3, 4>>,
   <<3, 10, 2, 4>>, <<3, 10, 4, 2>>}
OneRequest == <<4, 12, 3, 4>>
NoStrangers == {}

\* An hour by day; the last second of Moscow's day and the first of the next.
AroundMidnight == {3661, 75599, 75600}

\* Where no sum is meant to wrap, none does; products do, but to nothing that is allowed.
ASSUME SizesAssumption == SumsMayWrap \/ (SizesFit /\ SumsFit)

LibraryInit ==
  /\ inUse \in {"clock", "pool", "arena", "buffer", "slices", "copy"}
  /\ CalendarInit /\ (inUse # "clock" => date.year = FirstYear)
  /\ PoolInit   /\ (inUse # "pool" => asked = OneRequest)
  /\ ArenaInit
  /\ BufferInit
  /\ GlobalInit
  /\ CopyInit   /\ (inUse # "copy" => asked_copy = [dst |-> 0, src |-> 0, length |-> 0])

LibraryNext ==
  /\ UNCHANGED inUse
  /\ \/ inUse = "clock"  /\ Tick       /\ UNCHANGED <<poolVars, arenaVars, bufferVars, globalVars, copyVars>>
     \/ inUse = "pool"    /\ PoolNext   /\ UNCHANGED <<calendarVars, arenaVars, bufferVars, globalVars, copyVars>>
     \/ inUse = "arena"   /\ ArenaNext  /\ UNCHANGED <<calendarVars, poolVars, bufferVars, globalVars, copyVars>>
     \/ inUse = "buffer"  /\ BufferNext /\ UNCHANGED <<calendarVars, poolVars, arenaVars, globalVars, copyVars>>
     \/ inUse = "slices"  /\ GlobalNext /\ UNCHANGED <<calendarVars, poolVars, arenaVars, bufferVars, copyVars>>
     \/ inUse = "copy"    /\ CopyNext   /\ UNCHANGED <<calendarVars, poolVars, arenaVars, bufferVars, globalVars>>

LibrarySpec ==
  LibraryInit /\ [][LibraryNext]_<<calendarVars, poolVars, arenaVars, bufferVars, globalVars, copyVars, inUse>>

FewInUse == Cardinality(blocks) <= MaxBlocks /\ Cardinality(slices) <= MaxSlices
=============================================================================
