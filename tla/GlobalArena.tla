---------------------------- MODULE GlobalArena ----------------------------
(***************************************************************************)
(* make_slice and grow_slice of builtin.c: slices cut from one arena of    *)
(* the library's own, which is replaced by one of twice its length when a  *)
(* new slice does not fit.  Addresses are offsets in the arena there is.   *)
(***************************************************************************)
EXTENDS Alignment, FiniteSets

CONSTANTS
  IntMin,        \* how far below 0 the least int lies
  page_bytes, default_alignment, threshold,
  ElementSizes,  \* type_size of the slices the program makes
  Lengths,       \* lengths and capacities it asks for
  MaxArena,      \* bound: an arena so long is not replaced any more
  MaxCap         \* bound: a slice of a larger capacity is not grown any more

ASSUME GlobalArenaAssumption ==
  /\ {IntMin, page_bytes, default_alignment, threshold} \subseteq Nat \ {0}
  /\ WordValues % page_bytes = 0
  /\ ElementSizes \subseteq Nat \ {0} /\ Lengths \subseteq Nat
  /\ {MaxArena, MaxCap} \subseteq Nat

VARIABLES
  buf_length, prev_offset, curr_offset,  \* global_arena; length 0 before it is made
  slices,   \* the slices in use: [base, len, cap, type_size]
  stopped   \* why the program ended, or "no"

globalVars == <<buf_length, prev_offset, curr_offset, slices, stopped>>

\* 1 << 31 is an int: the limit that was meant as 2 GB is 2 GB below 2^64.
max_alloc == WordValues - IntMin
rounded(size) == Wrapped((Wrapped(size - 1) \div page_bytes + 1) * page_bytes)

nowhere == -1   \* nil
left_behind == -2  \* in an arena that was replaced
SliceAt(base, len, cap, type_size) ==
  [base |-> base, len |-> len, cap |-> cap, type_size |-> type_size]
BytesOf(s) == s.base .. s.base + s.cap * s.type_size - 1

Stop(why) ==
  /\ stopped' = why
  /\ UNCHANGED <<buf_length, prev_offset, curr_offset, slices>>

-----------------------------------------------------------------------------

\* arena_alloc in an arena of length bytes used up to offset.  max_alloc admits sizes
\* with which the sum that is compared to the length wraps.
PlaceFor(mem, offset, length) ==
  LET at == align_forward(offset, default_alignment)
  IN  IF Wrapped(at + mem) <= length THEN at ELSE nowhere

Allocate(at, mem) ==
  IF at = nowhere THEN UNCHANGED <<prev_offset, curr_offset>>
  ELSE prev_offset' = at /\ curr_offset' = Wrapped(at + mem)

make_slice_stops(type_size, len, cap) ==
  /\ stopped = "no" /\ len <= cap
  /\ \/ Wrapped(type_size * cap) > max_alloc /\ Stop("panic")
     \/ buf_length = 0 /\ rounded(2 * Wrapped(type_size * cap)) = 0 /\ Stop("mmap failed")

\* There is room in the arena, which the first call makes.
make_slice_fits(type_size, len, cap) ==
  LET mem == Wrapped(type_size * cap)
      length == IF buf_length = 0 THEN rounded(2 * mem) ELSE buf_length
      at == PlaceFor(mem, curr_offset, length)
  IN  /\ stopped = "no" /\ len <= cap /\ mem <= max_alloc
      /\ length # 0 /\ at # nowhere
      /\ buf_length' = length
      /\ Allocate(at, mem)
      /\ slices' = slices \cup {SliceAt(at, len, cap, type_size)}
      /\ UNCHANGED stopped

\* There is none: the arena is replaced and used from its start, and the slices
\* of the old one are left behind.  A slice that is longer than the new arena is
\* at nil.
LeftBehind(s) == IF s.base = nowhere THEN s ELSE [s EXCEPT !.base = left_behind]
make_slice_moves(type_size, len, cap) ==
  LET mem == Wrapped(type_size * cap)
      length == rounded(2 * buf_length)
      at == PlaceFor(mem, 0, length)
  IN  /\ stopped = "no" /\ len <= cap /\ mem <= max_alloc
      /\ buf_length \in 1 .. MaxArena - 1
      /\ PlaceFor(mem, curr_offset, buf_length) = nowhere
      /\ buf_length' = length
      /\ IF at = nowhere THEN prev_offset' = 0 /\ curr_offset' = 0 ELSE Allocate(at, mem)
      /\ slices' = {LeftBehind(s) : s \in slices} \cup {SliceAt(at, len, cap, type_size)}
      /\ UNCHANGED stopped

-----------------------------------------------------------------------------

\* Growth by a quarter and three quarters of the threshold at a time.
LargerCap(new_len, old_cap) ==
  LET larger[cap \in Nat] ==
        LET next == Wrapped(cap + Wrapped(cap + 3 * threshold) \div 4)
        IN  IF next < cap THEN new_len
            ELSE IF next >= new_len THEN next
            ELSE larger[next]
  IN  larger[old_cap]
new_slice_cap(new_len, old_cap) ==
  IF new_len > Wrapped(2 * old_cap) THEN new_len
  ELSE IF old_cap < threshold THEN Wrapped(2 * old_cap)
  ELSE LargerCap(new_len, old_cap)

MemAfter(s, new_len) == Wrapped(new_slice_cap(new_len, s.cap) * s.type_size)

\* arena_resize asserts that the slice starts in the arena; one that was left behind is
\* in none.
StartsInArena(s) == s.base \in 0 .. buf_length - 1
grow_slice_stops(s, new_len) ==
  \/ MemAfter(s, new_len) > max_alloc /\ Stop("panic")
  \/ /\ MemAfter(s, new_len) <= max_alloc
     /\ s.cap # 0 /\ s.base # nowhere /\ ~ StartsInArena(s)
     /\ Stop("assertion")

Grown(s, base, new_len) ==
  slices' = (slices \ {s}) \cup
            {SliceAt(base, new_len, new_slice_cap(new_len, s.cap), s.type_size)}

IsCutLast_Ignored(s) == s.base # nowhere
IsCutLast(s) == s.base = prev_offset

\* The slice cut last is made longer where it is, without a check.
grow_slice_in_place(s, new_len) ==
  /\ MemAfter(s, new_len) <= max_alloc
  /\ s.cap # 0 /\ StartsInArena(s) /\ IsCutLast(s)
  /\ curr_offset' = Wrapped(prev_offset + MemAfter(s, new_len))
  /\ Grown(s, s.base, new_len)
  /\ UNCHANGED <<buf_length, prev_offset, stopped>>

\* Any other is moved.  What is copied from nil or to nil ends the program.
grow_slice_moves(s, new_len) ==
  LET at == PlaceFor(MemAfter(s, new_len), curr_offset, buf_length)
  IN  /\ MemAfter(s, new_len) <= max_alloc
      /\ s.base = nowhere \/ s.cap = 0 \/ (StartsInArena(s) /\ ~ IsCutLast(s))
      /\ IF IF s.base = nowhere THEN at # nowhere /\ s.len # 0
            ELSE at = nowhere /\ s.cap # 0
         THEN Stop("crash")
         ELSE /\ Allocate(at, MemAfter(s, new_len))
              /\ Grown(s, at, new_len)
              /\ UNCHANGED <<buf_length, stopped>>

grow_slice(s, new_len) ==
  /\ stopped = "no"
  /\ new_len >= s.len /\ s.cap <= MaxCap
  /\ \/ grow_slice_stops(s, new_len)
     \/ grow_slice_in_place(s, new_len)
     \/ grow_slice_moves(s, new_len)

-----------------------------------------------------------------------------

GlobalInit ==
  /\ buf_length = 0 /\ prev_offset = 0 /\ curr_offset = 0
  /\ slices = {}
  /\ stopped = "no"

GlobalNext ==
  \/ \E type_size \in ElementSizes, len, cap \in Lengths :
       \/ make_slice_stops(type_size, len, cap)
       \/ make_slice_fits(type_size, len, cap)
       \/ make_slice_moves(type_size, len, cap)
  \/ \E s \in slices, new_len \in Lengths : grow_slice(s, new_len)

GlobalSpec == GlobalInit /\ [][GlobalNext]_globalVars

-----------------------------------------------------------------------------

\* The sizes that are allowed of those the program asks for and those growth comes to.
SizesAsked == {Wrapped(type_size * cap) : type_size \in ElementSizes, cap \in Lengths}
SizesGrownTo ==
  {Wrapped(new_slice_cap(new_len, old_cap) * type_size) :
     new_len \in Lengths, old_cap \in 0 .. MaxCap, type_size \in ElementSizes}
Allowed == {mem \in SizesAsked \cup SizesGrownTo : mem <= max_alloc}

\* No product that is tested against max_alloc has wrapped to a size that is allowed (the
\* code multiplies first), and no sum with sizes that are allowed wraps.
SizesFit ==
  /\ \A type_size \in ElementSizes, cap \in Lengths :
       Wrapped(type_size * cap) <= max_alloc => Wrapped(type_size * cap) = type_size * cap
  /\ \A type_size \in ElementSizes, new_len \in Lengths, old_cap \in 0 .. MaxCap :
       LET cap == new_slice_cap(new_len, old_cap)
       IN  /\ cap \in Nat
           /\ Wrapped(cap * type_size) <= max_alloc => Wrapped(cap * type_size) = cap * type_size
  /\ \A a, b, c \in Allowed :
       2 * (MaxArena + a) + page_bytes + b + default_alignment + c < WordValues

InArena == {s \in slices : s.base \notin {nowhere, left_behind}}

\* Slices of the arena there is (builtin.c:326-423) share no byte up to their
\* capacities, whichever of them grew in place or was moved and however often the
\* arena was replaced.
SlicesApart ==
  \A s, other \in InArena : s # other => BytesOf(s) \cap BytesOf(other) = {}
=============================================================================
