---------------------------- MODULE LibraryProofs ----------------------------
(***************************************************************************)
(* Proofs about what the library and the server keep in buffers of a fixed *)
(* size, for every size: the circular buffer, the copies of memcpy and     *)
(* memmove, the arrays of the messages and of formatted output, the text   *)
(* of a time; and about the date of a time and the results of system       *)
(* calls.                                                                  *)
(***************************************************************************)
EXTENDS CircularBuffer, MemoryCopy, Messages, Format, SystemCalls, Calendar, DataLemmas

-----------------------------------------------------------------------------
(***************************************************************************)
(* CircularBuffer, for every size and any number of bytes.                 *)
(***************************************************************************)

\* The inductive invariant: SlicesInMapping says where the two indices may be,
\* and only together with it LengthsCount survives a consume that moves both back.
BInv ==
  /\ cb_head \in Int /\ cb_tail \in Int /\ put \in Int /\ taken \in Int
  /\ SlicesInMapping
  /\ LengthsCount

\* A new buffer is empty.
LEMMA InitBInv == BufferInit => BInv
BY BufferAssumption DEF BufferInit, BInv, SlicesInMapping, LengthsCount,
                        unconsumed_len, remaining_space

\* produce keeps to the space that remains.
LEMMA ProduceStep ==
  ASSUME BInv, NEW m \in 1 .. 2 * cb_size, produce(m)
  PROVE  BInv'
<1>1. m \in Int /\ 1 <= m /\ m <= cb_size - (cb_tail - cb_head)
  BY BufferAssumption DEF produce, remaining_space, BInv
<1>2. cb_head' = cb_head /\ cb_tail' = cb_tail + m /\ put' = put + m /\ taken' = taken
  BY DEF produce
<1> QED
  BY <1>1, <1>2, BufferAssumption
  DEF BInv, SlicesInMapping, LengthsCount, unconsumed_len, remaining_space

\* consume keeps cb_head in the first half, and both slices behind it in the mapping.
LEMMA ConsumeStep ==
  ASSUME BInv, NEW m \in 1 .. 2 * cb_size, consume(m)
  PROVE  BInv'
<1>1. m \in Int /\ 1 <= m /\ m <= cb_tail - cb_head
  BY BufferAssumption DEF consume, unconsumed_len, BInv
<1>2. put' = put /\ taken' = taken + m
  BY DEF consume
<1>3. CASE cb_head + m > cb_size
  <2>1. cb_head' = cb_head + m - cb_size /\ cb_tail' = cb_tail - cb_size
    BY <1>3 DEF consume, Wrap
  <2> QED
    BY <1>1, <1>2, <1>3, <2>1, BufferAssumption
    DEF BInv, SlicesInMapping, LengthsCount, unconsumed_len, remaining_space
<1>4. CASE ~ (cb_head + m > cb_size)
  <2>1. cb_head' = cb_head + m /\ cb_tail' = cb_tail
    BY <1>4 DEF consume, Wrap
  <2> QED
    BY <1>1, <1>2, <1>4, <2>1, BufferAssumption
    DEF BInv, SlicesInMapping, LengthsCount, unconsumed_len, remaining_space
<1> QED  BY <1>3, <1>4

\* Every step keeps the invariant.
LEMMA NextBInv == BInv /\ [BufferNext]_bufferVars => BInv'
<1> SUFFICES ASSUME BInv, [BufferNext]_bufferVars PROVE BInv'
  OBVIOUS
<1>1. CASE reset
  BY <1>1, BufferAssumption
  DEF reset, BInv, SlicesInMapping, LengthsCount, unconsumed_len, remaining_space
<1>2. CASE UNCHANGED bufferVars
  BY <1>2 DEF bufferVars, BInv, SlicesInMapping, LengthsCount, unconsumed_len, remaining_space
<1> QED  BY <1>1, <1>2, ProduceStep, ConsumeStep DEF BufferNext

\* However produce and consume alternate, no slice leaves the mapping, and the
\* lengths say what is put and not taken: slice_left_right's assertion never fails
\* in remaining_slice.
THEOREM BufferBounds == BufferSpec => [](SlicesInMapping /\ LengthsCount)
<1>1. BInv => SlicesInMapping /\ LengthsCount
  BY DEF BInv
<1> QED  BY <1>1, InitBInv, NextBInv, PTL DEF BufferSpec

-----------------------------------------------------------------------------
(***************************************************************************)
(* The bytes.  A consume that moves the indices back leaves the bytes      *)
(* where they were: what is unconsumed is read right only if none was left *)
(* over then.                                                              *)
(***************************************************************************)

\* The inductive invariant, on top of BInv.
BytesInv ==
  /\ cb_buf \in [0 .. 2 * cb_size - 1 -> Int]
  /\ carried \in BOOLEAN
  /\ UnconsumedUnlessCarried

\* Nothing is unconsumed in a new buffer.
LEMMA InitBytes == BufferInit => BytesInv
<1> SUFFICES ASSUME BufferInit PROVE BytesInv
  OBVIOUS
<1>1. cb_buf \in [0 .. 2 * cb_size - 1 -> Int]
  BY DEF BufferInit
<1>2. \A i \in 1 .. put - taken : FALSE
  BY DEF BufferInit
<1>3. carried \in BOOLEAN
  BY DEF BufferInit
<1> QED  BY <1>1, <1>2, <1>3 DEF BytesInv, UnconsumedUnlessCarried, UnconsumedIsThere

\* produce puts the bytes that come next behind those that are there.
LEMMA ProduceBytes ==
  ASSUME BInv, BytesInv, NEW m \in 1 .. 2 * cb_size, produce(m)
  PROVE  BytesInv'
<1>1. /\ m \in Int /\ 1 <= m /\ m <= cb_size - (cb_tail - cb_head)
      /\ cb_head' = cb_head /\ put' = put + m /\ taken' = taken /\ carried' = carried
  BY BufferAssumption DEF produce, remaining_space, BInv
<1>2. cb_buf' = [i \in 0 .. 2 * cb_size - 1 |->
        IF i \in cb_tail .. cb_tail + m - 1 THEN put + 1 + (i - cb_tail) ELSE cb_buf[i]]
  BY DEF produce, BytesInv
<1>3. /\ cb_head \in Int /\ cb_tail \in Int /\ put \in Int /\ taken \in Int /\ cb_size \in Nat
      /\ 0 <= cb_head /\ cb_head <= cb_size /\ cb_tail - cb_head = put - taken
  BY BufferAssumption DEF BInv, SlicesInMapping, LengthsCount, unconsumed_len
<1>4. cb_buf' \in [0 .. 2 * cb_size - 1 -> Int]
  BY <1>1, <1>2, <1>3 DEF BytesInv
<1>5. ASSUME UnconsumedIsThere, NEW i \in 1 .. put' - taken'
      PROVE  cb_buf'[cb_head' + i - 1] = taken' + i
  <2>1. cb_head + i - 1 \in 0 .. 2 * cb_size - 1
    BY <1>1, <1>3
  <2>2. CASE i <= put - taken
    <3>1. i \in 1 .. put - taken /\ cb_head + i - 1 \notin cb_tail .. cb_tail + m - 1
      BY <1>1, <1>3, <2>2
    <3> QED  BY <1>1, <1>2, <1>5, <2>1, <3>1 DEF UnconsumedIsThere
  <2>3. CASE ~ (i <= put - taken)
    <3>1. cb_head + i - 1 \in cb_tail .. cb_tail + m - 1
      BY <1>1, <1>3, <2>3
    <3> QED  BY <1>1, <1>2, <1>3, <2>1, <3>1
  <2> QED  BY <2>2, <2>3
<1> QED
  BY <1>1, <1>4, <1>5 DEF BytesInv, UnconsumedUnlessCarried, UnconsumedIsThere

\* consume takes bytes from the front of those that are there.
LEMMA ConsumeBytes ==
  ASSUME BInv, BytesInv, NEW m \in 1 .. 2 * cb_size, consume(m)
  PROVE  BytesInv'
<1>1. /\ m \in Int /\ 1 <= m /\ m <= cb_tail - cb_head
      /\ put' = put /\ taken' = taken + m /\ cb_buf' = cb_buf
      /\ carried' = (m < cb_tail - cb_head /\ (carried \/ cb_head + m > cb_size))
  BY BufferAssumption DEF consume, unconsumed_len, BInv
<1>2. /\ cb_head \in Int /\ cb_tail \in Int /\ put \in Int /\ taken \in Int /\ cb_size \in Nat
      /\ cb_tail - cb_head = put - taken
  BY BufferAssumption DEF BInv, LengthsCount, unconsumed_len
<1>3. CASE m = cb_tail - cb_head
  <2>1. \A i \in 1 .. put' - taken' : FALSE
    BY <1>1, <1>2, <1>3
  <2> QED  BY <1>1, <2>1 DEF BytesInv, UnconsumedUnlessCarried, UnconsumedIsThere
<1>4. CASE m # cb_tail - cb_head /\ (carried \/ cb_head + m > cb_size)
  <2>1. m < cb_tail - cb_head
    BY <1>1, <1>2, <1>4
  <2>2. carried' = TRUE
    BY <1>1, <1>4, <2>1
  <2> QED  BY <1>1, <2>2 DEF BytesInv, UnconsumedUnlessCarried
<1>5. CASE ~ carried /\ ~ (cb_head + m > cb_size)
  <2>1. cb_head' = cb_head + m
    BY <1>5 DEF consume, Wrap
  <2>2. ASSUME NEW i \in 1 .. put' - taken'
        PROVE  cb_buf'[cb_head' + i - 1] = taken' + i
    <3>1. m + i \in 1 .. put - taken /\ (cb_head + m) + i - 1 = cb_head + (m + i) - 1
      BY <1>1, <1>2
    <3>2. cb_buf[cb_head + (m + i) - 1] = taken + (m + i)
      BY <1>5, <3>1 DEF BytesInv, UnconsumedUnlessCarried, UnconsumedIsThere
    <3> QED  BY <1>1, <1>2, <2>1, <3>1, <3>2
  <2> QED
    BY <1>1, <1>5, <2>2 DEF BytesInv, UnconsumedUnlessCarried, UnconsumedIsThere
<1> QED  BY <1>1, <1>3, <1>4, <1>5 DEF BytesInv

\* Every step keeps the bytes.
LEMMA NextBytes == BInv /\ BytesInv /\ [BufferNext]_bufferVars => BytesInv'
<1> SUFFICES ASSUME BInv, BytesInv, [BufferNext]_bufferVars PROVE BytesInv'
  OBVIOUS
<1>1. CASE reset
  <2>1. \A i \in 1 .. put' - taken' : FALSE
    BY <1>1 DEF reset, BInv
  <2> QED  BY <1>1, <2>1 DEF reset, BytesInv, UnconsumedUnlessCarried, UnconsumedIsThere
<1>2. CASE UNCHANGED bufferVars
  BY <1>2 DEF bufferVars, BytesInv, UnconsumedUnlessCarried, UnconsumedIsThere
<1> QED  BY <1>1, <1>2, ProduceBytes, ConsumeBytes DEF BufferNext

\* unconsumed_slice shows what was put and not taken, in the order it was put, until a
\* consume moves the indices back with bytes left over; and again once those are taken.
THEOREM BytesAreRead == BufferSpec => []UnconsumedUnlessCarried
<1>1. BytesInv => UnconsumedUnlessCarried
  BY DEF BytesInv
<1> QED  BY <1>1, InitBInv, NextBInv, InitBytes, NextBytes, PTL DEF BufferSpec

-----------------------------------------------------------------------------
(***************************************************************************)
(* MemoryCopy, for every memory, word size and pair of areas, whether or   *)
(* not they overlap and wherever they start: memcpy copies what a copy of  *)
(* all bytes at once would, and moves words only between aligned           *)
(* addresses.                                                              *)
(***************************************************************************)

(***************************************************************************)
(* The inductive invariant: what is copied is right, what is left to copy  *)
(* is as it was when memcpy was called.                                    *)
(***************************************************************************)

\* The copy with m bytes left: the pointers and the memory.
Ahead(m) == IF Forward THEN asked_copy.length - m ELSE m
Copied(m) ==
  IF Forward THEN asked_copy.dst .. asked_copy.dst + asked_copy.length - m - 1
  ELSE asked_copy.dst + m .. asked_copy.dst + asked_copy.length - 1
Placed(m) ==
  /\ m \in 0 .. asked_copy.length
  /\ to = asked_copy.dst + Ahead(m) /\ from = asked_copy.src + Ahead(m)
  /\ cells = [a \in CopyAddress |->
                IF a \in Copied(m) THEN a - asked_copy.dst + asked_copy.src ELSE a]

\* The bytes left at each place in memcpy.
Left ==
  CASE at = "align" -> length
    [] at = "head"  -> t + length
    [] at = "words" -> t * wsize + (length % wsize)
    [] OTHER        -> t

\* Where the loop over the head will end.
Reached(p) == IF Forward THEN p + t ELSE p - t

CopyTypes ==
  /\ asked_copy \in Calls
  /\ length \in Nat /\ t \in Nat
  /\ at \in {"call", "align", "head", "words", "tail", "done"}
Called ==
  at = "call" =>
    /\ to = asked_copy.dst /\ from = asked_copy.src /\ length = asked_copy.length
    /\ cells = [a \in CopyAddress |-> a]
Copying ==
  at \in {"align", "head", "words", "tail"} =>
    asked_copy.dst # asked_copy.src /\ Placed(Left)
Aligning ==
  at = "head" /\ length # 0 => Reached(to) % wsize = 0 /\ Reached(from) % wsize = 0

CopyInv ==
  CopyTypes /\ Called /\ Copying /\ Aligning /\ WordsAligned /\ CopiedAtOnce

-----------------------------------------------------------------------------
(***************************************************************************)
(* The steps.                                                              *)
(***************************************************************************)

\* The bytes Move reads are those the call found there: the areas overlap only where the
\* copy has been or where it will not read again.
LEMMA MovePlaces ==
  ASSUME CopyTypes, asked_copy.dst # asked_copy.src, NEW k \in Int, Placed(k),
         NEW m \in 1 .. k, Move(m), UNCHANGED asked_copy
  PROVE  Placed(k - m)'
<1> DEFINE c == asked_copy
           d == IF Forward THEN to ELSE to - m
           s == IF Forward THEN from ELSE from - m
<1>1. /\ c.dst \in Nat /\ c.src \in Nat /\ c.length \in Nat /\ Space \in Nat
      /\ c.dst + c.length <= Space /\ c.src + c.length <= Space
      /\ c.dst # c.src
  BY CopyAssumption DEF CopyTypes, Calls, CopyAddress
<1>2. /\ k \in 0 .. c.length /\ to = c.dst + Ahead(k) /\ from = c.src + Ahead(k)
      /\ cells = [a \in CopyAddress |-> IF a \in Copied(k) THEN a - c.dst + c.src ELSE a]
  BY DEF Placed
<1>3. /\ to' = (IF Forward THEN to + m ELSE d) /\ from' = IF Forward THEN from + m ELSE s
      /\ cells' = [a \in CopyAddress |->
                     IF a \in d .. d + m - 1 THEN cells[a - d + s] ELSE cells[a]]
  BY DEF Move
<1>4. Forward' = Forward /\ Ahead(k - m)' = Ahead(k - m) /\ Copied(k - m)' = Copied(k - m)
  BY DEF Forward, Ahead, Copied
<1>5. k - m \in 0 .. c.length
  BY <1>1, <1>2
<1>6. CASE Forward
  <2>1. c.dst < c.src /\ d = c.dst + c.length - k /\ s = c.src + c.length - k
    BY <1>1, <1>2, <1>6 DEF Forward, Ahead
  <2>2. to' = c.dst + Ahead(k - m) /\ from' = c.src + Ahead(k - m)
    BY <1>1, <1>2, <1>3, <1>6, <2>1 DEF Ahead
  <2> HIDE DEF c, d, s
  <2>3. ASSUME NEW a \in CopyAddress
        PROVE  (IF a \in d .. d + m - 1 THEN cells[a - d + s] ELSE cells[a])
               = IF a \in Copied(k - m) THEN a - c.dst + c.src ELSE a
    <3>1. a \in Int /\ 0 <= a /\ a < Space
      BY <1>1 DEF CopyAddress
    <3>2. CASE a \in d .. d + m - 1
      <4>1. a - d + s = a - c.dst + c.src
        BY <1>1, <1>2, <2>1, <3>1
      <4>2. a - d + s \in CopyAddress
        <5>1. c.dst <= a /\ a < c.dst + c.length
          BY <1>1, <1>2, <2>1, <3>1, <3>2
        <5>2. a - c.dst + c.src \in 0 .. Space - 1
          BY <1>1, <3>1, <5>1
        <5> QED  BY <4>1, <5>2 DEF CopyAddress
      <4>3. a - d + s \notin Copied(k)
        BY <1>1, <1>2, <1>6, <2>1, <3>1, <3>2 DEF Copied, c
      <4>4. a \in Copied(k - m)
        BY <1>1, <1>2, <1>6, <2>1, <3>1, <3>2 DEF Copied, c
      <4> QED  BY <1>2, <3>2, <4>1, <4>2, <4>3, <4>4
    <3>3. CASE a \notin d .. d + m - 1
      <4>1. a \in Copied(k - m) <=> a \in Copied(k)
        BY <1>1, <1>2, <1>6, <2>1, <3>1, <3>3 DEF Copied, c
      <4> QED  BY <1>2, <3>3, <4>1
    <3> QED  BY <3>2, <3>3
  <2>4. cells' = [a \in CopyAddress |->
                    IF a \in Copied(k - m) THEN a - c.dst + c.src ELSE a]
    BY <1>3, <2>3
  <2> QED  BY <1>4, <1>5, <2>2, <2>4 DEF Placed, c
<1>7. CASE ~ Forward
  <2>1. c.src < c.dst /\ d = c.dst + k - m /\ s = c.src + k - m
    BY <1>1, <1>2, <1>7 DEF Forward, Ahead
  <2>2. to' = c.dst + Ahead(k - m) /\ from' = c.src + Ahead(k - m)
    BY <1>1, <1>2, <1>3, <1>7, <2>1 DEF Ahead
  <2> HIDE DEF c, d, s
  <2>3. ASSUME NEW a \in CopyAddress
        PROVE  (IF a \in d .. d + m - 1 THEN cells[a - d + s] ELSE cells[a])
               = IF a \in Copied(k - m) THEN a - c.dst + c.src ELSE a
    <3>1. a \in Int /\ 0 <= a /\ a < Space
      BY <1>1 DEF CopyAddress
    <3>2. CASE a \in d .. d + m - 1
      <4>1. a - d + s = a - c.dst + c.src
        BY <1>1, <1>2, <2>1, <3>1
      <4>2. a - d + s \in CopyAddress
        <5>1. c.dst <= a /\ a < c.dst + c.length
          BY <1>1, <1>2, <2>1, <3>1, <3>2
        <5>2. a - c.dst + c.src \in 0 .. Space - 1
          BY <1>1, <3>1, <5>1
        <5> QED  BY <4>1, <5>2 DEF CopyAddress
      <4>3. a - d + s \notin Copied(k)
        BY <1>1, <1>2, <1>7, <2>1, <3>1, <3>2 DEF Copied, c
      <4>4. a \in Copied(k - m)
        BY <1>1, <1>2, <1>7, <2>1, <3>1, <3>2 DEF Copied, c
      <4> QED  BY <1>2, <3>2, <4>1, <4>2, <4>3, <4>4
    <3>3. CASE a \notin d .. d + m - 1
      <4>1. a \in Copied(k - m) <=> a \in Copied(k)
        BY <1>1, <1>2, <1>7, <2>1, <3>1, <3>3 DEF Copied, c
      <4> QED  BY <1>2, <3>3, <4>1
    <3> QED  BY <3>2, <3>3
  <2>4. cells' = [a \in CopyAddress |->
                    IF a \in Copied(k - m) THEN a - c.dst + c.src ELSE a]
    BY <1>3, <2>3
  <2> QED  BY <1>4, <1>5, <2>2, <2>4 DEF Placed, c
<1> QED  BY <1>6, <1>7

\* The areas a call names.
LEMMA CallAreas ==
  ASSUME CopyTypes
  PROVE  /\ asked_copy.dst \in Nat /\ asked_copy.src \in Nat /\ asked_copy.length \in Nat
         /\ Space \in Nat /\ wsize \in Nat \ {0}
BY CopyAssumption DEF CopyTypes, Calls, CopyAddress

\* Nothing to do: the areas are empty or the same.
LEMMA NothingStep == CopyInv /\ copy_nothing => CopyInv'
<1> SUFFICES ASSUME CopyInv, copy_nothing PROVE CopyInv'
  OBVIOUS
<1>1. /\ at = "call" /\ at' = "done" /\ UNCHANGED <<cells, to, from, length, t, asked_copy>>
      /\ length = 0 \/ to = from
  BY DEF copy_nothing
<1>2. CopyTypes'
  BY <1>1 DEF CopyInv, CopyTypes
<1>3. cells = AtOnce(asked_copy)
  <2>1. /\ cells = [a \in CopyAddress |-> a]
        /\ asked_copy.length = 0 \/ asked_copy.dst = asked_copy.src
        /\ asked_copy.dst \in Nat /\ asked_copy.src \in Nat /\ asked_copy.length \in Nat
        /\ Space \in Nat
    BY <1>1, CallAreas DEF CopyInv, Called
  <2>2. \A a \in CopyAddress :
          a = IF a \in asked_copy.dst .. asked_copy.dst + asked_copy.length - 1
              THEN a - asked_copy.dst + asked_copy.src ELSE a
    BY <2>1 DEF CopyAddress
  <2> QED  BY <2>1, <2>2 DEF AtOnce
<1> QED
  BY <1>1, <1>2, <1>3
  DEF CopyInv, Called, Copying, Aligning, WordsAligned, CopiedAtOnce, AtOnce

\* memcpy starts with everything left to copy.
LEMMA StartStep == CopyInv /\ copy_start => CopyInv'
<1> SUFFICES ASSUME CopyInv, copy_start PROVE CopyInv'
  OBVIOUS
<1> DEFINE c == asked_copy
<1>1. /\ at = "call" /\ at' = "align" /\ UNCHANGED <<cells, length, t, asked_copy>>
      /\ length # 0 /\ to # from
      /\ IF Forward THEN UNCHANGED <<to, from>> ELSE to' = to + length /\ from' = from + length
  BY DEF copy_start
<1>2. /\ to = c.dst /\ from = c.src /\ length = c.length
      /\ cells = [a \in CopyAddress |-> a]
      /\ c.dst \in Nat /\ c.src \in Nat /\ c.length \in Nat
  BY <1>1, CallAreas DEF CopyInv, Called
<1>3. Left' = c.length /\ Forward' = Forward
  BY <1>1, <1>2 DEF Left, Forward
<1>4. Placed(c.length)'
  <2>1. to' = c.dst + Ahead(c.length)' /\ from' = c.src + Ahead(c.length)'
    BY <1>1, <1>2, <1>3 DEF Ahead
  <2>2. \A a \in CopyAddress : a \notin Copied(c.length)'
    BY <1>1, <1>2, <1>3 DEF Copied
  <2>3. c.length \in 0 .. c.length
    BY <1>2
  <2> QED  BY <1>1, <1>2, <2>1, <2>2, <2>3 DEF Placed
<1>5. Copying'
  BY <1>1, <1>2, <1>3, <1>4 DEF Copying
<1>6. CopyTypes'
  BY <1>1 DEF CopyInv, CopyTypes
<1> QED
  BY <1>1, <1>5, <1>6 DEF CopyInv, Called, Aligning, WordsAligned, CopiedAtOnce

\* The bytes to copy one by one: all of them, none, or those up to a boundary of both.
LEMMA AlignStep == CopyInv /\ copy_align => CopyInv'
<1> SUFFICES ASSUME CopyInv, copy_align PROVE CopyInv'
  OBVIOUS
<1>1. /\ at = "align" /\ at' = "head" /\ UNCHANGED <<cells, to, from, asked_copy>>
      /\ t' = BytesToAlign /\ length' = length - t'
  BY DEF copy_align
<1>2. /\ asked_copy.dst \in Nat /\ asked_copy.src \in Nat /\ asked_copy.length \in Nat
      /\ wsize \in Nat \ {0} /\ length \in Nat
  BY CallAreas DEF CopyInv, CopyTypes
<1>3. Placed(length) /\ asked_copy.dst # asked_copy.src
  BY <1>1 DEF CopyInv, Copying, Left
<1>4. to \in Int /\ from \in Int
  BY <1>2, <1>3 DEF Placed, Ahead
<1>5. from % wsize \in 0 .. wsize - 1
  BY <1>2, <1>4, WordsAndRest
<1>6. Forward' = Forward
  BY <1>1 DEF Forward
<1>7. CASE BothAligned
  <2>1. t' = 0 /\ length' = length
    BY <1>1, <1>2, <1>7 DEF BytesToAlign
  <2>2. Reached(to)' % wsize = 0 /\ Reached(from)' % wsize = 0
    BY <1>1, <1>4, <1>7, <2>1 DEF Reached, BothAligned
  <2> QED  BY <1>1, <1>2, <1>3, <2>1, <2>2
           DEF CopyInv, CopyTypes, Called, Copying, Aligning, WordsAligned, CopiedAtOnce, Left,
               Placed, Ahead, Copied, Forward, Reached
<1>8. CASE ~ BothAligned /\ (LowBitsDiffer \/ TooShortToAlign)
  <2>1. t' = length /\ length' = 0
    BY <1>1, <1>2, <1>8 DEF BytesToAlign
  <2> QED  BY <1>1, <1>2, <1>3, <2>1
           DEF CopyInv, CopyTypes, Called, Copying, Aligning, WordsAligned, CopiedAtOnce, Left,
               Placed, Ahead, Copied, Forward
<1>9. CASE ~ BothAligned /\ ~ LowBitsDiffer /\ ~ TooShortToAlign
  <2>1. t' = ToBoundary /\ to % wsize = from % wsize
    BY <1>1, <1>9 DEF BytesToAlign, LowBitsDiffer
  <2>2. ToBoundary \in 0 .. length
    BY <1>2, <1>5, <1>9 DEF ToBoundary, TooShortToAlign
  <2>3. t' \in Nat /\ length' \in Nat /\ t' + length' = length
    BY <1>1, <1>2, <2>1, <2>2
  <2>4. Reached(to)' % wsize = 0 /\ Reached(from)' % wsize = 0
    <3>1. Reached(to)' = (IF Forward THEN to + (wsize - (to % wsize)) ELSE to - (to % wsize))
      BY <1>1, <1>6, <2>1 DEF Reached, ToBoundary
    <3>2. Reached(from)' = (IF Forward THEN from + (wsize - (from % wsize))
                            ELSE from - (from % wsize))
      BY <1>1, <1>6, <2>1 DEF Reached, ToBoundary
    <3> QED  BY <1>2, <1>4, <3>1, <3>2, Boundaries
  <2> QED  BY <1>1, <1>2, <1>3, <2>3, <2>4
           DEF CopyInv, CopyTypes, Called, Copying, Aligning, WordsAligned, CopiedAtOnce, Left,
               Placed, Ahead, Copied, Forward, Reached
<1> QED  BY <1>7, <1>8, <1>9

\* One byte more at an end.
LEMMA ByteStep == CopyInv /\ copy_byte => CopyInv'
<1> SUFFICES ASSUME CopyInv, copy_byte PROVE CopyInv'
  OBVIOUS
<1>1. /\ at \in {"head", "tail"} /\ t > 0 /\ Move(1) /\ t' = t - 1
      /\ UNCHANGED <<length, at, asked_copy>>
  BY DEF copy_byte
<1>2. /\ asked_copy.length \in Nat /\ length \in Nat /\ t \in Nat /\ CopyTypes
      /\ asked_copy.dst \in Nat /\ asked_copy.src \in Nat
  BY CallAreas DEF CopyInv, CopyTypes
<1>3. Placed(Left) /\ asked_copy.dst # asked_copy.src
  BY <1>1 DEF CopyInv, Copying
<1>4. PICK k : k = Left
  OBVIOUS
<1>5. k \in Int /\ k >= 1 /\ Left' = k - 1
  BY <1>1, <1>2, <1>4 DEF Left
<1>6. 1 \in 1 .. k
  BY <1>5
<1>7. Placed(k - 1)'
  BY <1>1, <1>2, <1>3, <1>4, <1>5, <1>6, MovePlaces
<1>8. Copying'
  BY <1>1, <1>3, <1>5, <1>7 DEF Copying
<1>9. Aligning'
  <2>1. to \in Int /\ from \in Int
    BY <1>2, <1>3, <1>4, <1>5 DEF Placed, Ahead
  <2>2. Reached(to)' = Reached(to) /\ Reached(from)' = Reached(from)
    BY <1>1, <1>2, <2>1 DEF Reached, Move, Forward
  <2> QED  BY <1>1, <2>2 DEF CopyInv, Aligning
<1>10. CopyTypes'
  BY <1>1, <1>2 DEF CopyTypes
<1> QED
  BY <1>1, <1>8, <1>9, <1>10 DEF CopyInv, Called, WordsAligned, CopiedAtOnce

\* One word more: it is read before it is written, and both pointers stay aligned.
LEMMA WordStep == CopyInv /\ copy_word => CopyInv'
<1> SUFFICES ASSUME CopyInv, copy_word PROVE CopyInv'
  OBVIOUS
<1>1. /\ at = "words" /\ t > 0 /\ Move(wsize) /\ t' = t - 1
      /\ UNCHANGED <<length, at, asked_copy>>
  BY DEF copy_word
<1>2. /\ asked_copy.length \in Nat /\ length \in Nat /\ t \in Nat /\ CopyTypes
      /\ asked_copy.dst \in Nat /\ asked_copy.src \in Nat /\ wsize \in Nat \ {0}
  BY CallAreas DEF CopyInv, CopyTypes
<1>3. Placed(Left) /\ asked_copy.dst # asked_copy.src
  BY <1>1 DEF CopyInv, Copying
<1>4. PICK k : k = Left
  OBVIOUS
<1>5. /\ length % wsize \in Nat /\ t * wsize \in Int
      /\ (t - 1) * wsize = t * wsize - wsize /\ t * wsize >= wsize
  BY <1>1, <1>2, WordsAndRest, OneWordLess
<1>6. k = t * wsize + (length % wsize) /\ Left' = (t - 1) * wsize + (length % wsize)
  BY <1>1, <1>4 DEF Left
<1>7. k \in Int /\ wsize \in 1 .. k /\ Left' = k - wsize
  BY <1>2, <1>5, <1>6
<1>8. Placed(k - wsize)'
  BY <1>1, <1>2, <1>3, <1>4, <1>7, MovePlaces
<1>9. Copying'
  BY <1>1, <1>3, <1>7, <1>8 DEF Copying
<1>10. WordsAligned'
  <2>1. /\ to \in Int /\ from \in Int /\ BothAligned
    BY <1>1, <1>2, <1>3, <1>4, <1>7 DEF Placed, Ahead, CopyInv, WordsAligned
  <2>2. /\ (to + wsize) % wsize = 0 /\ (to - wsize) % wsize = 0
        /\ (from + wsize) % wsize = 0 /\ (from - wsize) % wsize = 0
    BY <1>2, <2>1, WordApart DEF BothAligned
  <2> QED  BY <1>1, <2>2 DEF Move, WordsAligned, BothAligned
<1>11. CopyTypes'
  BY <1>1, <1>2 DEF CopyTypes
<1> QED
  BY <1>1, <1>9, <1>10, <1>11 DEF CopyInv, Called, Aligning, CopiedAtOnce

\* The next loop takes over what is left.
LEMMA NextLoopStep == CopyInv /\ copy_next_loop => CopyInv'
<1> SUFFICES ASSUME CopyInv, copy_next_loop PROVE CopyInv'
  OBVIOUS
<1>1. t = 0 /\ UNCHANGED <<cells, to, from, length, asked_copy>>
  BY DEF copy_next_loop
<1>2. /\ length \in Nat /\ wsize \in Nat \ {0} /\ CopyTypes
      /\ asked_copy.dst \in Nat /\ asked_copy.src \in Nat /\ asked_copy.length \in Nat
  BY CallAreas DEF CopyInv, CopyTypes
<1>3. /\ length \div wsize \in Nat /\ (length = 0 => length \div wsize = 0)
      /\ length % wsize \in 0 .. wsize - 1
      /\ length = (length \div wsize) * wsize + (length % wsize)
  <2>1. length \in Int
    BY <1>2
  <2>2. /\ length % wsize \in 0 .. wsize - 1
        /\ length = (length \div wsize) * wsize + (length % wsize)
    BY <1>2, <2>1, WordsAndRest, Zenon
  <2>3. length \div wsize \in Nat /\ (length = 0 => length \div wsize = 0)
    BY <1>2, WordCount
  <2> QED  BY <2>2, <2>3
<1>4. \A m : Placed(m)' = Placed(m)
  BY <1>1 DEF Placed, Ahead, Copied, Forward
<1>5. CASE at = "head" /\ at' = "words" /\ t' = length \div wsize
  <2>1. Placed(length)
    BY <1>1, <1>2, <1>5 DEF CopyInv, Copying, Left
  <2>2. Left' = length
    BY <1>1, <1>3, <1>5 DEF Left
  <2>3. Copying'
    BY <1>1, <1>4, <1>5, <2>1, <2>2 DEF CopyInv, Copying
  <2>4. to \in Int /\ from \in Int
    BY <1>2, <2>1 DEF Placed, Ahead
  <2>5. WordsAligned'
    BY <1>1, <1>2, <1>3, <1>5, <2>4
    DEF CopyInv, Aligning, Reached, WordsAligned, BothAligned
  <2> QED
    BY <1>1, <1>2, <1>3, <1>5, <2>3, <2>5
    DEF CopyInv, CopyTypes, Called, Aligning, CopiedAtOnce
<1>6. CASE at = "words" /\ at' = "tail" /\ t' = length % wsize
  <2>1. 0 * wsize = 0
    BY <1>2
  <2>2. Placed(length % wsize)
    BY <1>1, <1>2, <1>3, <1>6, <2>1 DEF CopyInv, Copying, Left
  <2>3. Left' = length % wsize
    BY <1>6 DEF Left
  <2>4. Copying'
    BY <1>1, <1>4, <1>6, <2>2, <2>3 DEF CopyInv, Copying
  <2> QED
    BY <1>1, <1>2, <1>3, <1>6, <2>4
    DEF CopyInv, CopyTypes, Called, Aligning, WordsAligned, CopiedAtOnce
<1>7. CASE at = "tail" /\ at' = "done" /\ t' = t
  <2>1. Placed(0)
    BY <1>1, <1>7 DEF CopyInv, Copying, Left
  <2>2. \A a \in CopyAddress :
          a \in Copied(0) <=>
            a \in asked_copy.dst .. asked_copy.dst + asked_copy.length - 1
    BY <1>2 DEF Copied, CopyAddress
  <2>3. cells = AtOnce(asked_copy)
    BY <2>1, <2>2 DEF Placed, AtOnce
  <2> QED
    BY <1>1, <1>2, <1>7, <2>3
    DEF CopyInv, CopyTypes, Called, Copying, Aligning, WordsAligned, CopiedAtOnce, AtOnce
<1> QED  BY <1>5, <1>6, <1>7 DEF copy_next_loop

\* memcpy is called.
LEMMA InitCopy == CopyInit => CopyInv
<1> SUFFICES ASSUME CopyInit PROVE CopyInv
  OBVIOUS
<1>1. asked_copy.length \in Nat
  BY CopyAssumption DEF CopyInit, Calls
<1> QED
  BY <1>1
  DEF CopyInit, CopyInv, CopyTypes, Called, Copying, Aligning, WordsAligned, CopiedAtOnce

\* Every step of memcpy keeps the invariant.
LEMMA NextCopy == CopyInv /\ [CopyNext]_copyVars => CopyInv'
<1>1. CopyInv /\ UNCHANGED copyVars => CopyInv'
  BY DEF copyVars, CopyInv, CopyTypes, Called, Copying, Aligning, WordsAligned, CopiedAtOnce,
         Left, Placed, Ahead, Copied, Forward, Reached, AtOnce, BothAligned
<1> QED
  BY <1>1, NothingStep, StartStep, AlignStep, ByteStep, WordStep, NextLoopStep DEF CopyNext

-----------------------------------------------------------------------------
(***************************************************************************)
(* The theorems.                                                           *)
(***************************************************************************)

\* However the two areas overlap and wherever they start, memcpy leaves behind what a copy
\* of all bytes at once would, whatever the direction and the split into bytes and words.
THEOREM CopiesAtOnce == CopySpec => []CopiedAtOnce
<1>1. CopyInv => CopiedAtOnce
  BY DEF CopyInv
<1> QED  BY <1>1, InitCopy, NextCopy, PTL DEF CopySpec

\* The loop over words runs between addresses that are multiples of the size of a word.
THEOREM MovesAlignedWords == CopySpec => []WordsAligned
<1>1. CopyInv => WordsAligned
  BY DEF CopyInv
<1> QED  BY <1>1, InitCopy, NextCopy, PTL DEF CopySpec

-----------------------------------------------------------------------------
(***************************************************************************)
(* Messages.  The inductive invariant: what is written and what is still   *)
(* to be written fit together in the array, so no piece is ever cut.       *)
(***************************************************************************)

Piece == [len : Nat, bounded : BOOLEAN]
LengthOf(list, i) == IF i <= Len(list) THEN list[i].len ELSE 0
\* No message has more than five pieces.
Sum(list) ==
  LengthOf(list, 1) + LengthOf(list, 2) + LengthOf(list, 3) + LengthOf(list, 4)
    + LengthOf(list, 5)

MessageInv ==
  /\ size \in 0 .. 2 * max_line_len
  /\ pieces \in Seq(Piece) /\ Len(pieces) <= 5
  /\ n \in Nat /\ reach \in Nat
  /\ n + Sum(pieces) <= size
  /\ reach <= n /\ cut = 0

\* Lengths, and their sum, are numbers.
LEMMA SumIsNat ==
  ASSUME NEW list \in Seq(Piece)
  PROVE  (\A i \in Nat \ {0} : LengthOf(list, i) \in Nat) /\ Sum(list) \in Nat
<1>1. ASSUME NEW i \in Nat \ {0} PROVE LengthOf(list, i) \in Nat
  <2>1. CASE i <= Len(list)
    <3>1. list[i] \in Piece
      BY <2>1
    <3> QED  BY <2>1, <3>1 DEF LengthOf, Piece
  <2>2. CASE ~ (i <= Len(list))
    BY <2>2 DEF LengthOf
  <2> QED  BY <2>1, <2>2
<1> QED  BY <1>1 DEF Sum

\* A message whose pieces fit its array starts with the invariant.
LEMMA MessageStarts ==
  ASSUME NEW bytes \in 0 .. 2 * max_line_len, NEW list \in Seq(Piece),
         Len(list) <= 5, Sum(list) <= bytes,
         size = bytes, pieces = list, n = 0, reach = 0, cut = 0
  PROVE  MessageInv
<1>1. Sum(list) \in Nat
  BY SumIsNat
<1>2. Sum(pieces) = Sum(list)
  OBVIOUS
<1>3. 0 + Sum(list) = Sum(list)
  BY <1>1
<1>4. n + Sum(pieces) <= size
  BY <1>2, <1>3
<1> QED  BY <1>4 DEF MessageInv

\* The arrays' sizes count each piece: the longest name, the longest line and a stamp of
\* 12 bytes, as long as StampsFit says it can be.
LEMMA SizesCountPieces ==
  ASSUME \A stamp \in Stamps : stamp <= 12, MessageInit
  PROVE  MessageInv
<1>1. PICK name \in NameLength :
        \/ NameMessages(name)
        \/ LeftMessage(name)
        \/ \E line \in Lines : LineMessage(name, line)
  BY DEF MessageInit
<1>2. name \in Nat /\ name <= 31
  BY DEF NameLength, max_name_len
<1>3. \A k \in Nat : Text(k) \in Piece /\ Stamp(k) \in Piece
                     /\ Text(k).len = k /\ Stamp(k).len = k
  BY DEF Text, Stamp, Piece
<1>4. CASE NameMessages(name)
  <2>1. CASE Message(NameMessageSize, <<Text(welcome_msg), Text(name), Text(1)>>)
    <3> DEFINE list == <<Text(welcome_msg), Text(name), Text(1)>>
    <3>1. list \in Seq(Piece) /\ Len(list) = 3
      BY <1>2, <1>3 DEF welcome_msg
    <3>2. Sum(list) = 38 + name + 1
      BY <1>2, <1>3, <3>1 DEF Sum, LengthOf, welcome_msg
    <3>3. NameMessageSize = 71 /\ max_line_len = 512
      BY DEF NameMessageSize, welcome_msg, max_name_len, max_line_len
    <3>4. size = NameMessageSize /\ pieces = list /\ n = 0 /\ reach = 0 /\ cut = 0
      BY <2>1 DEF Message
    <3>5. Len(list) <= 5 /\ Sum(list) <= NameMessageSize /\ NameMessageSize \in 0 .. 2 * max_line_len
      BY <1>2, <3>1, <3>2, <3>3
    <3> HIDE DEF list
    <3> QED  BY <3>1, <3>4, <3>5, MessageStarts
  <2>2. CASE Message(NameMessageSize, <<Text(name), Text(entered_msg)>>)
    <3> DEFINE list == <<Text(name), Text(entered_msg)>>
    <3>1. list \in Seq(Piece) /\ Len(list) = 2
      BY <1>2, <1>3 DEF entered_msg
    <3>2. Sum(list) = name + 22
      BY <1>2, <1>3, <3>1 DEF Sum, LengthOf, entered_msg
    <3>3. NameMessageSize = 71 /\ max_line_len = 512
      BY DEF NameMessageSize, welcome_msg, max_name_len, max_line_len
    <3>4. size = NameMessageSize /\ pieces = list /\ n = 0 /\ reach = 0 /\ cut = 0
      BY <2>2 DEF Message
    <3>5. Len(list) <= 5 /\ Sum(list) <= NameMessageSize /\ NameMessageSize \in 0 .. 2 * max_line_len
      BY <1>2, <3>1, <3>2, <3>3
    <3> HIDE DEF list
    <3> QED  BY <3>1, <3>4, <3>5, MessageStarts
  <2> QED  BY <1>4, <2>1, <2>2 DEF NameMessages
<1>5. CASE LeftMessage(name)
  <2> DEFINE list == <<Text(name), Text(left_msg)>>
  <2>1. list \in Seq(Piece) /\ Len(list) = 2
    BY <1>2, <1>3 DEF left_msg
  <2>2. Sum(list) = name + 19
    BY <1>2, <1>3, <2>1 DEF Sum, LengthOf, left_msg
  <2>3. max_line_len + left_msg + 1 = 532 /\ max_line_len = 512
    BY DEF left_msg, max_line_len
  <2>4. Message(max_line_len + left_msg + 1, list)
    BY <1>5 DEF LeftMessage
  <2> DEFINE bytes == max_line_len + left_msg + 1
  <2>5. Len(list) <= 5 /\ Sum(list) <= bytes /\ bytes \in 0 .. 2 * max_line_len
    BY <1>2, <2>1, <2>2, <2>3
  <2> HIDE DEF list, bytes
  <2>6. size = bytes /\ pieces = list /\ n = 0 /\ reach = 0 /\ cut = 0
    BY <2>4 DEF Message, bytes
  <2> QED  BY <2>1, <2>5, <2>6, MessageStarts
<1>6. CASE \E line \in Lines : LineMessage(name, line)
  <2>1. PICK line \in Lines : LineMessage(name, line)
    BY <1>6
  <2>2. line \in Nat /\ line <= 512
    BY MessagesAssumption DEF max_line_len
  <2>3. LineMessageSize = 561 /\ max_line_len = 512
    BY DEF LineMessageSize, max_name_len, max_line_len
  <2>4. CASE Message(LineMessageSize, <<Text(name), Text(2), Text(line)>>)
    <3> DEFINE list == <<Text(name), Text(2), Text(line)>>
    <3>1. list \in Seq(Piece) /\ Len(list) = 3
      BY <1>2, <1>3, <2>2
    <3>2. Sum(list) = name + 2 + line
      BY <1>2, <1>3, <2>2, <3>1 DEF Sum, LengthOf
    <3>3. size = LineMessageSize /\ pieces = list /\ n = 0 /\ reach = 0 /\ cut = 0
      BY <2>4 DEF Message
    <3>4. Len(list) <= 5 /\ Sum(list) <= LineMessageSize /\ LineMessageSize \in 0 .. 2 * max_line_len
      BY <1>2, <2>2, <2>3, <3>1, <3>2
    <3> HIDE DEF list
    <3> QED  BY <3>1, <3>3, <3>4, MessageStarts
  <2>5. CASE \E stamp \in Stamps :
               Message(LineMessageSize,
                       <<Text(name), Text(2), Stamp(stamp), Text(3), Text(line)>>)
    <3>1. PICK stamp \in Stamps :
            Message(LineMessageSize,
                    <<Text(name), Text(2), Stamp(stamp), Text(3), Text(line)>>)
      BY <2>5
    <3>2. stamp \in Nat /\ stamp <= 12
      BY MessagesAssumption
    <3> DEFINE list == <<Text(name), Text(2), Stamp(stamp), Text(3), Text(line)>>
    <3>3. list \in Seq(Piece) /\ Len(list) = 5
      BY <1>2, <1>3, <2>2, <3>2
    <3>4. Sum(list) = name + 2 + stamp + 3 + line
      BY <1>2, <1>3, <2>2, <3>2, <3>3 DEF Sum, LengthOf
    <3>5. size = LineMessageSize /\ pieces = list /\ n = 0 /\ reach = 0 /\ cut = 0
      BY <3>1 DEF Message
    <3>6. Len(list) <= 5 /\ Sum(list) <= LineMessageSize /\ LineMessageSize \in 0 .. 2 * max_line_len
      BY <1>2, <2>2, <2>3, <3>2, <3>3, <3>4
    <3> HIDE DEF list
    <3> QED  BY <3>3, <3>5, <3>6, MessageStarts
  <2> QED  BY <2>1, <2>4, <2>5 DEF LineMessage
<1> QED  BY <1>1, <1>4, <1>5, <1>6

\* A piece is written whole: the slice of what is left has room for it.
LEMMA PieceFits == MessageInv /\ write_piece => MessageInv'
<1> SUFFICES ASSUME MessageInv, write_piece PROVE MessageInv'
  OBVIOUS
<1> DEFINE p == Head(pieces)
<1>1. /\ size \in Nat /\ size <= 1024 /\ n \in Nat /\ reach \in Nat
      /\ pieces \in Seq(Piece) /\ pieces # <<>> /\ Len(pieces) <= 5
      /\ reach <= n /\ cut = 0 /\ n + Sum(pieces) <= size
  BY DEF MessageInv, write_piece, max_line_len
<1>2. p \in Piece /\ p = pieces[1] /\ p.len \in Nat
  <2>1. Head(pieces) \in Piece /\ Head(pieces) = pieces[1]
    BY <1>1
  <2> QED  BY <2>1 DEF Piece
<1>3. Tail(pieces) \in Seq(Piece) /\ Len(Tail(pieces)) = Len(pieces) - 1
      /\ \A i \in 1 .. Len(pieces) - 1 : Tail(pieces)[i] = pieces[i + 1]
  <2>1. /\ Tail(pieces) \in Seq(Piece) /\ Len(Tail(pieces)) = Len(pieces) - 1
        /\ \A i \in 1 .. Len(Tail(pieces)) : Tail(pieces)[i] = pieces[i + 1]
    BY <1>1, HeadTailProperties
  <2> QED  BY <2>1
<1>4. \A i \in Nat \ {0} : LengthOf(pieces, i) \in Nat /\ LengthOf(Tail(pieces), i) \in Nat
  BY <1>1, <1>3, SumIsNat
<1>5. LengthOf(pieces, 1) = p.len
  BY <1>1, <1>2 DEF LengthOf
<1>6. \A i \in 1 .. 4 : LengthOf(Tail(pieces), i) = LengthOf(pieces, i + 1)
  BY <1>1, <1>3 DEF LengthOf
<1>7. LengthOf(Tail(pieces), 5) = 0
  BY <1>1, <1>3 DEF LengthOf
<1>8. Sum(pieces) = p.len + Sum(Tail(pieces)) /\ Sum(Tail(pieces)) \in Nat
  BY <1>4, <1>5, <1>6, <1>7 DEF Sum
<1>9. n + p.len <= size /\ p.len <= size - n /\ size - n \in Nat
  BY <1>1, <1>2, <1>8
<1>10. LeftOf(unsafe_slice(size), n).len = size - n
  <2>1. Unsigned \in Nat /\ Unsigned > 2048
    BY MessagesAssumption DEF max_line_len
  <2>2. (size - n) % Unsigned = size - n
    BY <1>1, <1>9, <2>1
  <2> QED  BY <2>2 DEF LeftOf, unsafe_slice
<1>11. string_in_slice(LeftOf(unsafe_slice(size), n), p.len) = p.len
  BY <1>2, <1>9, <1>10 DEF string_in_slice
<1>12. n' = n + p.len /\ cut' = cut + p.len - p.len /\ pieces' = Tail(pieces)
       /\ size' = size
       /\ reach' = IF p.len = 0 \/ n + p.len <= reach THEN reach ELSE n + p.len
  BY <1>11 DEF write_piece
<1> HIDE DEF p
<1>13. cut' = 0 /\ n' \in Nat /\ reach' \in Nat /\ reach' <= n'
  BY <1>1, <1>2, <1>12
<1>14. n' + Sum(pieces') <= size'
  BY <1>1, <1>2, <1>8, <1>12
<1> QED  BY <1>1, <1>3, <1>12, <1>13, <1>14 DEF MessageInv, max_line_len

\* MessagesWhole for lines and names of every length: no message of chat_server.c is cut, or
\* written past its array, as long as the time takes no more than 12 bytes.
THEOREM MessagesFit ==
  ASSUME \A stamp \in Stamps : stamp <= 12
  PROVE  MessageSpec => []MessagesWhole
<1>1. MessageInv => MessagesWhole
  <2>1. MessageInv => Sum(pieces) \in Nat
    BY SumIsNat DEF MessageInv
  <2> QED  BY <2>1 DEF MessageInv, MessagesWhole
<1>2. MessageInv /\ UNCHANGED messageVars => MessageInv'
  BY DEF messageVars, MessageInv, Sum, LengthOf
<1> QED
  BY <1>1, <1>2, SizesCountPieces, PieceFits, PTL DEF MessageSpec, MessageNext

-----------------------------------------------------------------------------
(***************************************************************************)
(* Format.  The invariant: the loop stops when buf is full, and what a     *)
(* conversion stores stays in the room there is.                           *)
(***************************************************************************)

FormatInv ==
  /\ fmt \in Seq(FormatPart) /\ args \in Seq(Argument)
  /\ j \in Nat /\ stored \in Nat
  /\ FormatBounded

\* What is put into the room there is, with its NUL, stays in buf.
LEMMA PutFits ==
  ASSUME j \in Nat, stored \in Nat, FormatBounded, NEW k \in Nat, NEW nul \in {0, 1},
         j + k + nul <= max_buf, Put(k, nul)
  PROVE  j' \in Nat /\ stored' \in Nat /\ FormatBounded'
BY FormatAssumption DEF Put, FormatBounded

\* FormatBounded: fmt_fprintf stores nothing behind buf, the NUL of c_strncpy included, and
\* prints no more than buf holds, for every format, argument and size of buf.
THEOREM FormatFits == FormatSpec => []FormatBounded
<1>1. FormatInit => FormatInv
  BY FormatAssumption
  DEF FormatInit, FormatInv, fmt_fprintf, FormatBounded
<1>2. FormatInv /\ [FormatNext]_formatVars => FormatInv'
  <2> SUFFICES ASSUME FormatInv, [FormatNext]_formatVars PROVE FormatInv'
    OBVIOUS
  <2>1. max_buf \in Nat
    BY FormatAssumption
  <2>2. fmt # <<>> => Head(fmt) \in FormatPart /\ Tail(fmt) \in Seq(FormatPart)
    BY DEF FormatInv
  <2>3. args # <<>> => Head(args) \in Argument /\ Tail(args) \in Seq(Argument)
    BY DEF FormatInv
  <2>4. CASE print_text
    <3> DEFINE k == Shorter(IF Head(fmt).conv = "%" THEN 1 ELSE Head(fmt).len, Room)
    <3>1. k \in Nat /\ j + k + 0 <= max_buf
      BY <2>1, <2>2, <2>4 DEF print_text, Shorter, Room, FormatInv, FormatPart
    <3>2. Put(k, 0)
      BY <2>4 DEF print_text
    <3> HIDE DEF k
    <3>3. j' \in Nat /\ stored' \in Nat /\ FormatBounded'
      BY <3>1, <3>2, PutFits DEF FormatInv
    <3> QED  BY <2>2, <2>4, <3>3 DEF print_text, FormatInv
  <2>5. CASE print_argument
    <3> DEFINE letter == Head(fmt).conv
               k == IF misread' THEN 0 ELSE Bytes(letter, Head(args).len)
               nul == IF letter = "s" THEN 1 ELSE 0
    <3>1. letter \in {"c", "s", "d", "p"} /\ j < max_buf /\ fmt # <<>>
      BY <2>5 DEF print_argument, Converted, TypeOf
    <3>2. ~ misread' => Head(args).len \in Nat
      BY <2>3, <2>5 DEF print_argument, Argument
    <3>3. k \in Nat /\ nul \in {0, 1} /\ j + k + nul <= max_buf
      <4> DEFINE len == Head(args).len
      <4>1. j \in Nat
        BY DEF FormatInv
      <4> HIDE DEF len
      <4>2. CASE misread'
        <5>1. k = 0
          BY <4>2
        <5> QED  BY <2>1, <3>1, <4>1, <5>1
      <4>3. CASE ~ misread'
        <5>1. len \in Nat /\ k = Bytes(letter, len)
          BY <3>2, <4>3 DEF len
        <5> HIDE DEF k
        <5> QED
          BY <2>1, <3>1, <4>1, <5>1 DEF Bytes, c_strncpy, Shorter, Room
      <4> QED  BY <4>2, <4>3
    <3>4. Put(k, nul)
      BY <2>5 DEF print_argument
    <3>5. fmt' = Tail(fmt) /\ args' \in Seq(Argument)
      BY <2>3, <2>5 DEF print_argument, FormatInv
    <3> HIDE DEF k, nul
    <3>6. j' \in Nat /\ stored' \in Nat /\ FormatBounded'
      BY <3>3, <3>4, PutFits DEF FormatInv
    <3> QED  BY <2>2, <3>1, <3>5, <3>6 DEF FormatInv
  <2>6. CASE print_nothing
    BY <2>2, <2>6 DEF print_nothing, FormatInv, FormatBounded
  <2>7. CASE UNCHANGED formatVars
    BY <2>7 DEF formatVars, FormatInv, FormatBounded
  <2> QED  BY <2>4, <2>5, <2>6, <2>7 DEF FormatNext
<1> QED  BY <1>1, <1>2, PTL DEF FormatSpec, FormatInv

\* count[i] is how many of the arguments the first i parts of the format take: a conversion
\* takes the next one, which has its type.
CountsArguments(f, a, count) ==
  /\ count \in [0 .. Len(f) -> Nat] /\ count[0] = 0
  /\ \A i, k \in 0 .. Len(f) : i <= k => count[i] <= count[k]
  /\ \A i \in 1 .. Len(f) :
       /\ count[i] = count[i - 1] + (IF Converted(f[i].conv) THEN 1 ELSE 0)
       /\ Converted(f[i].conv) => /\ count[i] <= Len(a)
                                  /\ a[count[i]].type = TypeOf[f[i].conv]

Fed(f, a) == \E count : CountsArguments(f, a, count)

\* Counting the conversions gives these numbers.
LEMMA PassedIsFed ==
  ASSUME NEW f \in Seq(FormatPart), NEW a \in Seq(Argument), PassedFor(f, a)
  PROVE  Fed(f, a)
<1> DEFINE count == [k \in 0 .. Len(f) |-> Cardinality(ConversionsIn(f, k))]
<1>1. ASSUME NEW k \in 0 .. Len(f)
      PROVE  IsFiniteSet(ConversionsIn(f, k)) /\ Cardinality(ConversionsIn(f, k)) \in Nat
  <2>1. IsFiniteSet(1 .. k)
    BY FS_Interval
  <2>2. ConversionsIn(f, k) \subseteq 1 .. k
    BY DEF ConversionsIn, Converted
  <2> QED  BY <2>1, <2>2, FS_Subset, FS_CardinalityType
<1>2. count \in [0 .. Len(f) -> Nat]
  BY <1>1
<1>3. count[0] = 0
  <2>1. ConversionsIn(f, 0) = {}
    BY DEF ConversionsIn, Converted
  <2> QED  BY <2>1, FS_EmptySet
<1>4. ASSUME NEW i \in 0 .. Len(f), NEW k \in 0 .. Len(f), i <= k
      PROVE  count[i] <= count[k]
  <2>1. ConversionsIn(f, i) \subseteq ConversionsIn(f, k)
    BY <1>4 DEF ConversionsIn, Converted
  <2> QED  BY <1>1, <2>1, FS_Subset
<1>5. ASSUME NEW k \in 1 .. Len(f)
      PROVE  count[k] = count[k - 1] + (IF Converted(f[k].conv) THEN 1 ELSE 0)
  <2>1. k - 1 \in 0 .. Len(f) /\ k \in 0 .. Len(f)
    OBVIOUS
  <2>2. CASE Converted(f[k].conv)
    <3>1. ConversionsIn(f, k) = ConversionsIn(f, k - 1) \cup {k} /\ k \notin ConversionsIn(f, k - 1)
      BY <2>2 DEF ConversionsIn, Converted
    <3>2. Cardinality(ConversionsIn(f, k)) = Cardinality(ConversionsIn(f, k - 1)) + 1
      BY <1>1, <2>1, <3>1, FS_AddElement
    <3> QED  BY <2>1, <2>2, <3>2
  <2>3. CASE ~ Converted(f[k].conv)
    <3>1. ConversionsIn(f, k) = ConversionsIn(f, k - 1)
      BY <2>3 DEF ConversionsIn, Converted
    <3> QED  BY <1>2, <2>1, <2>3, <3>1
  <2> QED  BY <2>2, <2>3
<1>6. ASSUME NEW k \in 1 .. Len(f), Converted(f[k].conv)
      PROVE  count[k] <= Len(a) /\ a[count[k]].type = TypeOf[f[k].conv]
  BY <1>6 DEF PassedFor, Converted
<1> HIDE DEF count
<1> QED  BY <1>2, <1>3, <1>4, <1>5, <1>6 DEF Fed, CountsArguments

\* What is left of the arguments is what the rest of the format calls for.
LEMMA FedRest ==
  ASSUME NEW f \in Seq(FormatPart), NEW a \in Seq(Argument), f # <<>>, Fed(f, a)
  PROVE  /\ Converted(Head(f).conv) =>
              /\ a # <<>> /\ Head(a).type = TypeOf[Head(f).conv]
              /\ Fed(Tail(f), Tail(a))
         /\ ~ Converted(Head(f).conv) => Fed(Tail(f), a)
<1> DEFINE conv(i) == Converted(f[i].conv)
           rest == IF conv(1) THEN Tail(a) ELSE a
<1>1. PICK count : CountsArguments(f, a, count)
  BY DEF Fed
<1>2. Len(f) \in Nat /\ Len(f) >= 1 /\ Head(f) = f[1] /\ Len(Tail(f)) = Len(f) - 1
      /\ \A i \in 1 .. Len(Tail(f)) : Tail(f)[i] = f[i + 1]
  OBVIOUS
<1>3. /\ count \in [0 .. Len(f) -> Nat] /\ count[0] = 0
      /\ \A i, k \in 0 .. Len(f) : i <= k => count[i] <= count[k]
      /\ \A i \in 1 .. Len(f) :
           /\ count[i] = count[i - 1] + (IF conv(i) THEN 1 ELSE 0)
           /\ conv(i) => count[i] <= Len(a) /\ a[count[i]].type = TypeOf[f[i].conv]
  BY <1>1 DEF CountsArguments
<1>4. count[1] = IF conv(1) THEN 1 ELSE 0
  BY <1>2, <1>3
<1>5. conv(1) => a # <<>> /\ Head(a).type = TypeOf[f[1].conv]
                 /\ Len(Tail(a)) = Len(a) - 1
                 /\ \A k \in 1 .. Len(a) - 1 : Tail(a)[k] = a[k + 1]
  <2> SUFFICES ASSUME conv(1) PROVE
                 /\ a # <<>> /\ Head(a).type = TypeOf[f[1].conv]
                 /\ Len(Tail(a)) = Len(a) - 1
                 /\ \A k \in 1 .. Len(a) - 1 : Tail(a)[k] = a[k + 1]
    OBVIOUS
  <2> HIDE DEF conv
  <2>1. count[1] = 1 /\ 1 <= Len(a) /\ a[1].type = TypeOf[f[1].conv]
    BY <1>2, <1>3, <1>4
  <2> QED  BY <2>1
<1> DEFINE left == [i \in 0 .. Len(f) - 1 |-> count[i + 1] - count[1]]
<1>6. CountsArguments(Tail(f), rest, left)
  <2>1. left \in [0 .. Len(Tail(f)) -> Nat] /\ left[0] = 0
    BY <1>2, <1>3
  <2>2. ASSUME NEW i \in 0 .. Len(Tail(f)), NEW k \in 0 .. Len(Tail(f)), i <= k
        PROVE  left[i] <= left[k]
    <3>1. i + 1 \in 0 .. Len(f) /\ k + 1 \in 0 .. Len(f) /\ i + 1 <= k + 1 /\ 1 \in 0 .. Len(f)
          /\ left[i] = count[i + 1] - count[1] /\ left[k] = count[k + 1] - count[1]
      BY <1>2, <2>2
    <3>2. count[i + 1] <= count[k + 1] /\ count[i + 1] \in Nat /\ count[k + 1] \in Nat
          /\ count[1] \in Nat
      BY <1>3, <3>1
    <3> HIDE DEF left
    <3> QED  BY <3>1, <3>2
  <2>3. ASSUME NEW i \in 1 .. Len(Tail(f))
        PROVE  /\ left[i] = left[i - 1] + (IF Converted(Tail(f)[i].conv) THEN 1 ELSE 0)
               /\ Converted(Tail(f)[i].conv) => /\ left[i] <= Len(rest)
                                  /\ rest[left[i]].type = TypeOf[Tail(f)[i].conv]
    <3>1. /\ i + 1 \in 2 .. Len(f) /\ Tail(f)[i] = f[i + 1]
          /\ left[i] = count[i + 1] - count[1] /\ left[i - 1] = count[i] - count[1]
      BY <1>2
    <3>2. /\ count[i + 1] = count[i] + (IF conv(i + 1) THEN 1 ELSE 0)
          /\ conv(i + 1) => count[i + 1] <= Len(a) /\ a[count[i + 1]].type = TypeOf[f[i + 1].conv]
      <4>1. i + 1 \in 1 .. Len(f) /\ i + 1 - 1 = i
        BY <1>2, <3>1
      <4> HIDE DEF conv
      <4> QED  BY <1>3, <4>1
    <3>3. count[1] <= count[i] /\ count[1] \in Nat /\ count[i] \in Nat
      <4>1. 1 \in 0 .. Len(f) /\ i \in 0 .. Len(f) /\ 1 <= i
        BY <1>2
      <4> QED  BY <1>3, <4>1
    <3>4. left[i] = left[i - 1] + (IF Converted(Tail(f)[i].conv) THEN 1 ELSE 0)
      BY <3>1, <3>2, <3>3
    <3>5. ASSUME conv(i + 1)
          PROVE  left[i] <= Len(rest) /\ rest[left[i]] = a[count[i + 1]]
      <4> HIDE DEF conv, left
      <4>1. count[i + 1] <= Len(a) /\ 1 <= left[i] /\ count[i + 1] = left[i] + count[1]
            /\ left[i] \in Nat
        <5>1. count[i + 1] = count[i] + 1 /\ count[i + 1] <= Len(a)
          BY <3>2, <3>5
        <5> QED  BY <3>1, <3>3, <5>1
      <4>2. CASE conv(1)
        BY <1>4, <1>5, <4>1, <4>2
      <4>3. CASE ~ conv(1)
        BY <1>4, <4>1, <4>3
      <4> QED  BY <4>2, <4>3
    <3> QED  BY <3>1, <3>2, <3>4, <3>5
  <2> QED  BY <2>1, <2>2, <2>3 DEF CountsArguments
<1> QED  BY <1>2, <1>5, <1>6 DEF Fed

\* ArgumentsFit: in fmt_fprintf a conversion takes the argument that was passed for it, if the
\* calls pass what their formats name; assert_fail's call does not (assert.c:7).
THEOREM ArgumentsFound ==
  ASSUME \A call \in Prints : PassedFor(call[1], call[2])
  PROVE  FormatSpec => []ArgumentsFit
<1> DEFINE Inv == /\ fmt \in Seq(FormatPart) /\ args \in Seq(Argument)
                  /\ Fed(fmt, args) /\ ArgumentsFit
<1>1. FormatInit => Inv
  BY FormatAssumption, PassedIsFed DEF FormatInit, fmt_fprintf, ArgumentsFit
<1>2. Inv /\ [FormatNext]_formatVars => Inv'
  <2> SUFFICES ASSUME Inv, [FormatNext]_formatVars PROVE Inv'
    OBVIOUS
  <2>1. fmt # <<>> =>
          /\ Tail(fmt) \in Seq(FormatPart)
          /\ Converted(Head(fmt).conv) =>
               /\ args # <<>> /\ Head(args).type = TypeOf[Head(fmt).conv]
               /\ Fed(Tail(fmt), Tail(args)) /\ Tail(args) \in Seq(Argument)
          /\ ~ Converted(Head(fmt).conv) => Fed(Tail(fmt), args)
    BY FedRest
  <2>2. CASE print_text
    <3>1. ~ Converted(Head(fmt).conv)
      BY <2>2 DEF print_text, Converted, TypeOf
    <3> QED  BY <2>1, <2>2, <3>1 DEF print_text, ArgumentsFit
  <2>3. CASE print_argument
    BY <2>1, <2>3 DEF print_argument, ArgumentsFit
  <2>4. CASE print_nothing
    BY <2>1, <2>4 DEF print_nothing, ArgumentsFit
  <2>5. CASE UNCHANGED formatVars
    BY <2>5 DEF formatVars, ArgumentsFit
  <2> QED  BY <2>2, <2>3, <2>4, <2>5 DEF FormatNext
<1> QED  BY <1>1, <1>2, PTL DEF FormatSpec

-----------------------------------------------------------------------------
(***************************************************************************)
(* SystemCalls.                                                            *)
(***************************************************************************)

\* What decode and tell leave is what they compute.
CallInv ==
  /\ rax \in Values \cup {- code : code \in 1 .. 4095}
  /\ wrapper \in {"value", "ignored", "status"}
  /\ \/ result = pending /\ errno = 0 /\ error = pending
     \/ /\ IF IsError(rax) THEN result = -1 /\ errno = - rax
           ELSE result = rax /\ errno = 0
        /\ error \in {pending, IF wrapper = "ignored" THEN 0 ELSE set_error(errno)}

\* ErrorsTold, for every result a call can have.
THEOREM ErrorsAreTold == CallSpec => []ErrorsTold
<1>1. CallInit => CallInv
  BY DEF CallInit, CallInv
<1>2. CallInv /\ [CallNext]_callVars => CallInv'
  BY DEF CallInv, CallNext, decode, tell, callVars, IsError, pending, set_error,
         syscall_errors
<1>3. CallInv => ErrorsTold
  <2> SUFFICES ASSUME CallInv, error # pending, rax # -4095
               PROVE  /\ rax < 0 => result = -1
                      /\ rax >= 0 => result = rax /\ error = 0
                      /\ rax \in -max_err_idx .. -1 /\ wrapper # "ignored" =>
                           error = - rax \/ rax \in {-41, -58}
    BY DEF ErrorsTold
  <2>1. rax \in Int /\ (rax < 0 => IsError(rax)) /\ (rax >= 0 => ~ IsError(rax))
    BY CallsAssumption DEF CallInv, IsError
  <2>2. /\ IF rax < 0 THEN result = -1 /\ errno = - rax ELSE result = rax /\ errno = 0
        /\ error = IF wrapper = "ignored" THEN 0 ELSE set_error(errno)
    BY <2>1 DEF CallInv
  <2>3. set_error(0) = 0
    BY DEF set_error, syscall_errors, max_err_idx
  <2>4. ASSUME rax \in -max_err_idx .. -1, rax \notin {-41, -58}
        PROVE  set_error(- rax) = - rax
    BY <2>4 DEF set_error, syscall_errors, max_err_idx
  <2> QED  BY <2>1, <2>2, <2>3, <2>4 DEF max_err_idx
<1> QED  BY <1>1, <1>2, <1>3, PTL DEF CallSpec

-----------------------------------------------------------------------------
(***************************************************************************)
(* Calendar, for every year from 1970 on and every second of a day.        *)
(***************************************************************************)

\* Days from 1 January 1601 to 1 January of the year.
DayNumber(year) ==
  365 * (year - 1601) + (year - 1601) \div 4 - (year - 1601) \div 100
    + (year - 1601) \div 400

\* Years counted from 1601 in periods of 400, of 100, of 4 years and single ones.
IsSplit(k, A, C, Q, R) ==
  /\ k = 400 * A + 100 * C + 4 * Q + R
  /\ DayNumber(k + 1601) = 146097 * A + 36524 * C + 1461 * Q + 365 * R
  /\ LeapYear(k + 1601) <=> R = 3 /\ (Q # 24 \/ C = 3)

\* Years counted from 1601 are periods of 400, of 100, of 4 and single ones; the last year of
\* four is a leap year, but for the last four of a hundred, but for the last hundred of 400.
LEMMA YearSplit ==
  ASSUME NEW k \in Nat
  PROVE  \E A \in Nat, C \in 0 .. 3, Q \in 0 .. 24, R \in 0 .. 3 :
           IsSplit(k, A, C, Q, R)
<1> DEFINE A == k \div 400
           C == (k - 400 * A) \div 100
           Q == (k - 400 * A - 100 * C) \div 4
           R == k - 400 * A - 100 * C - 4 * Q
<1>1. A \in Nat /\ C \in 0 .. 3 /\ Q \in 0 .. 24 /\ R \in 0 .. 3
  <2>1. A \in Nat /\ 400 * A <= k /\ k < 400 * A + 400
    OBVIOUS
  <2> HIDE DEF A
  <2>2. C \in 0 .. 3 /\ 100 * C <= k - 400 * A /\ k - 400 * A < 100 * C + 100
    BY <2>1
  <2> HIDE DEF C
  <2>3. Q \in 0 .. 24 /\ 4 * Q <= k - 400 * A - 100 * C /\ k - 400 * A - 100 * C < 4 * Q + 4
    BY <2>1, <2>2
  <2> HIDE DEF Q
  <2>4. R \in 0 .. 3
    BY <2>1, <2>2, <2>3
  <2> QED  BY <2>1, <2>2, <2>3, <2>4
<1>2. k = 400 * A + 100 * C + 4 * Q + R
  <2>1. A \in Int /\ C \in Int /\ Q \in Int
    BY <1>1
  <2> HIDE DEF A, C, Q
  <2> QED  BY <2>1, SMT
<1> HIDE DEF A, C, Q, R
<1>3. k \div 4 = 100 * A + 25 * C + Q /\ k \div 100 = 4 * A + C /\ k \div 400 = A
  BY <1>1, <1>2
<1>4. DayNumber(k + 1601) = 146097 * A + 36524 * C + 1461 * Q + 365 * R
  BY <1>1, <1>2, <1>3, SMT DEF DayNumber
<1>5. (k + 1601) % 4 = 0 <=> R = 3
  BY <1>1, <1>2
<1>6. (k + 1601) % 100 = 0 <=> R = 3 /\ Q = 24
  BY <1>1, <1>2
<1>7. (k + 1601) % 400 = 0 <=> R = 3 /\ Q = 24 /\ C = 3
  BY <1>1, <1>2
<1>8. LeapYear(k + 1601) <=> R = 3 /\ (Q # 24 \/ C = 3)
  BY <1>1, <1>5, <1>6, <1>7, SMT DEF LeapYear
<1>9. IsSplit(k, A, C, Q, R)
  BY <1>2, <1>4, <1>8, SMT DEF IsSplit
<1> QED  BY <1>1, <1>9

\* A year has 365 days, a leap year one more.
LEMMA NextYear ==
  ASSUME NEW year \in Nat, 1601 <= year
  PROVE  DayNumber(year + 1) = DayNumber(year) + IF LeapYear(year) THEN 366 ELSE 365
<1> DEFINE k == year - 1601
<1>1. k \in Nat /\ year = k + 1601 /\ year + 1 - 1601 = k + 1
  BY SMT
<1> HIDE DEF k
<1>2. /\ (k + 1) \div 4 = k \div 4 + IF (k + 1) % 4 = 0 THEN 1 ELSE 0
      /\ (k + 1) \div 100 = k \div 100 + IF (k + 1) % 100 = 0 THEN 1 ELSE 0
      /\ (k + 1) \div 400 = k \div 400 + IF (k + 1) % 400 = 0 THEN 1 ELSE 0
  BY <1>1, SMT
<1>3. LeapYear(year) <=> (k + 1) % 4 = 0 /\ ((k + 1) % 100 # 0 \/ (k + 1) % 400 = 0)
  BY <1>1, SMT DEF LeapYear
<1>4. ((k + 1) % 400 = 0 => (k + 1) % 100 = 0) /\ ((k + 1) % 100 = 0 => (k + 1) % 4 = 0)
  BY <1>1, SMT
<1> QED  BY <1>1, <1>2, <1>3, <1>4, SMT DEF DayNumber

\* Days in whole periods of 400 years and the rest.
LEMMA PeriodsOf400 ==
  ASSUME NEW A \in Nat, NEW r \in Nat, r < 146097
  PROVE  (146097 * A + r) % 146097 = r /\ (146097 * A + r) \div 146097 = A
BY SMT

\* Periods of 100, of 4 years and of one, the last of which may be a day longer.
LEMMA PeriodsOf100 ==
  ASSUME NEW C \in 0 .. 3, NEW r \in Nat, r <= 36524, r = 36524 => C = 3
  PROVE  Periods(36524 * C + r, 36524, 3) = C
BY SMT DEF Periods

LEMMA PeriodsOf4 ==
  ASSUME NEW Q \in 0 .. 24, NEW r \in Nat, r <= 1460
  PROVE  Periods(1461 * Q + r, 1461, 24) = Q
BY SMT DEF Periods

LEMMA PeriodsOf1 ==
  ASSUME NEW R \in 0 .. 3, NEW r \in Nat, r <= 365, r = 365 => R = 3
  PROVE  Periods(365 * R + r, 365, 3) = R
BY SMT DEF Periods

\* The quotients of time_to_tm, limited to the number of periods there are, find the year and
\* the day in it.
IsDayOf(day, A, C, Q, R, yday) ==
  /\ day = 146097 * A + 36524 * C + 1461 * Q + 365 * R + yday
  /\ yday < 365 \/ (yday = 365 /\ R = 3 /\ (Q # 24 \/ C = 3))

YearFound(day, A, C, Q, R, yday) ==
  LET in400 == day % 146097
      c     == Periods(in400, 36524, 3)
      in100 == in400 - c * 36524
      q     == Periods(in100, 1461, 24)
      in4   == in100 - q * 1461
      a     == Periods(in4, 365, 3)
  IN  day \div 146097 = A /\ c = C /\ q = Q /\ a = R /\ in4 - a * 365 = yday

LEMMA PeriodsFound ==
  ASSUME NEW A \in Nat, NEW C \in 0 .. 3, NEW Q \in 0 .. 24, NEW R \in 0 .. 3,
         NEW yday \in Nat, NEW day, IsDayOf(day, A, C, Q, R, yday)
  PROVE  YearFound(day, A, C, Q, R, yday)
<1> DEFINE in4   == 365 * R + yday
           in100 == 1461 * Q + in4
           in400 == 36524 * C + in100
<1>1. Periods(in4, 365, 3) = R
  BY PeriodsOf1, SMT DEF IsDayOf
<1>2. in4 \in Nat /\ in4 <= 1460 /\ (in4 = 1460 => Q # 24 \/ C = 3)
  BY SMT DEF IsDayOf
<1> HIDE DEF in4
<1>3. Periods(in100, 1461, 24) = Q
  BY <1>2, SMT DEF Periods
<1>4. in100 \in Nat /\ in100 <= 36524 /\ (in100 = 36524 => C = 3)
  BY <1>2, SMT
<1> HIDE DEF in100
<1>5. Periods(in400, 36524, 3) = C
  <2>1. in400 \div 36524 = IF in100 = 36524 THEN C + 1 ELSE C
    BY <1>4, SMTT(30)
  <2> QED  BY <1>4, <2>1, SMT DEF Periods
<1>6. in400 \in Nat /\ in400 < 146097
  BY <1>4, SMT
<1> HIDE DEF in400
<1>7. day = 146097 * A + in400
  BY SMT DEF in400, in100, in4, IsDayOf
<1>8. day % 146097 = in400 /\ day \div 146097 = A
  BY <1>6, <1>7, PeriodsOf400, SMT
<1>9. in400 - C * 36524 = in100 /\ in100 - Q * 1461 = in4 /\ in4 - R * 365 = yday
  BY <1>2, <1>4, <1>6, SMT DEF in400, in100, in4
<1> QED  BY <1>1, <1>3, <1>5, <1>8, <1>9, SMT DEF YearFound

\* The columns of the table, of a leap year and of another one.
OfLeapYear(d) ==
  /\ d[1] = 0 /\ d[2] = 31 /\ d[3] = 60 /\ d[4] = 91 /\ d[5] = 121 /\ d[6] = 152 /\ d[7] = 182
  /\ d[8] = 213 /\ d[9] = 244 /\ d[10] = 274 /\ d[11] = 305 /\ d[12] = 335 /\ d[13] = 366
OfOtherYear(d) ==
  /\ d[1] = 0 /\ d[2] = 31 /\ d[3] = 59 /\ d[4] = 90 /\ d[5] = 120 /\ d[6] = 151 /\ d[7] = 181
  /\ d[8] = 212 /\ d[9] = 243 /\ d[10] = 273 /\ d[11] = 304 /\ d[12] = 334 /\ d[13] = 365

LEMMA TableColumns ==
  OfLeapYear(days_since_jan_1st[TRUE]) /\ OfOtherYear(days_since_jan_1st[FALSE])
<1>1. days_since_jan_1st[TRUE] =
        <<0, 31, 60, 91, 121, 152, 182, 213, 244, 274, 305, 335, 366>>
  BY SMT DEF days_since_jan_1st
<1>2. days_since_jan_1st[FALSE] =
        <<0, 31, 59, 90, 120, 151, 181, 212, 243, 273, 304, 334, 365>>
  BY SMT DEF days_since_jan_1st
<1>3. OfLeapYear(days_since_jan_1st[TRUE])
  BY <1>1, SMT DEF OfLeapYear
<1>4. OfOtherYear(days_since_jan_1st[FALSE])
  BY <1>2, SMT DEF OfOtherYear
<1> QED  BY <1>3, <1>4

\* The days before a month, and the month's, are the days before the next one.
LEMMA MonthLengths ==
  ASSUME NEW year \in Nat, NEW mon \in 0 .. 11, NEW d, d = days_since_jan_1st[LeapYear(year)]
  PROVE  /\ d[mon + 1] \in Nat /\ LastDay(year, mon) \in 28 .. 31
         /\ d[mon + 2] = d[mon + 1] + LastDay(year, mon)
<1>1. LeapYear(year) <=> year % 400 = 0 \/ (year % 4 = 0 /\ year % 100 # 0)
  BY SMT DEF LeapYear
<1>2. LastDay(year, 1) = IF LeapYear(year) THEN 29 ELSE 28
  BY <1>1, SMT DEF LastDay
<1>3. mon # 1 => LastDay(year, mon) = IF mon \in {3, 5, 8, 10} THEN 30 ELSE 31
  BY SMT DEF LastDay
<1>4. \/ mon = 0 \/ mon = 1 \/ mon = 2 \/ mon = 3 \/ mon = 4 \/ mon = 5
      \/ mon = 6 \/ mon = 7 \/ mon = 8 \/ mon = 9 \/ mon = 10 \/ mon = 11
  BY SMT
<1>5. CASE LeapYear(year)
  <2>1. LeapYear(year) = TRUE
    BY <1>5 DEF LeapYear
  <2>2. OfLeapYear(d)
    BY <2>1, TableColumns
  <2>3. LastDay(year, 1) = 29
    BY <1>2, <1>5
  <2> QED  BY <1>3, <1>4, <2>2, <2>3, SMT DEF OfLeapYear
<1>6. CASE ~ LeapYear(year)
  <2>1. LeapYear(year) = FALSE
    BY <1>6 DEF LeapYear
  <2>2. OfOtherYear(d)
    BY <2>1, TableColumns
  <2>3. LastDay(year, 1) = 28
    BY <1>2, <1>6
  <2> QED  BY <1>3, <1>4, <2>2, <2>3, SMT DEF OfOtherYear
<1> QED  BY <1>5, <1>6

\* Later months begin later; a year begins on its day 0 and has 365 days or 366.
LEMMA MonthsInOrder ==
  ASSUME NEW leap \in BOOLEAN, NEW d, d = days_since_jan_1st[leap]
  PROVE  /\ \A i \in 1 .. 13 : d[i] \in Nat
         /\ \A i, k \in 1 .. 13 : i < k => d[i] < d[k]
         /\ d[1] = 0 /\ d[13] = IF leap THEN 366 ELSE 365
<1>1. \A i \in 1 .. 13 : \/ i = 1 \/ i = 2 \/ i = 3 \/ i = 4 \/ i = 5 \/ i = 6 \/ i = 7
                         \/ i = 8 \/ i = 9 \/ i = 10 \/ i = 11 \/ i = 12 \/ i = 13
  BY SMT
<1>2. CASE leap = TRUE
  <2>1. OfLeapYear(d)
    BY <1>2, TableColumns
  <2>2. \A i \in 1 .. 13 : d[i] \in Nat
    BY <1>1, <2>1, SMT DEF OfLeapYear
  <2>3. ASSUME NEW i \in 1 .. 13, NEW k \in 1 .. 13, i < k PROVE d[i] < d[k]
    BY <1>1, <2>1, <2>3, SMT DEF OfLeapYear
  <2>4. d[1] = 0 /\ d[13] = 366
    BY <2>1 DEF OfLeapYear
  <2> QED  BY <1>2, <2>2, <2>3, <2>4
<1>3. CASE leap = FALSE
  <2>1. OfOtherYear(d)
    BY <1>3, TableColumns
  <2>2. \A i \in 1 .. 13 : d[i] \in Nat
    BY <1>1, <2>1, SMT DEF OfOtherYear
  <2>3. ASSUME NEW i \in 1 .. 13, NEW k \in 1 .. 13, i < k PROVE d[i] < d[k]
    BY <1>1, <2>1, <2>3, SMT DEF OfOtherYear
  <2>4. d[1] = 0 /\ d[13] = 365
    BY <2>1 DEF OfOtherYear
  <2> QED  BY <1>3, <2>2, <2>3, <2>4
<1> QED  BY <1>2, <1>3

\* The loop over the months finds the month of a day.
LEMMA MonthFound ==
  ASSUME NEW leap \in BOOLEAN, NEW d, d = days_since_jan_1st[leap], NEW mon \in 0 .. 11,
         NEW yday \in Nat, d[mon + 1] <= yday, yday < d[mon + 2]
  PROVE  MonthOf(yday, leap) = mon + 1
<1> DEFINE later == {m \in 1 .. 12 : yday < d[m + 1]}
<1>1. mon + 1 \in later
  OBVIOUS
<1>2. ASSUME NEW m \in later PROVE mon + 1 <= m
  <2>1. SUFFICES ASSUME m < mon + 1 PROVE FALSE
    OBVIOUS
  <2>2. d[m + 1] \in Nat /\ d[mon + 1] \in Nat /\ d[m + 1] <= d[mon + 1]
    <3>1. m + 1 = mon + 1 \/ m + 1 < mon + 1
      BY <2>1
    <3> QED  BY <3>1, MonthsInOrder
  <2> QED  BY <2>2
<1>3. Min(later) = mon + 1
  <2>1. \A m \in later : m \in Int
    OBVIOUS
  <2> HIDE DEF later
  <2> QED  BY <1>1, <1>2, <2>1 DEF Min
<1> QED  BY <1>1, <1>3 DEF MonthOf

\* The days the calendar counts are the days the code's year begins on: 134774 from 1601 to
\* 1970, then a day more for each leap year.
LEMMA DaysBeforeYear ==
  ASSUME NEW year \in Nat, 1970 <= year
  PROVE  DaysBefore(year) + EraDays = DayNumber(year)
<1> DEFINE Leaps(k) == {y \in 1970 .. 1970 + k - 1 : LastDay(y, 1) = 29}
           G == {k \in Nat : /\ IsFiniteSet(Leaps(k))
                             /\ Cardinality(Leaps(k)) + 365 * k + EraDays = DayNumber(1970 + k)}
<1>1. 0 \in G
  <2>1. Leaps(0) = {}
    BY SMT
  <2>2. DayNumber(1970) = EraDays
    BY SMT DEF DayNumber, EraDays
  <2>3. EraDays \in Nat
    BY SMT DEF EraDays
  <2> QED  BY <2>1, <2>2, <2>3, FS_EmptySet, SMT
<1>2. ASSUME NEW k \in Nat, k \in G PROVE k + 1 \in G
  <2> DEFINE y == 1970 + k
  <2>1. LastDay(y, 1) = 29 <=> LeapYear(y)
    BY SMT DEF LastDay, LeapYear
  <2>2. DayNumber(y + 1) = DayNumber(y) + IF LeapYear(y) THEN 366 ELSE 365
    <3>1. y \in Nat /\ 1601 <= y
      BY SMT
    <3> HIDE DEF y
    <3> QED  BY <3>1, NextYear
  <2>3. Leaps(k + 1) = IF LastDay(y, 1) = 29 THEN Leaps(k) \cup {y} ELSE Leaps(k)
    <3>1. 1970 .. y = (1970 .. y - 1) \cup {y}
      BY SMT
    <3>2. 1970 + (k + 1) - 1 = y
      BY SMT
    <3> HIDE DEF y
    <3> QED  BY <3>1, <3>2 
  <2>4. y \notin Leaps(k)
    BY SMT
  <2>5. IsFiniteSet(Leaps(k)) /\ Cardinality(Leaps(k)) \in Nat
        /\ Cardinality(Leaps(k)) + 365 * k + EraDays = DayNumber(y)
    BY <1>2, FS_CardinalityType
  <2>6. y + 1 = 1970 + (k + 1) /\ EraDays \in Nat
    BY SMT DEF EraDays
  <2> HIDE DEF Leaps, y
  <2>7. IsFiniteSet(Leaps(k + 1))
        /\ Cardinality(Leaps(k + 1)) = Cardinality(Leaps(k)) + IF LeapYear(y) THEN 1 ELSE 0
    <3>1. CASE LeapYear(y)
      <4>1. Leaps(k + 1) = Leaps(k) \cup {y}
        BY <2>1, <2>3, <3>1
      <4> QED  BY <2>4, <2>5, <3>1, <4>1, FS_AddElement
    <3>2. CASE ~ LeapYear(y)
      <4>1. Leaps(k + 1) = Leaps(k)
        BY <2>1, <2>3, <3>2
      <4> QED  BY <2>5, <3>2, <4>1, SMT
    <3> QED  BY <3>1, <3>2
  <2>8. Cardinality(Leaps(k + 1)) + 365 * (k + 1) + EraDays = DayNumber(1970 + (k + 1))
    BY <2>2, <2>5, <2>6, <2>7, SMT
  <2> QED  BY <2>7, <2>8
<1>3. year - 1970 \in G
  <2>1. year - 1970 \in Nat
    BY SMT
  <2> HIDE DEF G
  <2>2. \A m \in 0 .. (year - 1970) - 1 : m \in G => m + 1 \in G
    BY <1>2, SMT
  <2>3. \A m \in 0 .. year - 1970 : m \in G
    BY <1>1, <2>1, <2>2, UpTo
  <2> QED  BY <2>1, <2>3, SMT
<1>4. 1970 + (year - 1970) = year /\ 1970 + (year - 1970) - 1 = year - 1
  BY SMT
<1>5. DaysBefore(year) = 365 * (year - 1970) + Cardinality(Leaps(year - 1970))
  BY <1>4 DEF DaysBefore
<1>6. /\ IsFiniteSet(Leaps(year - 1970))
      /\ Cardinality(Leaps(year - 1970)) + 365 * (year - 1970) + EraDays = DayNumber(year)
  BY <1>3, <1>4
<1>7. Cardinality(Leaps(year - 1970)) \in Nat
  BY <1>6, FS_CardinalityType
<1> HIDE DEF Leaps
<1> QED  BY <1>5, <1>6, <1>7, SMT DEF EraDays

LEMMA SecondsAreShort ==
  /\ SecondsOfDay # {}
  /\ \A s \in SecondsOfDay : s \in Nat /\ s < 86400
BY CalendarAssumption

\* The day in Moscow, counted from 1970.
MoscowDay(clock) == clock.day + (clock.sec + MSK_Seconds) \div 86400

DateRecord == [year : Nat, mon : 0 .. 11, mday : Nat, yday : Nat, wday : Nat]

\* A date of the calendar: the day is one of its month, and yday says which of its year.
IsDate(d) ==
  /\ d \in DateRecord
  /\ d.year >= 1970
  /\ 1 <= d.mday /\ d.mday <= LastDay(d.year, d.mon)
  /\ d.yday = days_since_jan_1st[LeapYear(d.year)][d.mon + 1] + d.mday - 1

\* The inductive invariant: the date is the one of the day in Moscow, in days since 1601,
\* and the day of the week that of the number of the day.
CalendarInv ==
  /\ now \in [day : Nat, sec : Nat] /\ now.sec < 86400
  /\ IsDate(date)
  /\ MoscowDay(now) + EraDays = DayNumber(date.year) + date.yday
  /\ date.wday = (MoscowDay(now) + 4) % 7

\* LeapYear is one of the two columns of the table.
LEMMA LeapOrNot == ASSUME NEW year PROVE LeapYear(year) \in BOOLEAN
BY DEF LeapYear

\* A year has at least a day, and its day 0 is 1 January.
LEMMA FirstOfYear ==
  ASSUME NEW year \in Nat, 1970 <= year, NEW wday \in Nat
  PROVE  IsDate([year |-> year, mon |-> 0, mday |-> 1, yday |-> 0, wday |-> wday])
<1> DEFINE d == [year |-> year, mon |-> 0, mday |-> 1, yday |-> 0, wday |-> wday]
<1>1. LastDay(year, 0) = 31
  BY SMT DEF LastDay
<1>2. days_since_jan_1st[LeapYear(year)][0 + 1] = 0
  <2>1. days_since_jan_1st[LeapYear(year)][1] = 0
    BY LeapOrNot, MonthsInOrder
  <2> QED  BY <2>1, SMT
<1>3. d \in DateRecord
  BY SMT DEF DateRecord
<1>4. d.year = year /\ d.mon = 0 /\ d.mday = 1 /\ d.yday = 0
  OBVIOUS
<1> HIDE DEF d
<1>5. IsDate(d)
  BY <1>1, <1>2, <1>3, <1>4, SMT DEF IsDate
<1> QED  BY <1>5 DEF d

\* The first date is that of the clock.
LEMMA CalendarStarts == CalendarInit => CalendarInv
<1> SUFFICES ASSUME CalendarInit PROVE CalendarInv
  OBVIOUS
<1>1. PICK year \in FirstYear .. LastYear :
        /\ now = [day |-> DaysBefore(year), sec |-> 0]
        /\ date = [year |-> year, mon |-> 0, mday |-> 1, yday |-> 0,
                   wday |-> (4 + DaysBefore(year)) % 7]
  BY DEF CalendarInit
<1>2. year \in Nat /\ 1970 <= year
  BY CalendarAssumption
<1> DEFINE day == DaysBefore(year)
<1>3. day + EraDays = DayNumber(year)
  BY <1>2, DaysBeforeYear
<1>4. day \in Nat
  <2>1. IsFiniteSet(1970 .. year - 1)
    BY <1>2, FS_Interval
  <2>2. IsFiniteSet({y \in 1970 .. year - 1 : LastDay(y, 1) = 29})
    BY <2>1, FS_Subset
  <2>3. Cardinality({y \in 1970 .. year - 1 : LastDay(y, 1) = 29}) \in Nat
    BY <2>2, FS_CardinalityType
  <2> QED  BY <1>2, <2>3, SMT DEF DaysBefore
<1> HIDE DEF day
<1>5. MoscowDay(now) = day
  BY <1>1, <1>4, SMT DEF MoscowDay, MSK_Seconds, day
<1>6. (4 + day) % 7 \in Nat /\ (4 + day) % 7 = (day + 4) % 7
  BY <1>4, SMT
<1>7. IsDate(date)
  BY <1>1, <1>2, <1>6, FirstOfYear DEF day
<1>8. date.year = year /\ date.yday = 0 /\ date.wday = (4 + day) % 7
  BY <1>1 DEF day
<1>9. now \in [day : Nat, sec : Nat] /\ now.sec < 86400
  BY <1>1, <1>4, SMT DEF day
<1>10. DayNumber(year) + 0 = DayNumber(year)
  BY <1>2, SMT DEF DayNumber
<1> QED  BY <1>3, <1>5, <1>6, <1>7, <1>8, <1>9, <1>10 DEF CalendarInv

\* The clock goes on: a day begins in Moscow when the hand goes back.
LEMMA HandMoves ==
  ASSUME CalendarInv, Tick
  PROVE  /\ now' \in [day : Nat, sec : Nat] /\ now'.sec < 86400
         /\ MoscowDay(now') =
              MoscowDay(now) + IF MoscowSecond(now') <= MoscowSecond(now) THEN 1 ELSE 0
<1> DEFINE later == {s \in SecondsOfDay : s > now.sec}
           day == now.day
           sec == now.sec
<1>1. now = [day |-> day, sec |-> sec] /\ day \in Nat /\ sec \in Nat /\ sec < 86400
  BY DEF CalendarInv
<1>2. \A S : S \subseteq SecondsOfDay /\ S # {} => Min(S) \in S /\ \A s \in S : Min(S) <= s
  <2>1. SUFFICES ASSUME NEW S, S \subseteq SecondsOfDay, S # {}
                 PROVE  Min(S) \in S /\ \A s \in S : Min(S) <= s
    OBVIOUS
  <2>2. S \subseteq Nat
    BY <2>1, SecondsAreShort
  <2>3. \E k \in S : \A m \in S : k <= m
    BY <2>1, <2>2, LeastOf
  <2> QED  BY <2>3 DEF Min
<1>3. now' = NextSecond
  BY DEF Tick
<1>4. PICK s \in SecondsOfDay :
        \/ now' = [day |-> day, sec |-> s] /\ sec < s
        \/ now' = [day |-> day + 1, sec |-> s] /\ s <= sec
  <2>1. CASE later # {}
    <3>1. Min(later) \in later
      BY <1>2, <2>1
    <3>2. now' = [day |-> day, sec |-> Min(later)]
      BY <1>1, <1>3, <2>1 DEF NextSecond
    <3>3. Min(later) \in SecondsOfDay /\ Min(later) > sec
      BY <3>1
    <3>4. sec < Min(later)
      BY <1>1, <3>3, SecondsAreShort
    <3> QED  BY <3>2, <3>3, <3>4
  <2>2. CASE later = {}
    <3>1. Min(SecondsOfDay) \in SecondsOfDay
      BY <1>2, SecondsAreShort
    <3>2. Min(SecondsOfDay) <= sec
      BY <1>1, <2>2, <3>1, SecondsAreShort
    <3>3. now' = [day |-> day + 1, sec |-> Min(SecondsOfDay)]
      BY <1>3, <2>2 DEF NextSecond
    <3> QED  BY <3>1, <3>2, <3>3
  <2> QED  BY <2>1, <2>2
<1>5. s \in Nat /\ s < 86400
  BY SecondsAreShort
<1>6. now'.sec = s /\ (now'.day = day \/ now'.day = day + 1)
      /\ (now'.day = day => sec < s) /\ (now'.day # day => s <= sec)
  BY <1>1, <1>4, <1>5
<1>7. now' \in [day : Nat, sec : Nat]
  BY <1>1, <1>4, <1>5
<1>8. /\ MoscowDay(now') = now'.day + (s + 10800) \div 86400
      /\ MoscowDay(now) = day + (sec + 10800) \div 86400
      /\ MoscowSecond(now') = (s + 10800) % 86400
      /\ MoscowSecond(now) = (sec + 10800) % 86400
  <2>1. MSK_Seconds = 10800 /\ 3 * 3600 = 10800
    BY SMT DEF MSK_Seconds
  <2> QED  BY <1>6, <2>1 DEF MoscowDay, MoscowSecond
<1> HIDE DEF day, sec, later
<1>9. \A x \in Nat : x < 86400 =>
        IF x < 75600 THEN (x + 10800) \div 86400 = 0 /\ (x + 10800) % 86400 = x + 10800
        ELSE (x + 10800) \div 86400 = 1 /\ (x + 10800) % 86400 = x - 75600
  BY SMT
<1> QED  BY <1>1, <1>5, <1>6, <1>7, <1>8, <1>9, SMT

\* The days of a month lie in the year before the next month.
LEMMA DayInMonth ==
  ASSUME NEW d, IsDate(d), NEW begin, begin = days_since_jan_1st[LeapYear(d.year)]
  PROVE  /\ begin[d.mon + 1] \in Nat /\ begin[d.mon + 1] <= d.yday /\ d.yday < begin[d.mon + 2]
         /\ d.yday < 365 \/ (d.yday = 365 /\ LeapYear(d.year))
<1>1. d.year \in Nat /\ d.mon \in 0 .. 11 /\ d.mday \in Nat /\ d.yday \in Nat
  BY DEF IsDate, DateRecord
<1>2. /\ begin[d.mon + 1] \in Nat /\ LastDay(d.year, d.mon) \in 28 .. 31
      /\ begin[d.mon + 2] = begin[d.mon + 1] + LastDay(d.year, d.mon)
  BY <1>1, MonthLengths
<1>3. 1 <= d.mday /\ d.mday <= LastDay(d.year, d.mon)
      /\ d.yday = begin[d.mon + 1] + d.mday - 1
  BY DEF IsDate, DateRecord
<1>4. begin[d.mon + 1] <= d.yday /\ d.yday < begin[d.mon + 2]
  BY <1>1, <1>2, <1>3, SMT
<1>5. /\ \A i, k \in 1 .. 13 : i < k => begin[i] < begin[k]
      /\ \A i \in 1 .. 13 : begin[i] \in Nat
      /\ begin[13] = IF LeapYear(d.year) THEN 366 ELSE 365
  BY LeapOrNot, MonthsInOrder
<1>6. d.mon + 2 \in 1 .. 13 /\ (d.mon + 2 = 13 \/ d.mon + 2 < 13)
  BY <1>1, SMT
<1>7. begin[d.mon + 2] \in Nat /\ begin[d.mon + 2] <= begin[13] /\ begin[13] \in Nat
  BY <1>5, <1>6, SMT
<1>8. begin[13] = 365 \/ (begin[13] = 366 /\ LeapYear(d.year))
  BY <1>5
<1> QED  BY <1>1, <1>2, <1>4, <1>7, <1>8, SMT

\* The day after a date is a date, a day later in the count from 1601 and in the week.
LEMMA NextDateIsDate ==
  ASSUME NEW d, IsDate(d)
  PROVE  LET e == NextDate(d)
         IN  /\ IsDate(e)
             /\ DayNumber(e.year) + e.yday = DayNumber(d.year) + d.yday + 1
             /\ e.wday = (d.wday + 1) % 7
<1> DEFINE begin == days_since_jan_1st[LeapYear(d.year)]
           week == (d.wday + 1) % 7
<1>1. /\ d \in DateRecord
      /\ d.year \in Nat /\ d.year >= 1970 /\ d.mon \in 0 .. 11 /\ d.mday \in Nat
      /\ d.yday \in Nat /\ d.wday \in Nat
  BY DEF IsDate, DateRecord
<1>2. 1 <= d.mday /\ d.mday <= LastDay(d.year, d.mon)
      /\ d.yday = begin[d.mon + 1] + d.mday - 1
  BY DEF IsDate, DateRecord
<1>3. /\ begin[d.mon + 1] \in Nat /\ LastDay(d.year, d.mon) \in 28 .. 31
      /\ begin[d.mon + 2] = begin[d.mon + 1] + LastDay(d.year, d.mon)
  BY <1>1, MonthLengths
<1>4. week \in Nat
  BY <1>1, SMT
<1>5. DayNumber(d.year) \in Int
  BY <1>1, SMT DEF DayNumber
<1> HIDE DEF begin, week
<1>6. d \in DateRecord
  BY DEF IsDate
<1>7. CASE d.mday < LastDay(d.year, d.mon)
  <2> DEFINE mday == d.mday + 1
             yday == d.yday + 1
             f == [d EXCEPT !.mday = mday, !.yday = yday]
             e == [f EXCEPT !.wday = week]
  <2>1. NextDate(d) = e
    BY <1>7 DEF NextDate, week
  <2>2. e \in DateRecord
        /\ e.year = d.year /\ e.mon = d.mon /\ e.mday = d.mday + 1 /\ e.yday = d.yday + 1
        /\ e.wday = week
    <3>1. mday \in Nat /\ yday \in Nat
      BY <1>1, SMT
    <3> HIDE DEF mday, yday
    <3>2. f \in DateRecord /\ f.year = d.year /\ f.mon = d.mon /\ f.mday = mday
          /\ f.yday = yday
      BY <1>6, <3>1 DEF DateRecord
    <3> HIDE DEF f
    <3>3. e \in DateRecord
      BY <1>4, <3>2 DEF DateRecord
    <3>4. e.year = f.year /\ e.mon = f.mon /\ e.mday = f.mday /\ e.yday = f.yday
          /\ e.wday = week
      BY <3>2 DEF DateRecord
    <3> HIDE DEF e
    <3> QED  BY <3>2, <3>3, <3>4 DEF mday, yday
  <2> HIDE DEF e, f
  <2>3. e.mday <= LastDay(e.year, e.mon) /\ 1 <= e.mday
    BY <1>1, <1>3, <1>7, <2>2, SMT
  <2>4. e.yday = begin[e.mon + 1] + e.mday - 1
    BY <1>1, <1>2, <1>3, <2>2, SMT
  <2>5. IsDate(e)
    BY <1>1, <2>2, <2>3, <2>4 DEF IsDate, begin
  <2>6. DayNumber(e.year) + e.yday = DayNumber(d.year) + d.yday + 1
    BY <1>1, <1>5, <2>2, SMT
  <2> QED  BY <2>1, <2>2, <2>5, <2>6 DEF week
<1>8. CASE ~ (d.mday < LastDay(d.year, d.mon)) /\ d.mon < 11
  <2> DEFINE mon == d.mon + 1
             yday == d.yday + 1
             f == [d EXCEPT !.mday = 1, !.mon = mon]
             e == [f EXCEPT !.yday = yday, !.wday = week]
  <2>1. NextDate(d) = e
    BY <1>8 DEF NextDate, week
  <2>2. e \in DateRecord
        /\ e.year = d.year /\ e.mon = d.mon + 1 /\ e.mday = 1 /\ e.yday = d.yday + 1
        /\ e.wday = week
    <3>1. mon \in 0 .. 11 /\ yday \in Nat /\ 1 \in Nat
      BY <1>1, <1>8, SMT
    <3> HIDE DEF mon, yday
    <3>2. f \in DateRecord /\ f.year = d.year /\ f.mon = mon /\ f.mday = 1
      BY <1>6, <3>1 DEF DateRecord
    <3> HIDE DEF f
    <3>3. e \in DateRecord
      BY <1>4, <3>1, <3>2 DEF DateRecord
    <3>4. e.year = f.year /\ e.mon = f.mon /\ e.mday = f.mday /\ e.yday = yday
          /\ e.wday = week
      BY <3>2 DEF DateRecord
    <3> HIDE DEF e
    <3> QED  BY <3>2, <3>3, <3>4 DEF mon, yday
  <2> HIDE DEF e, f
  <2>3. LastDay(e.year, e.mon) \in 28 .. 31
    <3>1. e.year \in Nat /\ e.mon \in 0 .. 11
      BY <2>2 DEF DateRecord
    <3> QED  BY <3>1, MonthLengths
  <2>4. 1 <= e.mday /\ e.mday <= LastDay(e.year, e.mon)
    BY <2>2, <2>3, SMT
  <2>5. d.mday = LastDay(d.year, d.mon) /\ d.mon + 2 = e.mon + 1
    BY <1>1, <1>2, <1>3, <1>8, <2>2, SMT
  <2>6. e.yday = begin[e.mon + 1] + e.mday - 1
    <3>1. e.yday = begin[d.mon + 2]
      BY <1>1, <1>2, <1>3, <2>2, <2>5, SMT
    <3>2. begin[d.mon + 2] \in Int
      BY <1>3, SMT
    <3> QED  BY <2>2, <2>5, <3>1, <3>2, SMT
  <2>7. IsDate(e)
    BY <1>1, <2>2, <2>4, <2>6 DEF IsDate, begin
  <2>8. DayNumber(e.year) + e.yday = DayNumber(d.year) + d.yday + 1
    BY <1>1, <1>5, <2>2, SMT
  <2> QED  BY <2>1, <2>2, <2>7, <2>8 DEF week
<1>9. CASE ~ (d.mday < LastDay(d.year, d.mon)) /\ ~ (d.mon < 11)
  <2> DEFINE e == [year |-> d.year + 1, mon |-> 0, mday |-> 1, yday |-> 0, wday |-> week]
  <2>1. NextDate(d) = e
    BY <1>9 DEF NextDate, week
  <2>2. IsDate(e)
    <3>1. d.year + 1 \in Nat /\ 1970 <= d.year + 1
      BY <1>1, SMT
    <3> QED  BY <1>4, <3>1, FirstOfYear
  <2>3. e.year = d.year + 1 /\ e.yday = 0 /\ e.wday = week
    OBVIOUS
  <2>4. d.mon = 11 /\ d.mday = LastDay(d.year, d.mon) /\ d.mon + 2 = 13
    BY <1>1, <1>2, <1>3, <1>9, SMT
  <2>5. begin[13] = IF LeapYear(d.year) THEN 366 ELSE 365
    BY LeapOrNot, MonthsInOrder DEF begin
  <2>6. d.yday + 1 = IF LeapYear(d.year) THEN 366 ELSE 365
    <3>1. d.yday + 1 = begin[13]
      BY <1>1, <1>2, <1>3, <2>4, SMT
    <3> QED  BY <2>5, <3>1
  <2>7. DayNumber(d.year + 1) = DayNumber(d.year) + (d.yday + 1)
    BY <1>1, <2>6, NextYear
  <2> HIDE DEF e
  <2>8. DayNumber(e.year) + e.yday = DayNumber(d.year) + d.yday + 1
    BY <1>1, <1>5, <2>3, <2>7, SMT
  <2> QED  BY <2>1, <2>2, <2>3, <2>8 DEF week
<1> QED  BY <1>7, <1>8, <1>9

\* A second, and a date where a day begins, keep the clock and the date together.
LEMMA CalendarSteps == CalendarInv /\ [Tick]_calendarVars => CalendarInv'
<1> SUFFICES ASSUME CalendarInv, [Tick]_calendarVars PROVE CalendarInv'
  OBVIOUS
<1>1. CASE UNCHANGED calendarVars
  BY <1>1 DEF calendarVars, CalendarInv, IsDate
<1>2. CASE Tick
  <2>1. /\ now' \in [day : Nat, sec : Nat] /\ now'.sec < 86400
        /\ MoscowDay(now') =
             MoscowDay(now) + IF MoscowSecond(now') <= MoscowSecond(now) THEN 1 ELSE 0
    BY <1>2, HandMoves
  <2>2. MoscowDay(now) \in Nat /\ IsDate(date) /\ date.yday \in Nat
        /\ date.wday = (MoscowDay(now) + 4) % 7
        /\ MoscowDay(now) + EraDays = DayNumber(date.year) + date.yday
    <3>1. now.day \in Nat /\ now.sec \in Nat
      BY DEF CalendarInv
    <3>2. MoscowDay(now) \in Nat
      BY <3>1, SMT DEF MoscowDay, MSK_Seconds
    <3> QED  BY <3>2 DEF CalendarInv, IsDate, DateRecord
  <2>3. CASE MoscowSecond(now') <= MoscowSecond(now)
    <3>1. date' = NextDate(date) /\ MoscowDay(now') = MoscowDay(now) + 1
      BY <1>2, <2>1, <2>3 DEF Tick
    <3>2. /\ IsDate(date')
          /\ DayNumber(date'.year) + date'.yday = DayNumber(date.year) + date.yday + 1
          /\ date'.wday = (date.wday + 1) % 7
      BY <2>2, <3>1, NextDateIsDate
    <3>3. (((MoscowDay(now) + 4) % 7) + 1) % 7 = (MoscowDay(now) + 1 + 4) % 7
      BY <2>2, SMT
    <3>4. DayNumber(date.year) \in Int /\ EraDays \in Nat
      <4>1. date.year \in Nat
        BY <2>2 DEF IsDate, DateRecord
      <4> QED  BY <4>1, SMT DEF DayNumber, EraDays
    <3>5. MoscowDay(now') + EraDays = DayNumber(date'.year) + date'.yday
      BY <2>2, <3>1, <3>2, <3>4, SMT
    <3>6. date'.wday = (MoscowDay(now') + 4) % 7
      BY <2>2, <3>1, <3>2, <3>3
    <3> QED  BY <2>1, <3>2, <3>5, <3>6 DEF CalendarInv
  <2>4. CASE ~ (MoscowSecond(now') <= MoscowSecond(now))
    <3>1. date' = date /\ MoscowDay(now') = MoscowDay(now) + 0
      BY <1>2, <2>1, <2>4 DEF Tick
    <3>2. MoscowDay(now') = MoscowDay(now)
      BY <2>2, <3>1, SMT
    <3> QED  BY <2>1, <2>2, <3>1, <3>2 DEF CalendarInv
  <2> QED  BY <2>3, <2>4
<1> QED  BY <1>1, <1>2

\* time_to_tm, given a clock and the date of its day.
LEMMA DateFound ==
  ASSUME CalendarInv
  PROVE  LET tm == time_to_tm(now)
         IN  /\ tm.tm_sec = MoscowSecond(now) % 60
             /\ tm.tm_min = (MoscowSecond(now) % 3600) \div 60
             /\ tm.tm_hour = MoscowSecond(now) \div 3600
             /\ tm.tm_year + 1900 = date.year /\ tm.tm_mon = date.mon
             /\ tm.tm_mday = date.mday /\ tm.tm_yday = date.yday /\ tm.tm_wday = date.wday
<1> DEFINE s     == Shifted(now)
           in400 == s.day % 146097
           c     == Periods(in400, 36524, 3)
           in100 == in400 - c * 36524
           q     == Periods(in100, 1461, 24)
           in4   == in100 - q * 1461
           a     == Periods(in4, 365, 3)
           yday  == in4 - a * 365
           year  == 1601 + (s.day \div 146097) * 400 + c * 100 + q * 4 + a
           leap  == LeapYear(year)
           month == MonthOf(yday, leap)
           mday  == IF month = 13 THEN 1 ELSE 1 + yday - days_since_jan_1st[leap][month]
           tm    == time_to_tm(now)
<1>1. /\ tm.tm_sec = s.sec % 60 /\ tm.tm_min = (s.sec % 3600) \div 60
      /\ tm.tm_hour = s.sec \div 3600 /\ tm.tm_mday = mday
      /\ tm.tm_mon = month - 1 /\ tm.tm_year = year - 1900
      /\ tm.tm_wday = (s.day + 1) % 7 /\ tm.tm_yday = yday
  <2>1. tm = [tm_sec  |-> s.sec % 60,
       tm_min  |-> (s.sec % 3600) \div 60,
       tm_hour |-> s.sec \div 3600,
       tm_mday |-> mday,
       tm_mon  |-> month - 1,
       tm_year |-> year - 1900,
       tm_wday |-> (s.day + 1) % 7,
       tm_yday |-> yday]
    BY SMT DEF time_to_tm
  <2> HIDE DEF tm, s, mday, month, year, yday, leap, a, in4, q, in100, c, in400
  <2> QED BY <2>1, SMT
<1>2. s.sec = MoscowSecond(now) /\ s.day = MoscowDay(now) + EraDays
  <2>1. MSK_Seconds = 3 * 3600
    BY SMT DEF MSK_Seconds
  <2>2. s.day = MoscowDay(now) + EraDays
    BY DEF Shifted, MoscowDay
  <2>3. s.sec = MoscowSecond(now)
    BY <2>1 DEF Shifted, MoscowSecond
  <2> QED  BY <2>2, <2>3
<1> HIDE DEF s, tm
<1>3. /\ IsDate(date) /\ date.year \in Nat /\ date.year >= 1970 /\ date.mon \in 0 .. 11
      /\ date.yday \in Nat /\ date.mday \in Nat
  BY DEF CalendarInv, IsDate, DateRecord
<1> DEFINE begin == days_since_jan_1st[LeapYear(date.year)]
<1>4. /\ begin[date.mon + 1] \in Nat /\ begin[date.mon + 1] <= date.yday
      /\ date.yday < begin[date.mon + 2]
      /\ date.yday < 365 \/ (date.yday = 365 /\ LeapYear(date.year))
  BY <1>3, DayInMonth
<1>5. PICK A \in Nat, C \in 0 .. 3, Q \in 0 .. 24, R \in 0 .. 3 :
        IsSplit(date.year - 1601, A, C, Q, R)
  <2>1. date.year - 1601 \in Nat
    BY <1>3, SMT
  <2> QED  BY <2>1, YearSplit
<1>6. /\ date.year = 1601 + 400 * A + 100 * C + 4 * Q + R
      /\ DayNumber(date.year) = 146097 * A + 36524 * C + 1461 * Q + 365 * R
      /\ LeapYear(date.year) <=> R = 3 /\ (Q # 24 \/ C = 3)
  <2>1. date.year - 1601 + 1601 = date.year
    BY <1>3, SMT
  <2>2. date.year - 1601 = 400 * A + 100 * C + 4 * Q + R
    BY <1>5 DEF IsSplit
  <2>3. /\ DayNumber(date.year) = 146097 * A + 36524 * C + 1461 * Q + 365 * R
        /\ LeapYear(date.year) <=> R = 3 /\ (Q # 24 \/ C = 3)
    BY <1>5, <2>1 DEF IsSplit
  <2> QED  BY <1>3, <2>2, <2>3, SMT
<1>7. s.day = 146097 * A + 36524 * C + 1461 * Q + 365 * R + date.yday
  BY <1>2, <1>6 DEF CalendarInv
<1>8. s.day \div 146097 = A /\ c = C /\ q = Q /\ a = R /\ yday = date.yday
  <2>1. date.yday < 365 \/ (date.yday = 365 /\ R = 3 /\ (Q # 24 \/ C = 3))
    BY <1>4, <1>6
  <2>2. IsDayOf(s.day, A, C, Q, R, date.yday)
    BY <1>7, <2>1, SMT DEF IsDayOf
  <2> DEFINE day == s.day
             days == date.yday
  <2>3. days \in Nat /\ IsDayOf(day, A, C, Q, R, days)
    BY <1>3, <2>2
  <2>4. YearFound(day, A, C, Q, R, days)
    <3> HIDE DEF day, days
    <3> QED  BY <2>3, PeriodsFound
  <2> QED  BY <2>4, SMT DEF YearFound
<1> HIDE DEF in400, c, in100, q, in4, a, yday
<1>9. year = date.year
  BY <1>3, <1>6, <1>8, SMT
<1> HIDE DEF year
<1>10. leap = LeapYear(date.year)
  BY <1>9
<1>11. month = date.mon + 1
  <2>1. MonthOf(date.yday, LeapYear(date.year)) = date.mon + 1
    BY <1>3, <1>4, LeapOrNot, MonthFound
  <2> QED  BY <1>8, <1>10, <2>1
<1>12. mday = date.mday
  <2>1. days_since_jan_1st[leap][month] = begin[date.mon + 1]
    BY <1>10, <1>11
  <2>2. date.yday = begin[date.mon + 1] + date.mday - 1
    BY DEF CalendarInv, IsDate
  <2>3. month # 13
    BY <1>3, <1>11, SMT
  <2> QED  BY <1>3, <1>4, <1>8, <2>1, <2>2, <2>3, SMT
<1> HIDE DEF leap, month, mday
<1>13. (s.day + 1) % 7 = date.wday
  <2>1. MoscowDay(now) \in Nat
    <3>1. now.day \in Nat /\ now.sec \in Nat
      BY DEF CalendarInv
    <3> QED  BY <3>1, SMT DEF MoscowDay, MSK_Seconds
  <2>2. date.wday = (MoscowDay(now) + 4) % 7
    BY DEF CalendarInv
  <2>3. (MoscowDay(now) + EraDays + 1) % 7 = (MoscowDay(now) + 4) % 7
    BY <2>1, SMT DEF EraDays
  <2> QED  BY <1>2, <2>2, <2>3
<1>14. month - 1 = date.mon /\ (year - 1900) + 1900 = date.year
  BY <1>3, <1>9, <1>11, SMT
<1> QED  BY <1>1, <1>2, <1>8, <1>12, <1>13, <1>14 DEF tm

\* The hours, minutes and seconds of a number of seconds.
IsClock(x, hour, min, sec) ==
  /\ hour * 3600 + min * 60 + sec = x
  /\ min \in 0 .. 59 /\ sec \in 0 .. 59
ClockSplit(x) == IsClock(x, x \div 3600, (x % 3600) \div 60, x % 60)

LEMMA SecondsSplit ==
  ASSUME NEW x \in Nat
  PROVE  ClockSplit(x)
<1> DEFINE h == x \div 3600
           r == x % 3600
           m == r \div 60
<1>1. x % 60 \in 0 .. 59 /\ x % 60 = r % 60
  BY SMT
<1>2. h \in Nat /\ r \in Nat /\ r < 3600 /\ x = 3600 * h + r
  BY SMT
<1> DEFINE z == x % 60
<1> HIDE DEF h, r, z
<1>3. m \in 0 .. 59 /\ r = 60 * m + (r % 60)
  BY <1>2, SMT
<1> HIDE DEF m
<1>4. z = r % 60 /\ z \in 0 .. 59
  BY <1>1 DEF z
<1>5. h * 3600 + m * 60 + z = x
  <2>1. r = 60 * m + z
    BY <1>3, <1>4
  <2>2. m \in 0 .. 59 /\ z \in 0 .. 59
    BY <1>3, <1>4
  <2> QED  BY <1>2, <2>1, <2>2, SMT
<1>6. IsClock(x, h, m, z)
  BY <1>3, <1>4, <1>5, SMT DEF IsClock
<1> QED  BY <1>6 DEF ClockSplit, h, r, m, z

\* TimeAgrees for every second from 1970 on, whatever the year: the quotients of time_to_tm,
\* its table of months and its weekdays give the date of the calendar.
THEOREM TimeIsCivil == CalendarSpec => []TimeAgrees
<1>1. CalendarInv => TimeAgrees
  <2> SUFFICES ASSUME CalendarInv PROVE TimeAgrees
    OBVIOUS
  <2> DEFINE tm == time_to_tm(now)
             x == MoscowSecond(now)
  <2>1. /\ tm.tm_sec = x % 60 /\ tm.tm_min = (x % 3600) \div 60 /\ tm.tm_hour = x \div 3600
        /\ tm.tm_year + 1900 = date.year /\ tm.tm_mon = date.mon
        /\ tm.tm_mday = date.mday /\ tm.tm_yday = date.yday /\ tm.tm_wday = date.wday
    BY DateFound
  <2>2. x \in Nat
    <3>1. now.sec \in Nat
      BY DEF CalendarInv
    <3> QED  BY <3>1, SMT DEF MoscowSecond
  <2> HIDE DEF tm, x
  <2>3. ClockSplit(x)
    BY <2>2, SecondsSplit
  <2>4. IsClock(x, tm.tm_hour, tm.tm_min, tm.tm_sec)
    BY <2>1, <2>3 DEF ClockSplit
  <2> QED  BY <2>1, <2>4 DEF TimeAgrees, IsClock, tm, x
<1> QED  BY <1>1, CalendarStarts, CalendarSteps, PTL DEF CalendarSpec

YearsEnd == date.year <= LastYear + 1

\* A number below 100 takes two bytes when it is padded, a year up to 9999 four.
LEMMA BytesWritten ==
  ASSUME NEW k \in Nat
  PROVE  /\ k < 100 => Padded(k) = 2 /\ Digits(k) \in 1 .. 2
         /\ 1000 <= k /\ k < 10000 => Digits(k) = 4
BY SMT DEF Padded, Digits

\* What the formatters write of a time with a year of four digits.
LEMMA StampBytesOf ==
  ASSUME NEW tm,
         tm.tm_sec \in 0 .. 59, tm.tm_min \in 0 .. 59, tm.tm_hour \in 0 .. 23,
         tm.tm_mday \in 1 .. 31, tm.tm_mon \in 0 .. 11, NEW year \in Nat, 1000 <= year, year < 10000,
         tm.tm_year + 1900 = year
  PROVE  StampBytes(tm) <= StampRoom /\ tm_rfc822_in_slice(tm) = 31 /\ tm_in_slice(tm) = 23
<1>1. /\ Padded(tm.tm_sec) = 2 /\ Padded(tm.tm_min) = 2 /\ Padded(tm.tm_hour) = 2
      /\ Padded(tm.tm_mday) = 2
      /\ Digits(tm.tm_hour) \in 1 .. 2
  BY SMT DEF Padded, Digits
<1>2. Padded(tm.tm_mon + 1) = 2
  BY SMT DEF Padded, Digits
<1>3. Digits(tm.tm_year + 1900) = 4
  BY BytesWritten
<1>4. MinutesAndSeconds(tm) = 6
  BY <1>1, SMT DEF MinutesAndSeconds
<1>5. StampBytes(tm) <= StampRoom
  BY <1>1, <1>4, SMT DEF StampBytes, tm_in_slice2, StampRoom
<1>6. tm_rfc822_in_slice(tm) = 31
  BY <1>1, <1>3, <1>4, SMT DEF tm_rfc822_in_slice
<1>7. tm_in_slice(tm) = 23
  BY <1>1, <1>2, <1>3, <1>4, SMT DEF tm_in_slice
<1> QED  BY <1>5, <1>6, <1>7

\* StampsFit for every clock that ends before the year 10000.
THEOREM StampsAreShort ==
  ASSUME LastYear < 9999
  PROVE  CalendarSpec => []StampsFit
<1>1. CalendarInit => YearsEnd
  <2> SUFFICES ASSUME CalendarInit PROVE YearsEnd
    OBVIOUS
  <2>1. PICK year \in FirstYear .. LastYear : date.year = year
    BY DEF CalendarInit
  <2> QED  BY <2>1, CalendarAssumption, SMT DEF YearsEnd
<1>2. CalendarInv /\ YearsEnd /\ [Tick]_calendarVars => YearsEnd'
  <2> SUFFICES ASSUME CalendarInv, YearsEnd, [Tick]_calendarVars PROVE YearsEnd'
    OBVIOUS
  <2>1. date.year \in Nat /\ LastYear \in Nat /\ date \in DateRecord
    BY CalendarAssumption DEF CalendarInv, IsDate, DateRecord
  <2>2. NextDate(date).year \in {date.year, date.year + 1}
    BY <2>1, SMT DEF NextDate, DateRecord
  <2> QED  BY <2>1, <2>2, SMT DEF Tick, YearsEnd, calendarVars
<1>3. CalendarInv /\ YearsEnd => StampsFit
  <2> SUFFICES ASSUME CalendarInv, YearsEnd PROVE StampsFit
    OBVIOUS
  <2> DEFINE tm == time_to_tm(now)
             x == MoscowSecond(now)
  <2>1. /\ tm.tm_sec = x % 60 /\ tm.tm_min = (x % 3600) \div 60 /\ tm.tm_hour = x \div 3600
        /\ tm.tm_year + 1900 = date.year /\ tm.tm_mon = date.mon /\ tm.tm_mday = date.mday
    BY DateFound
  <2>2. x \in Nat /\ x < 86400
    <3>1. now.sec \in Nat
      BY DEF CalendarInv
    <3> QED  BY <3>1, SMT DEF MoscowSecond
  <2>3. IsDate(date) /\ date.year \in Nat /\ 1970 <= date.year /\ date.mon \in 0 .. 11
        /\ date.mday \in Nat
    BY DEF CalendarInv, IsDate, DateRecord
  <2>4. date.mday \in 1 .. 31
    <3>1. LastDay(date.year, date.mon) \in 28 .. 31
      BY <2>3, MonthLengths
    <3> QED  BY <2>3, <3>1, SMT DEF IsDate
  <2> HIDE DEF x, tm
  <2>5. ClockSplit(x)
    BY <2>2, SecondsSplit
  <2>6. tm.tm_sec \in 0 .. 59 /\ tm.tm_min \in 0 .. 59
    BY <2>1, <2>5 DEF ClockSplit, IsClock
  <2>7. tm.tm_hour \in 0 .. 23
    BY <2>1, <2>2, SMT
  <2>8. 1000 <= date.year /\ date.year < 10000
    BY <2>3, CalendarAssumption, SMT DEF YearsEnd
  <2>9. StampBytes(tm) <= StampRoom /\ tm_rfc822_in_slice(tm) = 31 /\ tm_in_slice(tm) = 23
    BY <2>1, <2>3, <2>4, <2>6, <2>7, <2>8, StampBytesOf
  <2> QED  BY <2>9 DEF StampsFit, tm
<1> QED  BY <1>1, <1>2, <1>3, CalendarStarts, CalendarSteps, PTL DEF CalendarSpec
=============================================================================
