----------------------------- MODULE RangeCopy -----------------------------
(***************************************************************************)
(* The relocation that every size change of a udm::Array is made of: two   *)
(* ranges of the old items are copied into a freshly allocated block, the  *)
(* rest of the block keeps whatever the allocation put there               *)
(* (src/src/array.cpp, Array::Resize and its callers).                     *)
(*                                                                         *)
(* A block of n items is a function on 0..(n-1), indexed like the C++      *)
(* pointer.                                                                *)
(***************************************************************************)
EXTENDS Integers

Indices(n) == 0..(n - 1)

(***************************************************************************)
(* udm::Array::Range, the tuple <src, dst, count>.  The counts are         *)
(* computed in uint32_t: a difference below zero wraps around to a huge    *)
(* count, so here a negative count stands for such a wrapped one.          *)
(***************************************************************************)
Range(src, dst, count) == [src |-> src, dst |-> dst, count |-> count]

SrcEnd(r) == r.src + r.count
DstEnd(r) == r.dst + r.count

\* The range reads only the m old items and writes only the n new ones.
InBounds(r, m, n) == r.count >= 0 /\ SrcEnd(r) <= m /\ DstEnd(r) <= n

AdjoinBySource(r0, r1) ==  \* mutant: r1.dst is not compared
  r1.src = SrcEnd(r0)

\* No gap between the ranges on either side: both are copied at once.
Adjoin(r0, r1) == r1.src = SrcEnd(r0) /\ r1.dst = DstEnd(r0)

FirstCopy(r0, r1) ==
  IF Adjoin(r0, r1) THEN Range(r0.src, r0.dst, r0.count + r1.count) ELSE r0

SecondCopy(r0, r1) ==
  IF Adjoin(r0, r1) THEN Range(r1.src, r1.dst, 0) ELSE r1

Writes(r, i) == r.dst <= i /\ i < DstEnd(r)

\* The indices that the three memset calls of Resize reset: what lies before
\* the first range, between the two, and after the second.
Vacant(r0, r1, i) ==
  \/ i < r0.dst
  \/ DstEnd(r0) <= i /\ i < r1.dst
  \/ DstEnd(r1) <= i

(***************************************************************************)
(* The block of n items after both copies.  fresh is what an index that no *)
(* range writes holds after the allocation.                                *)
(***************************************************************************)
RelocateKeepsGap(items, n, r0, r1, fresh) ==  \* mutant: always one copy
  LET r == Range(r0.src, r0.dst, r0.count + r1.count)
  IN  [i \in Indices(n) |-> IF Writes(r, i) THEN items[r.src + (i - r.dst)] ELSE fresh]

Relocate(items, n, r0, r1, fresh) ==
  LET first  == FirstCopy(r0, r1)
      second == SecondCopy(r0, r1)
  IN  [i \in Indices(n) |->
         IF Writes(second, i) THEN items[second.src + (i - second.dst)]
         ELSE IF Writes(first, i) THEN items[first.src + (i - first.dst)]
         ELSE fresh]

(***************************************************************************)
(* The range pairs of the callers, for an array of m items.                *)
(***************************************************************************)
RemoveRanges(m, idx) ==
  << Range(0, 0, idx), Range(idx + 1, idx, m - 1 - idx) >>

InsertRangesShort(m, idx) ==  \* mutant: the last item is not moved
  << Range(0, 0, idx), Range(idx, idx + 1, m - idx - 1) >>

InsertRanges(m, idx) ==
  << Range(0, 0, idx), Range(idx, idx + 1, m - idx) >>

AddRanges(m, start, count) ==
  << Range(0, 0, start), Range(start, start + count, m - start) >>

RemoveRangeRanges(m, start, count) ==
  << Range(0, 0, start), Range(start + count, start, m - (start + count)) >>

KeepRanges(m, n) ==
  LET size == IF m < n THEN m ELSE n
  IN  << Range(0, 0, size), Range(size, size, 0) >>
=============================================================================
