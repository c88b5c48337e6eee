------------------------------- MODULE Bitmap -------------------------------
(***************************************************************************)
(* struct Bitmap of kernel/src/page_alloc.rs at the level of its words: an *)
(* array of SIZE cells of WordBits bits, where page n is bit n % WordBits  *)
(* of cell n \div WordBits.  A cell is the set of its 1 bits.  The code's  *)
(* WordBits is 64 and its SIZE is 1024.                                    *)
(*                                                                         *)
(* The functions are operators that return the new array.  The machine at  *)
(* the end calls them with any arguments, so that the properties, which    *)
(* compare them with module PageSet, see every array the calls can build.  *)
(***************************************************************************)
EXTENDS PageSet

CONSTANTS
  WordBits,           \* 64, the bits of a cell
  SIZE,               \* cells
  DebugAssertions     \* debug_assert! is compiled in

ASSUME BitmapAssumption ==
  /\ WordBits \in Nat \ {0}
  /\ SIZE \in Nat \ {0}
  /\ DebugAssertions \in BOOLEAN

Bits == 0 .. (WordBits - 1)
Cells == 0 .. (SIZE - 1)
bit_capacity == SIZE * WordBits

get(bm, idx) == (idx % WordBits) \in bm[idx \div WordBits]

\* The shift is by idx, not by idx % 64.
SetUnreduced(bm, idx, value) ==
  [bm EXCEPT ![idx \div WordBits] = IF value THEN @ \cup {idx} ELSE @ \ {idx}]

set(bm, idx, value) ==
  [bm EXCEPT ![idx \div WordBits] =
     IF value THEN @ \cup {idx % WordBits} ELSE @ \ {idx % WordBits}]

\* The set of page numbers an array stands for.
Marked(bm) == {n \in 0 .. (bit_capacity - 1) : get(bm, n)}

-----------------------------------------------------------------------------
\* The run of free pages is not reset when a used page is met.
ScanPageNoReset(bm, page_count, n, s) ==
  IF s.returned # NoHole \/ get(bm, n)
  THEN s
  ELSE LET first == IF s.hole_count = 0 THEN n ELSE s.page_num
       IN  [page_num |-> first,
            hole_count |-> s.hole_count + 1,
            returned |-> IF s.hole_count + 1 = page_count THEN first ELSE NoHole]

(***************************************************************************)
(* find_hole: scan[n] is the pair of locals (page_num, hole_count) after n *)
(* pages, with the value that was returned by then.                        *)
(***************************************************************************)
ScanPage(bm, page_count, n, s) ==
  IF s.returned # NoHole
  THEN s
  ELSE IF ~get(bm, n)
  THEN LET first == IF s.hole_count = 0 THEN n ELSE s.page_num
       IN  [page_num |-> first,
            hole_count |-> s.hole_count + 1,
            returned |-> IF s.hole_count + 1 = page_count THEN first ELSE NoHole]
  ELSE [s EXCEPT !.page_num = @ + s.hole_count, !.hole_count = 0]

find_hole(bm, page_count) ==
  LET scan[n \in 0 .. bit_capacity] ==
        IF n = 0
        THEN [page_num |-> 0, hole_count |-> 0, returned |-> NoHole]
        ELSE ScanPage(bm, page_count, n - 1, scan[n - 1])
  IN  scan[bit_capacity].returned

-----------------------------------------------------------------------------
(***************************************************************************)
(* The three loops of mark_allocated and free: single pages up to a cell   *)
(* boundary, whole cells, single pages that are left.                      *)
(***************************************************************************)
HeadPages(page_num, page_count) ==
  LET to_boundary == (WordBits - (page_num % WordBits)) % WordBits
  IN  IF to_boundary < page_count THEN to_boundary ELSE page_count

\* The whole-cell loop starts one cell late.
WholeCellsLate(page_num, page_count) ==
  Run((page_num + HeadPages(page_num, page_count)) \div WordBits + 1,
      (page_count - HeadPages(page_num, page_count)) \div WordBits)

WholeCells(page_num, page_count) ==
  Run((page_num + HeadPages(page_num, page_count)) \div WordBits,
      (page_count - HeadPages(page_num, page_count)) \div WordBits)

SinglePages(page_num, page_count) ==
  {n \in Run(page_num, page_count) :
     n \div WordBits \notin WholeCells(page_num, page_count)}

\* The three loops with `value' written to every bit: written[n] is the array
\* once the whole cells and the single ones of the first n pages are written.
WriteLoops(bm, page_num, page_count, value) ==
  LET whole == WholeCells(page_num, page_count)
      written[n \in 0 .. page_count] ==
        IF n = 0
        THEN [c \in Cells |-> IF c \notin whole THEN bm[c]
                              ELSE IF value THEN Bits ELSE {}]
        ELSE IF page_num + n - 1 \in SinglePages(page_num, page_count)
        THEN set(written[n - 1], page_num + n - 1, value)
        ELSE written[n - 1]
  IN  written[page_count]

mark_allocated(bm, page_num, page_count) ==
  WriteLoops(bm, page_num, page_count, TRUE)

\* debug_assert!(..., "double alloc") of the three loops.
double_alloc(bm, page_num, page_count) ==
  \/ \E n \in SinglePages(page_num, page_count) : get(bm, n)
  \/ \E c \in WholeCells(page_num, page_count) : bm[c] # {}

free(bm, page_num, page_count) ==
  WriteLoops(bm, page_num, page_count, FALSE)

\* debug_assert!(..., "double free") of the three loops.
double_free(bm, page_num, page_count) ==
  \/ \E n \in SinglePages(page_num, page_count) : ~get(bm, n)
  \/ \E c \in WholeCells(page_num, page_count) : bm[c] # Bits

-----------------------------------------------------------------------------
\* Copying from the first bit to the last.
MoveAscending(bm, src_idx, dst_idx, count) ==
  LET moved[i \in 0 .. count] ==
        IF i = 0
        THEN bm
        ELSE set(moved[i - 1], dst_idx + i - 1, get(moved[i - 1], src_idx + i - 1))
  IN  moved[count]

(***************************************************************************)
(* move_bit_range_forward copies from the last bit to the first: moved[i]  *)
(* is the array once the bits i .. count-1 have been copied.               *)
(***************************************************************************)
move_bit_range_forward(bm, src_idx, dst_idx, count) ==
  LET moved[i \in 0 .. count] ==
        IF i = count
        THEN bm
        ELSE set(moved[i + 1], dst_idx + i, get(moved[i + 1], src_idx + i))
  IN  IF src_idx = dst_idx THEN bm ELSE moved[0]

\* zero_bit_range: the bits kept in the first and in the last cell.
prefix_mask(idx) == {b \in Bits : b < idx % WordBits}
SuffixOffByOne(idx) == {b \in Bits : b > idx % WordBits}
suffix_mask(idx) == {b \in Bits : b >= idx % WordBits}

zero_bit_range(bm, idx, count) ==
  LET end == idx + count
      first == idx \div WordBits
      last == end \div WordBits
      first_whole == (idx + WordBits - 1) \div WordBits
  IN  IF count = 0
      THEN bm
      ELSE IF first = last
      THEN [bm EXCEPT ![first] = @ \cap (prefix_mask(idx) \cup suffix_mask(end))]
      ELSE [c \in Cells |->
              IF c \in first_whole .. (last - 1) THEN {}
              ELSE IF c = first /\ idx % WordBits # 0 THEN bm[c] \cap prefix_mask(idx)
              ELSE IF c = last /\ end % WordBits # 0 THEN bm[c] \cap suffix_mask(end)
              ELSE bm[c]]

-----------------------------------------------------------------------------
(***************************************************************************)
(* The machine.  A failed assertion, or an index outside of the array,     *)
(* panics: the kernel stops, and what was written before the panic is      *)
(* never read again, so the array is left as it was.                       *)
(***************************************************************************)
VARIABLES bitmap, panicked

bmvars == <<bitmap, panicked>>

Init ==
  /\ bitmap = [c \in Cells |-> {}]
  /\ panicked = FALSE

\* A call that panics if `fails' and otherwise leaves `result'.
Call(fails, result) ==
  /\ ~panicked
  /\ panicked' = fails
  /\ bitmap' = IF fails THEN bitmap ELSE result

OutOfBounds(idx, count) == count > 0 /\ idx + count > bit_capacity

MarkAllocated(page_num, page_count) ==
  Call(\/ OutOfBounds(page_num, page_count)
       \/ DebugAssertions /\ double_alloc(bitmap, page_num, page_count),
       mark_allocated(bitmap, page_num, page_count))

Alloc(page_count) ==
  LET page_num == find_hole(bitmap, page_count)
  IN  IF page_num = NoHole
      THEN Call(FALSE, bitmap)
      ELSE MarkAllocated(page_num, page_count)

Free(page_num, page_count) ==
  Call(\/ OutOfBounds(page_num, page_count)
       \/ DebugAssertions /\ double_free(bitmap, page_num, page_count),
       free(bitmap, page_num, page_count))

MoveBitRangeForward(src_idx, dst_idx, count) ==
  Call(src_idx # dst_idx /\ (src_idx > dst_idx \/ OutOfBounds(dst_idx, count)),
       move_bit_range_forward(bitmap, src_idx, dst_idx, count))

ZeroBitRange(idx, count) ==
  Call(OutOfBounds(idx, count), zero_bit_range(bitmap, idx, count))

Index == 0 .. bit_capacity

Next ==
  \/ \E count \in Index : Alloc(count)
  \/ \E idx, count \in Index : MarkAllocated(idx, count)
  \/ \E idx, count \in Index : Free(idx, count)
  \/ \E src, dst, count \in Index : MoveBitRangeForward(src, dst, count)
  \/ \E idx, count \in Index : ZeroBitRange(idx, count)

Spec == Init /\ [][Next]_bmvars

-----------------------------------------------------------------------------
\* The runs of pages inside the array.
Runs == {r \in Index \X Index : r[1] + r[2] <= bit_capacity}

\* Every cell holds bits of a word only.
TypeOK ==
  /\ bitmap \in [Cells -> SUBSET Bits]
  /\ panicked \in BOOLEAN

(***************************************************************************)
(* find_hole is first fit: on every array that can arise it returns the    *)
(* lowest page at which page_count free pages start, also when the hole    *)
(* crosses a cell, and None when there is none or page_count is 0.         *)
(***************************************************************************)
FindHoleIsFirstFit ==
  \A count \in 0 .. (bit_capacity + 1) :
    find_hole(bitmap, count) = FirstHole(Marked(bitmap), bit_capacity, count)

(***************************************************************************)
(* The head, whole-cell and tail loops of mark_allocated and free write    *)
(* each page of the run and no other, and their assertions fire exactly    *)
(* when some page of the run was marked (was free) before.                 *)
(***************************************************************************)
RangeLoopsExact ==
  \A r \in Runs :
    LET idx == r[1]
        count == r[2]
        marked == Marked(bitmap)
    IN  /\ Marked(mark_allocated(bitmap, idx, count)) = Mark(marked, idx, count)
        /\ Marked(free(bitmap, idx, count)) = Clear(marked, idx, count)
        /\ double_alloc(bitmap, idx, count) <=> DoubleAlloc(marked, idx, count)
        /\ double_free(bitmap, idx, count) <=> DoubleFree(marked, idx, count)

(***************************************************************************)
(* zero_bit_range clears exactly its run, whichever of its masks and of    *)
(* its whole cells the run needs.                                          *)
(***************************************************************************)
ZeroRangeExact ==
  \A r \in Runs :
    Marked(zero_bit_range(bitmap, r[1], r[2])) = Clear(Marked(bitmap), r[1], r[2])

(***************************************************************************)
(* move_bit_range_forward copies the old bits also when source and         *)
(* destination overlap, which its descending loop is there for.            *)
(***************************************************************************)
MoveForwardExact ==
  \A r \in Runs : \A src \in 0 .. r[1] :
    Marked(move_bit_range_forward(bitmap, src, r[1], r[2]))
      = MoveRun(Marked(bitmap), src, r[1], r[2])

=============================================================================
