------------------------------ MODULE PageSet ------------------------------
(***************************************************************************)
(* Page numbers and contiguous runs of them: what the bitmap of            *)
(* kernel/src/page_alloc.rs means, independent of how it is stored.  A     *)
(* bitmap of `capacity' bits is the set of the page numbers whose bit is   *)
(* 1.  Module Bitmap shows that the word-level code computes these         *)
(* operators; the modules above it use them.                               *)
(***************************************************************************)
EXTENDS Integers

\* The `count' page numbers that start at `first'.
Run(first, count) == first .. (first + count - 1)

\* What find_hole returns when there is no hole: the code's None.
NoHole == -1

(***************************************************************************)
(* The starts of the unmarked runs of length `count'.  find_hole compares  *)
(* after it has counted a page, so it never finds a hole of length 0.      *)
(***************************************************************************)
Holes(marked, capacity, count) ==
  {p \in 0 .. (capacity - count) : count > 0 /\ Run(p, count) \cap marked = {}}

\* First fit: the lowest hole.
FirstHole(marked, capacity, count) ==
  LET holes == Holes(marked, capacity, count)
  IN  IF holes = {} THEN NoHole
                    ELSE CHOOSE p \in holes : \A q \in holes : p <= q

\* Marking and clearing a run, and its debug_asserts "double alloc" and
\* "double free".
Mark(marked, first, count) == marked \cup Run(first, count)
DoubleAlloc(marked, first, count) == Run(first, count) \cap marked # {}
Clear(marked, first, count) == marked \ Run(first, count)
DoubleFree(marked, first, count) == ~(Run(first, count) \subseteq marked)

\* The `count' bits from `src' copied to `dst'; all other bits are kept.
MoveRun(marked, src, dst, count) ==
  Clear(marked, dst, count)
    \cup {p \in Run(dst, count) : (p - dst) + src \in marked}

=============================================================================
