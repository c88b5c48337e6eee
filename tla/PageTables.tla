----------------------------- MODULE PageTables -----------------------------
(***************************************************************************)
(* struct PageTable of kernel/src/aarch64/mmu.rs as operators on a record  *)
(* of memory:                                                              *)
(*   tables[f]  the entries of the table in frame f, where 0 is an empty   *)
(*              entry and any other value is the frame the entry points to *)
(*   used       the frames the page allocator has handed out               *)
(*   panicked   an assertion or an expect has failed                       *)
(*                                                                         *)
(* A table has R entries (512 in the code) and all sizes are in pages, so  *)
(* a level 3 table maps R pages, a level 2 table R^2 and a level 1 table   *)
(* R^3, which is the 0x8000000000 the code accepts: only entry 0 of the    *)
(* level 0 table is ever used.  The attribute bits of an entry are left    *)
(* out: no decision of this code depends on them, since it makes no block  *)
(* entry in the table of a thread.                                         *)
(***************************************************************************)
EXTENDS PageSet

CONSTANTS
  R,            \* entries of a table
  Frames        \* frames of RAM, numbered 1 .. Frames

ASSUME PageTablesAssumption == R \in Nat \ {0} /\ Frames \in Nat

Limit == R * R * R                      \* 0x8000000000
L1Index(vaddr) == (vaddr \div (R * R)) % R
L2Index(vaddr) == (vaddr \div R) % R
L3Index(vaddr) == vaddr % R

EmptyTable == [i \in 0 .. (R - 1) |-> 0]

-----------------------------------------------------------------------------
(***************************************************************************)
(* page_alloc::alloc: the first free frames of m, or 0 for "OOM".  Module  *)
(* PageAlloc has the allocator; here only first fit over `used' matters.   *)
(***************************************************************************)
FirstFit(m, count) ==
  LET hole == FirstHole({f - 1 : f \in m.used}, Frames, count)
  IN  IF hole = NoHole THEN 0 ELSE hole + 1

\* The memory after alloc(count) returned the frame `first'.
Take(m, first, count) ==
  IF first = 0 THEN [m EXCEPT !.panicked = TRUE]
               ELSE [m EXCEPT !.used = @ \cup Run(first, count)]

\* A new table in frame f, or the expect("OOM"), for entry idx of table t.
StoreTable(m, t, idx, f) ==
  IF f = 0 THEN Take(m, f, 1)
           ELSE [Take(m, f, 1) EXCEPT
                   !.tables = [@ EXCEPT ![t][idx] = f, ![f] = EmptyTable]]

\* get_mut_or_alloc: the memory in which entry idx of table t is a table.
get_mut_or_alloc(m, t, idx) ==
  IF m.panicked \/ m.tables[t][idx] # 0 THEN m
  ELSE StoreTable(m, t, idx, FirstFit(m, 1))

\* A place on a walk is a memory and a table in it.  Descend goes to the
\* table of entry idx, made if need be.
Place(m, t) == [m |-> m, t |-> t]
Below(m, t, idx) == Place(m, IF m.panicked THEN 0 ELSE m.tables[t][idx])
Descend(p, idx) == Below(get_mut_or_alloc(p.m, p.t, idx), p.t, idx)

\* The entry must be empty.
StorePage(p, idx, paddr) ==
  IF p.m.panicked THEN p.m
  ELSE IF p.m.tables[p.t][idx] # 0 THEN [p.m EXCEPT !.panicked = TRUE]
  ELSE [p.m EXCEPT !.tables[p.t][idx] = paddr]

\* vmap_at: one page, with the tables on the way to it.
vmap_at(m, root, vaddr, paddr) ==
  LET l1 == Descend(Place(m, root), 0)
      l2 == Descend(l1, L1Index(vaddr))
      l3 == Descend(l2, L2Index(vaddr))
  IN  IF m.panicked \/ vaddr >= Limit
      THEN [m EXCEPT !.panicked = TRUE]
      ELSE StorePage(l3, L3Index(vaddr), paddr)

\* The loops of vmap and of usermode::start: count pages from vaddr.
MapPages(m, root, vaddr, paddr, count) ==
  LET mapped[n \in 0 .. count] ==
        IF n = 0 THEN m
        ELSE vmap_at(mapped[n - 1], root, vaddr + n - 1, paddr + n - 1)
  IN  mapped[count]

\* The level 3 table of vaddr, 0 if a level above it is Free.
L3Table(m, root, vaddr) ==
  LET l1 == m.tables[root][0]
      l2 == IF l1 = 0 THEN 0 ELSE m.tables[l1][L1Index(vaddr)]
  IN  IF l2 = 0 THEN 0 ELSE m.tables[l2][L2Index(vaddr)]

\* The frame the hardware finds for vaddr, 0 if the walk faults.
Walk(m, root, vaddr) ==
  LET l3 == L3Table(m, root, vaddr)
  IN  IF l3 = 0 THEN 0 ELSE m.tables[l3][L3Index(vaddr)]

\* The entry above, which holds the table, is cleared.
UnmapTable(m, root, vaddr) ==
  LET l1 == m.tables[root][0]
      l2 == IF l1 = 0 THEN 0 ELSE m.tables[l1][L1Index(vaddr)]
  IN  IF m.panicked \/ vaddr >= Limit
      THEN [m EXCEPT !.panicked = TRUE]
      ELSE IF l2 = 0 THEN m
      ELSE [m EXCEPT !.tables[l2][L2Index(vaddr)] = 0]

\* vunmap_single: tables stay, an address without tables is ignored.
vunmap_single(m, root, vaddr) ==
  LET l3 == L3Table(m, root, vaddr)
  IN  IF m.panicked \/ vaddr >= Limit
      THEN [m EXCEPT !.panicked = TRUE]
      ELSE IF l3 = 0 THEN m
      ELSE [m EXCEPT !.tables[l3][L3Index(vaddr)] = 0]

vunmap(m, root, vaddr, count) ==
  LET unmapped[n \in 0 .. count] ==
        IF n = 0 THEN m
        ELSE vunmap_single(unmapped[n - 1], root, vaddr + n - 1)
  IN  unmapped[count]

-----------------------------------------------------------------------------
(***************************************************************************)
(* measure_contiguous_region_helper.  NoRegion stands for a loop that has  *)
(* not returned.  The limit on allocated bytes is usize::MAX in the only   *)
(* call there is, and left out.                                            *)
(***************************************************************************)
Region(allocated, len) == [allocated |-> allocated, len |-> len]
NoRegion == Region(FALSE, -1)

(***************************************************************************)
(* One iteration of the loop: s has the locals current_len and             *)
(* is_allocated, and the value returned.  `found' is what the entry shows, *)
(* and `partly' that it is an inner table measured only up to a change.    *)
(***************************************************************************)
MeasureEntry(s, found, partly, page_size, max_free) ==
  LET len == s.len + page_size
  IN  IF s.returned # NoRegion
      THEN s
      ELSE IF s.len # 0 /\ s.allocated # found.allocated
      THEN [s EXCEPT !.returned = Region(s.allocated, s.len)]
      ELSE IF partly
      THEN [s EXCEPT !.returned = Region(found.allocated, s.len + found.len)]
      ELSE [len |-> len,
            allocated |-> found.allocated,
            returned |-> IF ~found.allocated /\ len >= max_free
                         THEN Region(FALSE, len) ELSE NoRegion]

\* The loop over the entries from `first' on: entry i shows found[i], and
\* is only partly measured if partly[i].
MeasureTable(first, page_size, max_free, found, partly) ==
  LET loop[i \in first .. R] ==
        IF i = first
        THEN [len |-> 0, allocated |-> FALSE, returned |-> NoRegion]
        ELSE MeasureEntry(loop[i - 1], found[i - 1], partly[i - 1], page_size, max_free)
      end == loop[R]
  IN  IF end.returned # NoRegion THEN end.returned ELSE Region(end.allocated, end.len)

(***************************************************************************)
(* The three calls of the helper, one per level.  page_size is             *)
(* 1 << (addr_shift - 9), a 512th of what an entry of the table covers:    *)
(* one page at level 2, R pages at level 1 and R^2 pages at level 0.       *)
(* current_vaddr at entry i is At(i): it advances with current_len.        *)
(***************************************************************************)
\* The scan starts after the entry of vaddr.
MeasureL2SkipFirst(m, t, vaddr, max_free) ==
  LET entries == (L2Index(vaddr) + 1) .. (R - 1)
  IN  MeasureTable(L2Index(vaddr) + 1, 1, max_free,
        [i \in entries |-> Region(m.tables[t][i] # 0, 0)],
        [i \in entries |-> FALSE])

MeasureL2(m, t, vaddr, max_free) ==
  LET entries == L2Index(vaddr) .. (R - 1)
  IN  MeasureTable(L2Index(vaddr), 1, max_free,
        [i \in entries |-> Region(m.tables[t][i] # 0, 0)],
        [i \in entries |-> FALSE])

MeasureL1(m, t, vaddr, max_free) ==
  LET entries == L1Index(vaddr) .. (R - 1)
      At(i) == vaddr + (i - L1Index(vaddr)) * R
      found == [i \in entries |->
                  IF m.tables[t][i] = 0 THEN Region(FALSE, 0)
                  ELSE MeasureL2(m, m.tables[t][i], At(i), max_free)]
  IN  MeasureTable(L1Index(vaddr), R, max_free, found,
        [i \in entries |-> /\ m.tables[t][i] # 0
                           /\ found[i].len # R - L2Index(At(i))])

measure_contiguous_region(m, root, vaddr, max_free) ==
  LET entries == 0 .. (R - 1)
      At(i) == vaddr + i * R * R
      found == [i \in entries |->
                  IF m.tables[root][i] = 0 THEN Region(FALSE, 0)
                  ELSE MeasureL1(m, m.tables[root][i], At(i), max_free)]
  IN  MeasureTable(0, R * R, max_free, found,
        [i \in entries |-> /\ m.tables[root][i] # 0
                           /\ found[i].len # (R - L1Index(At(i))) * R])

\* find_hole: the address it returns, or NoHole.
find_hole(m, root, start_vaddr, count) ==
  LET from[v \in Nat] ==
        LET region == measure_contiguous_region(m, root, v, count)
        IN  IF v >= Limit THEN NoHole
            ELSE IF ~region.allocated /\ region.len >= count THEN v
            ELSE from[v + region.len]
  IN  from[start_vaddr]

=============================================================================
