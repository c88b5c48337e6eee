-------------------------- MODULE PageAllocProofs --------------------------
(***************************************************************************)
(* Theorems about module PageAlloc, for every layout of the kernel image,  *)
(* every capacity of the bitmap, every set of memory nodes and any number  *)
(* of slices.  In a build with debug assertions, growing the RAM keeps the *)
(* pages of the early heap as they were, the allocator implements the pool *)
(* of module PagePool, and pages taken for zeros are zero (module PageBox).*)
(***************************************************************************)
EXTENDS PageBox, WellFoundedInduction, TLAPS

-----------------------------------------------------------------------------
\* A set of naturals that is not empty has a least element.
LEMMA LeastNat ==
  ASSUME NEW T \in SUBSET Nat, T # {}
  PROVE  \E p \in T : \A q \in T : p <= q
<1> DEFINE Less == {ss \in Nat \X Nat : ss[1] < ss[2]}
<1>1. Less = OpToRel(<, Nat)
  BY Zenon DEF OpToRel
<1>2. IsWellFoundedOn(Less, Nat)
  BY NatLessThanWellFounded, <1>1, Zenon
<1>3. \A a, b \in Nat : a < b => <<a, b>> \in Less
  OBVIOUS
<1> HIDE DEF Less
<1>4. PICK p \in T : \A q \in T : <<q, p>> \notin Less
  BY <1>2, WFMin, Zenon
<1>5. ASSUME NEW q \in T PROVE p <= q
  <2>1. ~(q < p)
    BY <1>3, <1>4, Zenon
  <2> QED BY <2>1
<1> QED BY <1>5

(***************************************************************************)
(* What first fit returns, which is what BitmapPageAlloc::alloc hands out: *)
(* a run of at least one page, inside of the bitmap, none of them marked.  *)
(***************************************************************************)
LEMMA FirstHoleIsHole ==
  ASSUME NEW used, NEW capacity \in Nat, NEW count \in Nat,
         NEW page_num, page_num = FirstHole(used, capacity, count),
         page_num # NoHole
  PROVE  /\ page_num \in Nat
         /\ count > 0
         /\ page_num + count <= capacity
         /\ Run(page_num, count) \cap used = {}
<1> DEFINE H == Holes(used, capacity, count)
<1>1. H \in SUBSET Nat
  BY DEF Holes
<1>2. H # {}
  BY DEF FirstHole
<1>3. \E p \in H : \A q \in H : p <= q
  BY <1>1, <1>2, LeastNat
<1>4. page_num \in H
  BY <1>2, <1>3 DEF FirstHole
<1> QED
  BY <1>1, <1>4 DEF Holes

(***************************************************************************)
(* First fit fails only if there is no hole: the "OOM" of the callers is   *)
(* never raised while enough adjacent pages are free.                      *)
(***************************************************************************)
LEMMA NoHoleIsOom ==
  ASSUME NEW used, NEW capacity \in Nat, NEW count \in Nat \ {0},
         FirstHole(used, capacity, count) = NoHole,
         NEW p \in 0 .. (capacity - count)
  PROVE  Run(p, count) \cap used # {}
<1> DEFINE H == Holes(used, capacity, count)
<1>1. H \in SUBSET Nat
  BY DEF Holes
<1>2. CASE H = {}
  BY <1>2 DEF Holes
<1>3. CASE H # {}
  <2>1. \E q \in H : \A r \in H : q <= r
    BY <1>1, <1>3, LeastNat
  <2>2. FirstHole(used, capacity, count) \in H
    BY <1>3, <2>1 DEF FirstHole
  <2> QED
    BY <1>1, <2>2 DEF NoHole
<1> QED
  BY <1>2, <1>3

-----------------------------------------------------------------------------

\* A region that add_memory_node marks without a panic is inside of the bitmap.
LEMMA MarkedRegionFits ==
  ASSUME NEW bits, NEW base \in Nat, NEW addr \in Nat, NEW count \in Nat,
         ~MarkFails(bits, base, addr, count)
  PROVE  /\ Run(addr - base, count) \subseteq Bits
         /\ DebugAssertions => addr >= base
         /\ DebugAssertions => Run(addr - base, count) \cap bits = {}
BY LayoutAssumption DEF MarkFails, AddrFails, DoubleAlloc, Run, Bits

\* What expand_to leaves in the bitmap if it does not panic, bit by bit.
LEMMA ExpandedBits ==
  ASSUME TypeOK, NEW node \in Nodes, ~ExpandFails(node)
  PROVE  LET delta == ram_base - node.base
         IN  /\ delta \in Nat
             /\ Expanded(node) \subseteq Bits
             /\ \A b \in Bits :
                  b \in Expanded(node) <=>
                    \/ b \in Run(delta, EarlyHeapPages) /\ b - delta \in marked
                    \/ b >= node.len /\ b >= delta + EarlyHeapPages /\ b \in marked
<1> DEFINE delta == ram_base - node.base
           rest == delta + EarlyHeapPages
<1>1. /\ node.base \in Nat /\ node.len \in Nat
      /\ ram_base \in Nat /\ EarlyHeapPages \in Nat \ {0} /\ Capacity \in Nat
      /\ EarlyHeapPages <= Capacity
  BY LayoutAssumption, NodesAssumption DEF TypeOK
<1>2. /\ delta \in Nat
      /\ node.base + node.len >= ram_base + EarlyHeapPages
      /\ delta = 0 \/ rest <= Capacity
      /\ node.len <= rest \/ node.len <= Capacity
  BY <1>1 DEF ExpandFails
<1>3. rest <= Capacity /\ node.len >= rest
  BY <1>1, <1>2
<1>4. marked \subseteq Bits
  BY DEF TypeOK
<1>5. ASSUME NEW b
      PROVE  b \in Expanded(node) <=>
               /\ \/ b \in marked /\ b \notin Run(delta, EarlyHeapPages)
                  \/ b \in Run(delta, EarlyHeapPages) /\ b - delta \in marked
               /\ b \notin Run(0, delta)
               /\ b \notin Run(rest, node.len - rest)
  <2>1. \A x \in Run(delta, EarlyHeapPages) : (x - delta) + 0 = x - delta
    BY <1>1, <1>2 DEF Run
  <2> QED
    BY <2>1 DEF Expanded, Clear, MoveRun
<1>6. Expanded(node) \subseteq Bits
  <2>1. Run(delta, EarlyHeapPages) \subseteq Bits
    BY <1>1, <1>2, <1>3 DEF Run, Bits
  <2> HIDE DEF delta, rest
  <2> QED
    BY <1>4, <1>5, <2>1
<1>7. ASSUME NEW b \in Bits
      PROVE  b \in Expanded(node) <=>
               \/ b \in Run(delta, EarlyHeapPages) /\ b - delta \in marked
               \/ b >= node.len /\ b >= rest /\ b \in marked
  BY <1>1, <1>2, <1>3, <1>5 DEF Run, Bits
<1> QED
  BY <1>2, <1>6, <1>7

-----------------------------------------------------------------------------
\* Each step of the allocator keeps the type of its state.
LEMMA TypeStep == TypeOK /\ [Next]_vars => TypeOK'
<1> SUFFICES ASSUME TypeOK, [Next]_vars PROVE TypeOK'
  OBVIOUS
<1> USE LayoutAssumption
<1>1. CASE InitEarlyHeap
  BY <1>1 DEF InitEarlyHeap, TypeOK, Mark, Clear, Run, Bits, EarlyHeap
<1>2. ASSUME NEW h \in Handles, NEW page_count \in 0 .. MaxPages,
             Alloc(h, page_count)
      PROVE  TypeOK'
  <2> DEFINE page_num == FirstHole(marked, Capacity, page_count)
  <2>1. CASE page_num = NoHole
    BY <1>2, <2>1, Zenon DEF Alloc, Panic, TypeOK
  <2>2. CASE page_num # NoHole
    <3>1. page_num \in Nat /\ page_num + page_count <= Capacity
      BY <2>2, FirstHoleIsHole
    <3> HIDE DEF page_num
    <3>2. /\ marked' = Mark(marked, page_num, page_count)
          /\ slices' = [slices EXCEPT ![h] = [buf |-> ram_base + page_num,
                                              pages |-> page_count]]
          /\ UNCHANGED <<phase, ram_base, leaked, ram>>
      BY <1>2, <2>2 DEF Alloc, page_num
    <3> QED
      BY <3>1, <3>2 DEF TypeOK, Mark, Run, Bits
  <2> QED
    BY <2>1, <2>2
<1>3. ASSUME NEW h \in Handles, DropSlice(h)
      PROVE  TypeOK'
  <2>1. NoSlice \in [buf : Nat, pages : Nat]
    BY DEF NoSlice
  <2>2. CASE Panic
    BY <2>2 DEF Panic, TypeOK
  <2>3. CASE ~Panic
    <3>1. /\ marked' \subseteq marked
          /\ slices' = [slices EXCEPT ![h] = NoSlice]
          /\ UNCHANGED <<phase, ram_base, leaked, ram>>
      BY <1>3, <2>3 DEF DropSlice, Clear
    <3> QED
      BY <2>1, <3>1 DEF TypeOK
  <2> QED
    BY <2>2, <2>3
<1>4. ASSUME NEW h \in Handles, ForgetSlice(h)
      PROVE  TypeOK'
  <2>1. NoSlice \in [buf : Nat, pages : Nat]
    BY DEF NoSlice
  <2>2. SlicePages(slices[h]) \subseteq Nat
    BY DEF TypeOK, SlicePages, Run
  <2> QED
    BY <1>4, <2>1, <2>2, Zenon DEF ForgetSlice, TypeOK
<1>5. ASSUME NEW node \in Nodes, AddMemoryNode(node)
      PROVE  TypeOK'
  <2> DEFINE low == Expanded(node)
             high == MarkRegion(low, node.base, LowImage)
             dtb == MarkRegion(high, node.base, HighImage)
  <2>1. CASE Panic
    BY <2>1 DEF Panic, TypeOK
  <2>2. CASE ~Panic
    <3>1. /\ ~ExpandFails(node)
          /\ ~RegionFails(low, node.base, LowImage)
          /\ ~RegionFails(high, node.base, HighImage)
          /\ ~RegionFails(dtb, node.base, Dtb)
          /\ phase' = "full"
          /\ ram_base' = node.base
          /\ marked' = MarkRegion(dtb, node.base, Dtb)
          /\ ram' = Run(node.base, node.len)
          /\ UNCHANGED <<slices, leaked>>
      BY <1>5, <2>2 DEF AddMemoryNode
    <3>2. low \subseteq Bits
      BY <3>1, ExpandedBits
    <3>3. node.base \in Nat /\ node.len \in Nat
      BY NodesAssumption
    <3> HIDE DEF low, high, dtb
    <3>4. high \subseteq Bits
      BY <3>1, <3>2, <3>3, MarkedRegionFits
         DEF high, MarkRegion, RegionFails, LowImage, Mark
    <3>5. dtb \subseteq Bits
      <4>1. /\ HighImage.addr \in Nat /\ HighImage.count \in Nat
            /\ ~MarkFails(high, node.base, HighImage.addr, HighImage.count)
        BY <3>1 DEF HighImage, RegionFails
      <4>2. Run(HighImage.addr - node.base, HighImage.count) \subseteq Bits
        BY <4>1, <3>3, MarkedRegionFits
      <4> QED
        BY <3>4, <4>2 DEF dtb, MarkRegion, Mark
    <3>6. marked' \subseteq Bits
      <4>1. /\ Dtb.addr \in Nat /\ Dtb.count \in Nat
            /\ ~MarkFails(dtb, node.base, Dtb.addr, Dtb.count)
        BY <3>1 DEF Dtb, RegionFails
      <4>2. Run(Dtb.addr - node.base, Dtb.count) \subseteq Bits
        BY <4>1, <3>3, MarkedRegionFits
      <4> QED
        BY <3>1, <3>5, <4>2 DEF MarkRegion, Mark
    <3>7. ram' \subseteq Nat
      <4>1. ram' = Run(node.base, node.len)
        BY <3>1
      <4>2. Run(node.base, node.len) \subseteq Nat
        BY <3>3 DEF Run
      <4> QED
        BY <4>1, <4>2
    <3>8. ram_base' \in Nat
      BY <3>1, <3>3
    <3>9. phase' \in {"boot", "early", "full", "panicked"}
      BY <3>1
    <3>10. /\ slices' \in [Handles -> [buf : Nat, pages : Nat]]
           /\ leaked' \subseteq Nat
      BY <3>1 DEF TypeOK
    <3> QED
      BY <3>6, <3>7, <3>8, <3>9, <3>10 DEF TypeOK
  <2> QED
    BY <2>1, <2>2
<1>6. CASE UNCHANGED vars
  BY <1>6 DEF vars, TypeOK
<1> QED
  BY <1>1, <1>2, <1>3, <1>4, <1>5, <1>6 DEF Next

(***************************************************************************)
(* The allocator's state keeps its type in every build: no operation       *)
(* leaves a bit outside of the bitmap or a base below zero.                *)
(***************************************************************************)
THEOREM TypeCorrect == Spec => []TypeOK
<1>1. Init => TypeOK
  BY DEF Init, TypeOK, NoSlice
<1> QED
  BY <1>1, TypeStep, PTL DEF Spec

-----------------------------------------------------------------------------
\* Which pages are owned: those of a slice, and leaked ones.
LEMMA OwnedMember ==
  \A a : a \in OwnedPages <=> a \in leaked \/ \E h \in Handles : a \in Held(h)
BY DEF OwnedPages

\* Which pages alloc can hand out: those whose bit is 0.
LEMMA FreeMember ==
  \A a : a \in FreePages <=>
          /\ a \in ram_base .. (ram_base + Capacity - 1)
          /\ phase # "boot"
          /\ a - ram_base \notin marked
BY DEF FreePages

(***************************************************************************)
(* What add_memory_node leaves in the bitmap if it does not panic: the     *)
(* bits of expand_to and those of the three regions.                       *)
(***************************************************************************)
LEMMA NodeBits ==
  ASSUME TypeOK, NEW node \in Nodes, AddMemoryNode(node), ~Panic
  PROVE  /\ ~ExpandFails(node)
         /\ phase' = "full" /\ ram_base' = node.base
         /\ ram' = Run(node.base, node.len)
         /\ UNCHANGED <<slices, leaked>>
         /\ marked' = Expanded(node)
                        \cup Run(TextStart - node.base, HeapStart - TextStart)
                        \cup Run((HeapStart + EarlyHeapPages) - node.base,
                                 EndPage - HeapStart)
                        \cup Run(DtbStart - node.base, DtbPages)
         /\ DebugAssertions => /\ DtbStart >= node.base
                               /\ DtbStart - node.base \notin Expanded(node)
<1> DEFINE low == Expanded(node)
           high == MarkRegion(low, node.base, LowImage)
           dtb == MarkRegion(high, node.base, HighImage)
<1>1. /\ ~ExpandFails(node)
      /\ ~RegionFails(dtb, node.base, Dtb)
      /\ phase' = "full"
      /\ ram_base' = node.base
      /\ marked' = MarkRegion(dtb, node.base, Dtb)
      /\ ram' = Run(node.base, node.len)
      /\ UNCHANGED <<slices, leaked>>
  BY DEF AddMemoryNode
<1>2. dtb = low \cup Run(TextStart - node.base, HeapStart - TextStart)
                \cup Run((HeapStart + EarlyHeapPages) - node.base,
                         EndPage - HeapStart)
  <2>1. high = low \cup Run(TextStart - node.base, HeapStart - TextStart)
    BY DEF MarkRegion, Mark, LowImage
  <2> HIDE DEF high
  <2>2. dtb = high \cup Run((HeapStart + EarlyHeapPages) - node.base,
                            EndPage - HeapStart)
    <3>1. /\ HighImage.addr = HeapStart + EarlyHeapPages
          /\ HighImage.count = EndPage - HeapStart
      BY DEF HighImage
    <3> QED
      BY <3>1, Zenon DEF MarkRegion, Mark
  <2> HIDE DEF dtb, low
  <2> QED
    BY <2>1, <2>2
<1>3. marked' = dtb \cup Run(DtbStart - node.base, DtbPages)
  BY <1>1 DEF MarkRegion, Mark, Dtb
<1>4. ASSUME DebugAssertions
      PROVE  /\ DtbStart >= node.base
             /\ Run(DtbStart - node.base, DtbPages) \cap dtb = {}
  <2>1. ~MarkFails(dtb, node.base, DtbStart, DtbPages)
    BY <1>1 DEF RegionFails, Dtb
  <2>2. node.base \in Nat
    BY NodesAssumption
  <2> HIDE DEF dtb
  <2> QED
    BY <1>4, <2>1, <2>2, LayoutAssumption, MarkedRegionFits, Zenon
<1>5. DtbStart - node.base \in Run(DtbStart - node.base, DtbPages)
  BY LayoutAssumption, NodesAssumption DEF Run
<1> HIDE DEF low, dtb
<1>6. DebugAssertions => /\ DtbStart >= node.base
                         /\ DtbStart - node.base \notin low
  BY <1>2, <1>4, <1>5
<1> QED
  BY <1>1, <1>2, <1>3, <1>6 DEF low

\* A panic leaves everything but the phase as it was.
LEMMA PanicStep == AllocInv /\ Running /\ Panic => AllocInv'
<1> SUFFICES ASSUME AllocInv, Running, Panic PROVE AllocInv'
  OBVIOUS
<1>1. /\ phase' = "panicked" /\ phase # "boot"
      /\ ram_base' = ram_base /\ marked' = marked /\ slices' = slices
      /\ leaked' = leaked /\ ram' = ram
  BY DEF Panic, Running
<1>2. OwnedPages' = OwnedPages /\ \A h \in Handles : Held(h)' = Held(h)
  BY <1>1 DEF OwnedPages, Held
<1>3. FreePages' = FreePages
  BY <1>1 DEF FreePages
<1>4. TypeOK'
  BY <1>1 DEF AllocInv, TypeOK
<1>5. OwnedPagesMarked' /\ SlicesDisjoint'
  BY <1>1, <1>2 DEF AllocInv, OwnedPagesMarked, SlicesDisjoint
<1>6. ReservedNotHandedOut' /\ HandsOutRamOnly'
  BY <1>1, <1>2, <1>3
     DEF AllocInv, ReservedNotHandedOut, HandsOutRamOnly, ReservedPages
<1> QED
  BY <1>1, <1>4, <1>5, <1>6 DEF AllocInv

\* init_early_heap establishes what the early phase relies on.
LEMMA InitEarlyHeapStep == AllocInv /\ TypeOK' /\ InitEarlyHeap => AllocInv'
<1> SUFFICES ASSUME AllocInv, TypeOK', InitEarlyHeap PROVE AllocInv'
  OBVIOUS
<1> USE LayoutAssumption
<1>1. /\ phase' = "early" /\ ram_base' = HeapStart /\ ram' = EarlyHeap
      /\ slices' = slices /\ leaked' = leaked /\ OwnedPages = {}
  BY DEF InitEarlyHeap, AllocInv
<1>2. OwnedPages' = {}
  BY <1>1 DEF OwnedPages, Held
<1>3. \A h \in Handles : Held(h)' = {} /\ leaked' = {}
  BY <1>2 DEF OwnedPages, Held
<1>4. marked' = Bits \ (0 .. (EarlyHeapPages - 1))
  BY DEF InitEarlyHeap, AllocInv, Mark, Clear, Run, Bits
<1>5. FreePages' \subseteq EarlyHeap
  <2>1. \A a \in FreePages' :
          a \in HeapStart .. (HeapStart + Capacity - 1) /\ a - HeapStart \notin marked'
    BY <1>1 DEF FreePages
  <2> QED
    BY <1>4, <2>1 DEF EarlyHeap, Run, Bits
<1>6. ReservedPages \cap EarlyHeap = {}
  BY DEF ReservedPages, EarlyHeap, Run
<1>7. OwnedPagesMarked' /\ SlicesDisjoint'
  BY <1>2, <1>3 DEF OwnedPagesMarked, SlicesDisjoint
<1>8. ReservedNotHandedOut'
  BY <1>2, <1>5, <1>6 DEF ReservedNotHandedOut, ReservedPages
<1>9. HandsOutRamOnly'
  BY <1>1, <1>2, <1>5 DEF HandsOutRamOnly
<1> QED
  BY <1>1, <1>7, <1>8, <1>9 DEF AllocInv

\* A slice handed out by alloc is made of pages that were free.
LEMMA AllocStep ==
  ASSUME AllocInv, TypeOK', NEW h \in Handles, NEW page_count \in 0 .. MaxPages,
         Alloc(h, page_count)
  PROVE  AllocInv'
<1> DEFINE page_num == FirstHole(marked, Capacity, page_count)
           new == Run(ram_base + page_num, page_count)
<1> USE LayoutAssumption
<1>1. Running
  BY DEF Alloc
<1>2. CASE Panic
  BY <1>1, <1>2, PanicStep
<1>3. CASE ~Panic
  <2>1. page_num # NoHole
    BY <1>3 DEF Alloc
  <2>2. /\ page_num \in Nat /\ page_count > 0 /\ page_num + page_count <= Capacity
        /\ Run(page_num, page_count) \cap marked = {}
    BY <2>1, FirstHoleIsHole
  <2>3. /\ slices[h] = NoSlice
        /\ marked' = Mark(marked, page_num, page_count)
        /\ slices' = [slices EXCEPT ![h] = [buf |-> ram_base + page_num,
                                            pages |-> page_count]]
        /\ phase' = phase /\ ram_base' = ram_base /\ leaked' = leaked /\ ram' = ram
    BY <2>1 DEF Alloc
  <2> HIDE DEF page_num
  <2>4. ram_base \in Nat /\ slices \in [Handles -> [buf : Nat, pages : Nat]]
    BY DEF AllocInv, TypeOK
  <2>5. Held(h)' = new /\ Held(h) = {}
    BY <2>3, <2>4 DEF Held, SlicePages, NoSlice, Run
  <2>6. \A i \in Handles \ {h} : Held(i)' = Held(i)
    BY <2>3, <2>4 DEF Held
  <2>7. new \subseteq FreePages
    BY <1>1, <2>2, <2>4 DEF FreePages, Run, Running
  <2>8. \A a \in new : a - ram_base \in marked'
    BY <2>2, <2>3, <2>4 DEF Mark, Run
  <2>9. marked \subseteq marked'
    BY <2>3 DEF Mark
  <2> HIDE DEF new
  <2>10. FreePages' \subseteq FreePages
    BY <2>3, <2>9 DEF FreePages
  <2>11. OwnedPages' = OwnedPages \cup new
    BY <2>3, <2>5, <2>6 DEF OwnedPages
  <2>12. OwnedPages \cap new = {}
    BY <2>7, Zenon DEF AllocInv, OwnedPagesMarked, FreePages
  <2>13. OwnedPagesMarked'
    BY <2>3, <2>8, <2>9, <2>11 DEF AllocInv, OwnedPagesMarked
  <2>14. SlicesDisjoint'
    <3>1. \A i \in Handles : Held(i) \cap new = {} /\ leaked \cap new = {}
      BY <2>12 DEF OwnedPages
    <3> QED
      BY <2>3, <2>5, <2>6, <3>1 DEF AllocInv, SlicesDisjoint
  <2>15. ReservedNotHandedOut' /\ HandsOutRamOnly'
    BY <2>3, <2>7, <2>10, <2>11
       DEF AllocInv, ReservedNotHandedOut, HandsOutRamOnly, ReservedPages
  <2> QED
    BY <1>1, <2>3, <2>9, <2>13, <2>14, <2>15 DEF AllocInv, Running
<1> QED
  BY <1>2, <1>3

\* Drop frees the pages of its slice only.
LEMMA DropStep ==
  ASSUME AllocInv, TypeOK', NEW h \in Handles, DropSlice(h)
  PROVE  AllocInv'
<1> USE LayoutAssumption
<1>1. Running
  BY DEF DropSlice
<1>2. CASE Panic
  BY <1>1, <1>2, PanicStep
<1>3. CASE ~Panic
  <2>1. /\ marked' = Clear(marked, slices[h].buf - ram_base, slices[h].pages)
        /\ slices' = [slices EXCEPT ![h] = NoSlice]
        /\ phase' = phase /\ ram_base' = ram_base /\ leaked' = leaked /\ ram' = ram
    BY <1>3 DEF DropSlice
  <2>2. /\ ram_base \in Nat /\ slices \in [Handles -> [buf : Nat, pages : Nat]]
        /\ leaked \subseteq Nat
    BY DEF AllocInv, TypeOK
  <2>3. Held(h)' = {}
    BY <2>1, <2>2 DEF Held, SlicePages, NoSlice, Run
  <2>4. \A i \in Handles \ {h} : Held(i)' = Held(i)
    BY <2>1, <2>2 DEF Held
  <2>5. \A a \in Nat : a - ram_base \in marked' <=>
                       a - ram_base \in marked /\ a \notin Held(h)
    BY <2>1, <2>2 DEF Clear, Run, Held, SlicePages
  <2>6. \A i \in Handles : Held(i) \subseteq Nat
    BY <2>2 DEF Held, SlicePages, Run
  <2>7. \A a \in OwnedPages' : a \in OwnedPages /\ a \in Nat /\ a \notin Held(h)
    BY <2>1, <2>2, <2>3, <2>4, <2>6 DEF OwnedPages, AllocInv, SlicesDisjoint
  <2>8. OwnedPagesMarked'
    BY <2>1, <2>5, <2>7 DEF AllocInv, OwnedPagesMarked
  <2>9. SlicesDisjoint'
    BY <2>1, <2>3, <2>4 DEF AllocInv, SlicesDisjoint
  <2>10. FreePages' \subseteq FreePages \cup Held(h)
    BY <1>1, <2>1, <2>2, <2>5 DEF FreePages
  <2>11. Held(h) \subseteq OwnedPages
    BY DEF OwnedPages
  <2>12. ReservedNotHandedOut' /\ HandsOutRamOnly'
    BY <2>1, <2>7, <2>10, <2>11
       DEF AllocInv, ReservedNotHandedOut, HandsOutRamOnly, ReservedPages
  <2>13. phase = "full" => DtbStart - ram_base \in marked'
    <3>1. DtbStart \in ReservedPages
      BY DEF ReservedPages, Run
    <3>2. DtbStart \notin Held(h)
      BY <2>11, <3>1 DEF AllocInv, ReservedNotHandedOut
    <3> QED
      BY <2>5, <3>2 DEF AllocInv
  <2> QED
    BY <1>1, <2>1, <2>8, <2>9, <2>12, <2>13 DEF AllocInv, Running
<1> QED
  BY <1>2, <1>3

\* A forgotten slice stays marked.
LEMMA ForgetStep ==
  ASSUME AllocInv, TypeOK', NEW h \in Handles, ForgetSlice(h)
  PROVE  AllocInv'
<1>1. /\ Running
      /\ leaked' = leaked \cup Held(h)
      /\ slices' = [slices EXCEPT ![h] = NoSlice]
      /\ phase' = phase /\ ram_base' = ram_base /\ marked' = marked /\ ram' = ram
  BY DEF ForgetSlice, Held
<1>2. slices \in [Handles -> [buf : Nat, pages : Nat]]
  BY DEF AllocInv, TypeOK
<1>3. Held(h)' = {}
  BY <1>1, <1>2 DEF Held, SlicePages, NoSlice, Run
<1>4. \A i \in Handles \ {h} : Held(i)' = Held(i)
  BY <1>1, <1>2 DEF Held
<1>5. OwnedPages' = OwnedPages
  BY <1>1, <1>3, <1>4 DEF OwnedPages
<1>6. FreePages' = FreePages
  BY <1>1 DEF FreePages
<1>7. SlicesDisjoint'
  BY <1>1, <1>3, <1>4 DEF AllocInv, SlicesDisjoint
<1>8. OwnedPagesMarked' /\ ReservedNotHandedOut' /\ HandsOutRamOnly'
  BY <1>1, <1>5, <1>6
     DEF AllocInv, OwnedPagesMarked, ReservedNotHandedOut, HandsOutRamOnly,
         ReservedPages
<1> QED
  BY <1>1, <1>7, <1>8 DEF AllocInv, Running

\* After the first memory node the marked bit of the device tree makes every
\* further call of add_memory_node panic.
LEMMA SecondNodePanics ==
  ASSUME DebugAssertions, AllocInv, phase = "full", NEW node \in Nodes,
         AddMemoryNode(node)
  PROVE  Panic
<1> DEFINE delta == ram_base - node.base
<1> USE LayoutAssumption
<1> SUFFICES ASSUME ~Panic PROVE FALSE
  OBVIOUS
<1>1. TypeOK /\ node.base \in Nat /\ node.len \in Nat /\ ram_base \in Nat
  BY NodesAssumption DEF AllocInv, TypeOK
<1>2. /\ ~ExpandFails(node) /\ DtbStart >= node.base
      /\ DtbStart - node.base \notin Expanded(node)
  BY <1>1, NodeBits
<1>3. /\ delta \in Nat
      /\ \A b \in Bits :
           b \in Run(delta, EarlyHeapPages) /\ b - delta \in marked
             => b \in Expanded(node)
  BY <1>1, <1>2, ExpandedBits
<1>4. delta + EarlyHeapPages <= Capacity
  BY <1>1, <1>2, <1>3 DEF ExpandFails
<1>5. /\ ram_base <= DtbStart /\ DtbStart < ram_base + EarlyHeapPages
      /\ DtbStart - ram_base \in marked
  BY DEF AllocInv
<1>6. /\ DtbStart - node.base \in Run(delta, EarlyHeapPages)
      /\ DtbStart - node.base \in Bits
      /\ (DtbStart - node.base) - delta = DtbStart - ram_base
  BY <1>1, <1>3, <1>4, <1>5 DEF Run, Bits
<1> QED
  BY <1>2, <1>3, <1>5, <1>6

(***************************************************************************)
(* add_memory_node, with debug assertions.  In the early phase the bits of *)
(* the heap move with its pages, the rest of the node that is not reserved *)
(* is new, and the bits beyond the node stay marked.  After that the bit   *)
(* of the device tree makes every further call panic.                      *)
(***************************************************************************)
LEMMA AddMemoryNodeStep ==
  ASSUME DebugAssertions, AllocInv, TypeOK', NEW node \in Nodes,
         AddMemoryNode(node)
  PROVE  AllocInv'
<1> DEFINE delta == ram_base - node.base
<1> USE LayoutAssumption
<1>1. Running
  BY DEF AddMemoryNode
<1>2. CASE Panic
  BY <1>1, <1>2, PanicStep
<1>3. CASE ~Panic
  <2>1. /\ node.base \in Nat /\ node.len \in Nat /\ ram_base \in Nat
        /\ marked \subseteq Bits
        /\ node.base <= DtbStart => DtbStart < node.base + EarlyHeapPages
    BY NodesAssumption DEF AllocInv, TypeOK
  <2>2. TypeOK
    BY DEF AllocInv
  <2>3. /\ ~ExpandFails(node)
        /\ phase' = "full" /\ ram_base' = node.base
        /\ ram' = Run(node.base, node.len)
        /\ slices' = slices /\ leaked' = leaked
        /\ DtbStart >= node.base
        /\ DtbStart - node.base \notin Expanded(node)
    BY <1>3, <2>2, NodeBits
  <2>4. marked' = Expanded(node)
                    \cup Run(TextStart - node.base, HeapStart - TextStart)
                    \cup Run((HeapStart + EarlyHeapPages) - node.base,
                             EndPage - HeapStart)
                    \cup Run(DtbStart - node.base, DtbPages)
    BY <1>3, <2>2, NodeBits
  <2>5. /\ delta \in Nat
        /\ \A b \in Bits :
             b \in Expanded(node) <=>
               \/ b \in Run(delta, EarlyHeapPages) /\ b - delta \in marked
               \/ b >= node.len /\ b >= delta + EarlyHeapPages /\ b \in marked
    BY <2>2, <2>3, ExpandedBits
  <2>6. /\ delta + EarlyHeapPages <= Capacity
        /\ delta + EarlyHeapPages <= node.len
    BY <2>1, <2>3, <2>5 DEF ExpandFails
  <2>7. CASE phase = "full"
    BY <1>3, <2>7, SecondNodePanics
  <2>8. CASE phase = "early"
    <3>1. ram_base = HeapStart /\ ram = EarlyHeap
      BY <2>8 DEF AllocInv
    <3>2. OwnedPages' = OwnedPages /\ \A h \in Handles : Held(h)' = Held(h)
      BY <2>3 DEF OwnedPages, Held
    <3>3. OwnedPages \subseteq EarlyHeap
      BY <3>1 DEF AllocInv, HandsOutRamOnly
    <3>4. OwnedPagesMarked'
      <4> SUFFICES ASSUME NEW a \in OwnedPages
                   PROVE  a - node.base \in Expanded(node)
        BY <2>3, <2>4, <3>2 DEF OwnedPagesMarked
      <4>1. a \in EarlyHeap /\ a - ram_base \in marked
        BY <3>3 DEF AllocInv, OwnedPagesMarked
      <4>2. /\ a - node.base \in Run(delta, EarlyHeapPages)
            /\ a - node.base \in Bits
            /\ (a - node.base) - delta = a - ram_base
        <5>1. a \in Nat /\ HeapStart <= a /\ a < HeapStart + EarlyHeapPages
          BY <4>1 DEF EarlyHeap, Run
        <5> QED
          BY <2>1, <2>5, <2>6, <3>1, <5>1 DEF Run, Bits
      <4> QED
        BY <2>5, <4>1, <4>2
    <3>5. SlicesDisjoint'
      BY <2>3, <3>2 DEF AllocInv, SlicesDisjoint
    <3>6. \A b \in Bits : b >= EarlyHeapPages => b \in marked
      <4> SUFFICES ASSUME NEW b \in Bits, b >= EarlyHeapPages, b \notin marked
                   PROVE  FALSE
        OBVIOUS
      <4>1. HeapStart + b \in FreePages
        BY <2>8, <3>1 DEF FreePages, Bits
      <4>2. HeapStart + b \in EarlyHeap
        BY <3>1, <4>1 DEF AllocInv, HandsOutRamOnly
      <4> QED
        BY <4>2 DEF EarlyHeap, Run, Bits
    <3>7. \A a \in FreePages' : /\ a \in Nat /\ a - node.base \in Bits
                                /\ a - node.base \notin marked'
      BY <2>1, <2>3 DEF FreePages, Bits
    <3>8. HandsOutRamOnly'
      <4>1. EarlyHeap \subseteq Run(node.base, node.len)
        <5>1. /\ node.base <= HeapStart
              /\ HeapStart + EarlyHeapPages <= node.base + node.len
          BY <2>1, <2>5, <2>6, <3>1
        <5> QED
          BY <2>1, <5>1 DEF EarlyHeap, Run
      <4>2. ASSUME NEW a \in FreePages' PROVE a \in Run(node.base, node.len)
        <5>1. a \in Nat /\ a - node.base \in Bits /\ a - node.base \notin Expanded(node)
          BY <2>4, <3>7
        <5>2. CASE a - node.base >= node.len
          <6>1. a - node.base \in marked
            BY <2>1, <2>5, <2>6, <3>6, <5>1, <5>2 DEF Bits
          <6> QED
            BY <2>1, <2>5, <2>6, <5>1, <5>2, <6>1 DEF Bits
        <5>3. CASE a - node.base < node.len
          BY <2>1, <5>1, <5>3 DEF Run, Bits
        <5> QED
          BY <2>1, <5>1, <5>2, <5>3 DEF Bits
      <4> QED
        BY <2>3, <3>2, <3>3, <4>1, <4>2 DEF HandsOutRamOnly
    <3>9. ReservedNotHandedOut'
      <4>1. ReservedPages \cap EarlyHeap = {}
        BY DEF ReservedPages, EarlyHeap, Run
      <4>2. ASSUME NEW a \in ReservedPages, a \in FreePages' PROVE FALSE
        <5>1. a \in Nat /\ a - node.base \notin marked'
          BY <3>7, <4>2
        <5>2. \/ TextStart <= a /\ a < HeapStart
              \/ HeapStart + EarlyHeapPages <= a /\ a <= EndPage
              \/ DtbStart <= a /\ a < DtbStart + DtbPages
          BY <5>1 DEF ReservedPages, EarlyHeap, Run
        <5>3. \/ a - node.base \in Run(TextStart - node.base, HeapStart - TextStart)
              \/ a - node.base \in Run((HeapStart + EarlyHeapPages) - node.base,
                                       EndPage - HeapStart)
              \/ a - node.base \in Run(DtbStart - node.base, DtbPages)
          BY <2>1, <5>1, <5>2 DEF Run
        <5> QED
          BY <2>4, <5>1, <5>3
      <4> QED
        BY <3>2, <3>3, <4>1, <4>2 DEF ReservedNotHandedOut, ReservedPages
    <3>10. DtbStart - node.base \in marked'
      BY <2>1, <2>4 DEF Run
    <3> QED
      BY <2>1, <2>3, <3>4, <3>5, <3>8, <3>9, <3>10 DEF AllocInv
  <2> QED
    BY <1>1, <2>7, <2>8 DEF Running
<1> QED
  BY <1>2, <1>3

\* Every operation of the allocator keeps AllocInv, with debug assertions.
LEMMA AllocInvStep ==
  ASSUME DebugAssertions PROVE AllocInv /\ [Next]_vars => AllocInv'
<1> SUFFICES ASSUME AllocInv, [Next]_vars PROVE AllocInv'
  OBVIOUS
<1>1. TypeOK'
  BY TypeStep DEF AllocInv
<1>2. CASE InitEarlyHeap
  BY <1>1, <1>2, InitEarlyHeapStep
<1>3. ASSUME NEW h \in Handles, NEW page_count \in 0 .. MaxPages,
             Alloc(h, page_count)
      PROVE  AllocInv'
  BY <1>1, <1>3, AllocStep
<1>4. ASSUME NEW h \in Handles, DropSlice(h)
      PROVE  AllocInv'
  BY <1>1, <1>4, DropStep
<1>5. ASSUME NEW h \in Handles, ForgetSlice(h)
      PROVE  AllocInv'
  BY <1>1, <1>5, ForgetStep
<1>6. ASSUME NEW node \in Nodes, AddMemoryNode(node)
      PROVE  AllocInv'
  BY <1>1, <1>6, AddMemoryNodeStep, Zenon
<1>7. CASE UNCHANGED vars
  BY <1>7 DEF vars, AllocInv, TypeOK, OwnedPagesMarked, SlicesDisjoint,
       ReservedNotHandedOut, HandsOutRamOnly, FreePages, OwnedPages, Held,
       ReservedPages
<1> QED
  BY <1>2, <1>3, <1>4, <1>5, <1>6, <1>7 DEF Next

(***************************************************************************)
(* In a build with debug assertions AllocInv holds in every state, for     *)
(* every layout, capacity, set of nodes and number of slices.              *)
(***************************************************************************)
THEOREM AllocInvariant ==
  ASSUME DebugAssertions PROVE Spec => []AllocInv
<1>1. Init => AllocInv
  <2> SUFFICES ASSUME Init PROVE AllocInv
    OBVIOUS
  <2>1. TypeOK
    BY DEF Init, TypeOK, NoSlice
  <2>2. \A h \in Handles : Held(h) = {}
    BY DEF Init, Held, SlicePages, NoSlice, Run
  <2>3. OwnedPages = {} /\ FreePages = {}
    BY <2>2 DEF Init, OwnedPages, FreePages
  <2> QED
    BY <2>1, <2>2, <2>3
       DEF Init, AllocInv, OwnedPagesMarked, SlicesDisjoint,
           ReservedNotHandedOut, HandsOutRamOnly
<1>2. AllocInv /\ [Next]_vars => AllocInv'
  BY AllocInvStep
<1> QED
  BY <1>1, <1>2, PTL DEF Spec

(***************************************************************************)
(* No page with an owner can be handed out a second time, across alloc,    *)
(* drop, forget and the expansion of the early heap to the whole RAM.      *)
(***************************************************************************)
THEOREM OwnedPagesSafe ==
  ASSUME DebugAssertions PROVE Spec => []OwnedPagesMarked
<1>1. AllocInv => OwnedPagesMarked
  BY DEF AllocInv
<1> QED
  BY <1>1, AllocInvariant, PTL

\* No two PageSlices that alloc handed out share a page, and none has a page
\* that was leaked.
THEOREM SlicesSafe ==
  ASSUME DebugAssertions PROVE Spec => []SlicesDisjoint
<1>1. AllocInv => SlicesDisjoint
  BY DEF AllocInv
<1> QED
  BY <1>1, AllocInvariant, PTL

(***************************************************************************)
(* No page of the kernel image or of the 64 KiB that add_memory_node       *)
(* reserves for the device tree blob is owned or can be handed out.        *)
(***************************************************************************)
THEOREM ReservedPagesSafe ==
  ASSUME DebugAssertions PROVE Spec => []ReservedNotHandedOut
<1>1. AllocInv => ReservedNotHandedOut
  BY DEF AllocInv
<1> QED
  BY <1>1, AllocInvariant, PTL

\* alloc only hands out pages of the early heap or of the memory node.
THEOREM RamOnly ==
  ASSUME DebugAssertions PROVE Spec => []HandsOutRamOnly
<1>1. AllocInv => HandsOutRamOnly
  BY DEF AllocInv
<1> QED
  BY <1>1, AllocInvariant, PTL

-----------------------------------------------------------------------------
\* Held pages as PagePool's function of handles.
HeldNow == [h \in Handles |-> Held(h)]

\* rust_panic leaves every page where it is.
LEMMA PanicStutters ==
  ASSUME Running, Panic
  PROVE  FreePages' = FreePages /\ HeldNow' = HeldNow /\ leaked' = leaked
BY DEF Running, Panic, FreePages, HeldNow, Held

\* A change of one slice changes what that handle holds and nothing else.
LEMMA SliceChange ==
  ASSUME TypeOK, NEW h \in Handles, NEW s, slices' = [slices EXCEPT ![h] = s]
  PROVE  HeldNow' = [HeldNow EXCEPT ![h] = SlicePages(s)]
BY Zenon DEF TypeOK, HeldNow, Held

\* The handle of no slice holds no page.
LEMMA NoSliceEmpty == SlicePages(NoSlice) = {}
BY DEF SlicePages, NoSlice, Run

\* alloc takes adjacent free pages out of the pool, or panics.
LEMMA AllocTakes ==
  ASSUME AllocInv, NEW h \in Handles, NEW page_count \in 0 .. MaxPages,
         Alloc(h, page_count)
  PROVE  Pool!Next \/ UNCHANGED Pool!poolvars
<1> DEFINE page_num == FirstHole(marked, Capacity, page_count)
<1> USE LayoutAssumption
<1>1. Running
  BY DEF Alloc
<1>2. CASE Panic
  BY <1>1, <1>2, PanicStutters DEF Pool!poolvars, HeldNow
<1>3. CASE ~Panic
  <2>1. page_num # NoHole
    BY <1>3 DEF Alloc
  <2>2. /\ page_num \in Nat /\ page_count > 0 /\ page_num + page_count <= Capacity
        /\ Run(page_num, page_count) \cap marked = {}
    <3>1. Capacity \in Nat /\ page_count \in Nat
      OBVIOUS
    <3> QED
      BY <2>1, <3>1, FirstHoleIsHole
  <2> DEFINE first == ram_base + page_num
             last == first + page_count - 1
  <2>3. /\ slices[h] = NoSlice
        /\ marked' = Mark(marked, page_num, page_count)
        /\ slices' = [slices EXCEPT ![h] = [buf |-> first, pages |-> page_count]]
        /\ phase' = phase /\ ram_base' = ram_base /\ leaked' = leaked
    BY <2>1 DEF Alloc
  <2> HIDE DEF page_num
  <2>4. ram_base \in Nat /\ marked \subseteq Bits
    BY DEF AllocInv, TypeOK
  <2>5. SlicePages([buf |-> first, pages |-> page_count]) = first .. last
    BY <2>2, <2>4 DEF SlicePages, Run
  <2>6. /\ first .. last \subseteq FreePages
        /\ first \in FreePages /\ last \in FreePages
        /\ first \in first .. last
    BY <1>1, <2>2, <2>4 DEF FreePages, Run, Running
  <2>7. FreePages' = FreePages \ (first .. last)
    BY <1>1, <2>2, <2>3, <2>4 DEF FreePages, Mark, Run, Running
  <2>8. HeldNow' = [HeldNow EXCEPT ![h] = first .. last]
    BY <2>3, <2>5, SliceChange, Zenon DEF AllocInv
  <2>9. HeldNow[h] = {}
    BY <2>3, NoSliceEmpty DEF HeldNow, Held
  <2> HIDE DEF first, last
  <2>10. Pool!Take(h)
    BY <2>3, <2>6, <2>7, <2>8, <2>9, Zenon DEF Pool!Take, HeldNow
  <2> QED
    BY <2>10 DEF Pool!Next
<1> QED
  BY <1>2, <1>3

\* Drop gives exactly the pages of its slice back to the pool, or panics.
LEMMA DropGives ==
  ASSUME DebugAssertions, AllocInv, NEW h \in Handles, DropSlice(h)
  PROVE  Pool!Next \/ UNCHANGED Pool!poolvars
<1> USE LayoutAssumption
<1>1. Running
  BY DEF DropSlice
<1>2. CASE Panic
  BY <1>1, <1>2, PanicStutters, Zenon DEF Pool!poolvars, HeldNow
<1>3. CASE ~Panic
  <2>1. /\ marked' = Clear(marked, slices[h].buf - ram_base, slices[h].pages)
        /\ slices' = [slices EXCEPT ![h] = NoSlice]
        /\ phase' = phase /\ ram_base' = ram_base /\ leaked' = leaked
        /\ ~AddrFails(ram_base, slices[h].buf, slices[h].pages)
    BY <1>3 DEF DropSlice, FreeFails
  <2>2. ram_base \in Nat /\ slices[h].buf \in Nat /\ slices[h].pages \in Nat
    BY Zenon DEF AllocInv, TypeOK
  <2>3. /\ slices[h].buf >= ram_base
        /\ slices[h].buf + slices[h].pages <= ram_base + Capacity
    BY <2>1, <2>2 DEF AddrFails
  <2>4. FreePages' = FreePages \cup Held(h)
    <3> DEFINE buf == slices[h].buf
               pages == slices[h].pages
    <3>1. Held(h) = Run(buf, pages)
      BY DEF Held, SlicePages
    <3>2. marked' = marked \ Run(buf - ram_base, pages)
      BY <2>1 DEF Clear
    <3>3. buf \in Nat /\ pages \in Nat /\ buf >= ram_base
          /\ buf + pages <= ram_base + Capacity
      BY <2>2, <2>3
    <3> HIDE DEF buf, pages
    <3>4. \A a \in Nat : a - ram_base \in Run(buf - ram_base, pages)
                           <=> a \in Run(buf, pages)
      BY <2>2, <3>3 DEF Run
    <3>5. Run(buf, pages) \subseteq ram_base .. (ram_base + Capacity - 1)
      BY <2>2, <3>3 DEF Run
    <3>6. ram_base .. (ram_base + Capacity - 1) \subseteq Nat
      BY <2>2
    <3> QED
      BY <1>1, <2>1, <3>1, <3>2, <3>4, <3>5, <3>6 DEF FreePages, Running
  <2>5. HeldNow' = [HeldNow EXCEPT ![h] = {}]
    BY <2>1, SliceChange, NoSliceEmpty, Zenon DEF AllocInv
  <2>6. Pool!Give(h)
    BY <2>1, <2>4, <2>5 DEF Pool!Give, HeldNow
  <2> QED
    BY <2>6 DEF Pool!Next
<1> QED
  BY <1>2, <1>3

\* mem::forget moves the pages of a slice to those that never come back.
LEMMA ForgetForgets ==
  ASSUME AllocInv, NEW h \in Handles, ForgetSlice(h)
  PROVE  Pool!Next
<1>1. /\ leaked' = leaked \cup Held(h)
      /\ slices' = [slices EXCEPT ![h] = NoSlice]
      /\ phase' = phase /\ ram_base' = ram_base /\ marked' = marked
  BY DEF ForgetSlice, Held
<1>2. HeldNow' = [HeldNow EXCEPT ![h] = {}]
  BY <1>1, SliceChange, NoSliceEmpty, Zenon DEF AllocInv
<1>3. FreePages' = FreePages
  BY <1>1 DEF FreePages
<1>4. Pool!Forget(h)
  BY <1>1, <1>2, <1>3 DEF Pool!Forget, HeldNow
<1> QED
  BY <1>4 DEF Pool!Next

(***************************************************************************)
(* expand_to moves the bits of the early heap with its pages, and the      *)
(* regions that add_memory_node marks do not overlap it, so a page of the  *)
(* heap is free after a successful call iff it was free before.            *)
(***************************************************************************)
LEMMA NodeKeepsHeap ==
  ASSUME AllocInv, phase = "early", NEW node \in Nodes, AddMemoryNode(node),
         ~Panic
  PROVE  FreePages' \cap ram = FreePages
<1> DEFINE delta == HeapStart - node.base
<1> USE LayoutAssumption
<1>1. /\ node.base \in Nat /\ node.len \in Nat
      /\ ram_base = HeapStart /\ ram = EarlyHeap /\ marked \subseteq Bits
      /\ FreePages \subseteq EarlyHeap
  BY NodesAssumption DEF AllocInv, TypeOK, HandsOutRamOnly
<1>2. TypeOK
  BY DEF AllocInv
<1>3. /\ ~ExpandFails(node) /\ phase' = "full" /\ ram_base' = node.base
      /\ marked' = Expanded(node)
                     \cup Run(TextStart - node.base, HeapStart - TextStart)
                     \cup Run((HeapStart + EarlyHeapPages) - node.base,
                              EndPage - HeapStart)
                     \cup Run(DtbStart - node.base, DtbPages)
  BY <1>2, NodeBits, Zenon
<1>4. /\ delta \in Nat
      /\ \A b \in Bits :
           b \in Expanded(node) <=>
             \/ b \in Run(delta, EarlyHeapPages) /\ b - delta \in marked
             \/ b >= node.len /\ b >= delta + EarlyHeapPages /\ b \in marked
  BY <1>1, <1>2, <1>3, ExpandedBits
<1>5. delta + EarlyHeapPages <= Capacity
  BY <1>1, <1>3, <1>4 DEF ExpandFails
<1>6. ASSUME NEW a \in EarlyHeap
      PROVE  a \in FreePages' <=> a \in FreePages
  <2>1. a \in Nat /\ HeapStart <= a /\ a < HeapStart + EarlyHeapPages
    BY DEF EarlyHeap, Run
  <2>2. /\ a - node.base \in Bits
        /\ a - node.base \in Run(delta, EarlyHeapPages)
        /\ (a - node.base) - delta = a - HeapStart
        /\ a - node.base < delta + EarlyHeapPages
    BY <1>1, <1>4, <1>5, <2>1, SMTT(30) DEF Run, Bits
  <2>3. /\ a - node.base \notin Run(TextStart - node.base, HeapStart - TextStart)
        /\ a - node.base \notin Run((HeapStart + EarlyHeapPages) - node.base,
                                    EndPage - HeapStart)
        /\ a - node.base \notin Run(DtbStart - node.base, DtbPages)
    BY <1>1, <2>1 DEF Run
  <2>4. a - node.base \in Expanded(node) <=> a - HeapStart \in marked
    <3>1. ~(a - node.base >= delta + EarlyHeapPages)
      BY <1>1, <1>4, <2>1, <2>2, SMTT(30)
    <3> HIDE DEF delta
    <3> QED
      BY <1>4, <2>2, <3>1
  <2>5. a - node.base \in marked' <=> a - HeapStart \in marked
    BY <1>3, <2>3, <2>4
  <2>6. /\ a \in HeapStart .. (HeapStart + Capacity - 1)
        /\ a \in node.base .. (node.base + Capacity - 1)
    BY <1>1, <1>4, <1>5, <2>1
  <2> QED
    BY <1>1, <1>3, <2>5, <2>6 DEF FreePages
<1> QED
  BY <1>1, <1>6

\* add_memory_node only adds pages nobody owns to the pool, or panics.
LEMMA NodeGrows ==
  ASSUME DebugAssertions, AllocInv, NEW node \in Nodes, AddMemoryNode(node)
  PROVE  Pool!Next \/ UNCHANGED Pool!poolvars
<1>1. Running
  BY DEF AddMemoryNode
<1>2. CASE Panic
  BY <1>1, <1>2, PanicStutters DEF Pool!poolvars, HeldNow
<1>3. CASE ~Panic
  <2>1. AllocInv'
    BY AllocInvStep DEF Next
  <2>2. UNCHANGED <<slices, leaked>> /\ phase # "full"
    <3>1. TypeOK
      BY DEF AllocInv
    <3>2. UNCHANGED <<slices, leaked>>
      BY <1>3, <3>1, NodeBits
    <3>3. phase # "full"
      BY <1>3, SecondNodePanics
    <3> QED
      BY <3>2, <3>3
  <2>3. FreePages' \cap ram = FreePages
    BY <1>1, <1>3, <2>2, NodeKeepsHeap DEF Running
  <2>4. HeldNow' = HeldNow /\ OwnedPages' = OwnedPages
    BY <2>2 DEF HeldNow, Held, OwnedPages
  <2>5. FreePages' \subseteq Nat /\ FreePages' \cap OwnedPages = {}
    BY <2>1, <2>4 DEF AllocInv, TypeOK, HandsOutRamOnly, OwnedPagesMarked, FreePages
  <2>6. Pool!Grow
    BY <2>2, <2>3, <2>4, <2>5 DEF Pool!Grow, HeldNow, OwnedPages
  <2> QED
    BY <2>6 DEF Pool!Next
<1> QED
  BY <1>2, <1>3

\* init_early_heap puts the pages of the early heap into an empty pool.
LEMMA EarlyHeapGrows ==
  ASSUME DebugAssertions, AllocInv, InitEarlyHeap
  PROVE  Pool!Next
<1>1. AllocInv'
  BY AllocInvStep DEF Next
<1>2. UNCHANGED <<slices, leaked>> /\ FreePages = {}
  BY DEF InitEarlyHeap, FreePages
<1>3. HeldNow' = HeldNow /\ OwnedPages' = OwnedPages
  BY <1>2 DEF HeldNow, Held, OwnedPages
<1>4. FreePages' \subseteq Nat /\ FreePages' \cap OwnedPages = {}
  BY <1>1, <1>3 DEF AllocInv, TypeOK, HandsOutRamOnly, OwnedPagesMarked, FreePages
<1>5. Pool!Grow
  BY <1>2, <1>3, <1>4 DEF Pool!Grow, HeldNow, OwnedPages
<1> QED
  BY <1>5 DEF Pool!Next

(***************************************************************************)
(* Adding a memory node with add_memory_node takes no page of the early    *)
(* heap from its owner and loses none that was free.                       *)
(***************************************************************************)
THEOREM GrowthKeepsPages ==
  ASSUME DebugAssertions PROVE Spec => GrowKeepsOldPages
<1>1. AllocInv /\ [Next]_vars
        => [phase = "early" /\ phase' = "full" => FreePages' \cap ram = FreePages]_vars
  <2> SUFFICES ASSUME AllocInv, [Next]_vars, phase = "early", phase' = "full"
               PROVE  FreePages' \cap ram = FreePages
    OBVIOUS
  <2>1. PICK node \in Nodes : AddMemoryNode(node)
    BY DEF Next, InitEarlyHeap, Alloc, DropSlice, ForgetSlice, Panic, vars
  <2>2. ~Panic
    BY DEF Panic
  <2> QED
    BY <2>1, <2>2, NodeKeepsHeap
<1> QED
  BY <1>1, AllocInvariant, PTL DEF Spec, GrowKeepsOldPages

(***************************************************************************)
(* The bitmap allocator implements PagePool: alloc, drop, forget,          *)
(* init_early_heap and add_memory_node each do what the pool's operation   *)
(* does, or panic and leave every page where it is.                        *)
(***************************************************************************)
THEOREM ImplementsPool ==
  ASSUME DebugAssertions PROVE Spec => PoolSpec
<1>1. Init => Pool!Init
  <2> SUFFICES ASSUME Init PROVE Pool!Init
    OBVIOUS
  <2>1. \A h \in Handles : Held(h) = {}
    BY DEF Init, Held, SlicePages, NoSlice, Run
  <2> QED
    BY <2>1 DEF Init, Pool!Init, FreePages
<1>2. AllocInv /\ [Next]_vars => [Pool!Next]_Pool!poolvars
  <2> SUFFICES ASSUME AllocInv, [Next]_vars
               PROVE  Pool!Next \/ UNCHANGED Pool!poolvars
    OBVIOUS
  <2>1. CASE UNCHANGED vars
    BY <2>1 DEF vars, Pool!poolvars, FreePages, Held
  <2> QED
    BY <2>1, AllocTakes, DropGives, ForgetForgets, NodeGrows, EarlyHeapGrows DEF Next
<1> QED
  BY <1>1, <1>2, AllocInvariant, PTL DEF Spec, PoolSpec, Pool!Spec

-----------------------------------------------------------------------------
\* ZerosKept, with the allocator's invariant and that an owner relies on
\* pages of its own only.
BoxInv ==
  /\ AllocInv
  /\ empty \in [Handles -> SUBSET Int]
  /\ \A h \in Handles : empty[h] \subseteq Held(h)
  /\ ZerosKept

\* Every action on contents is one of the allocator, or leaves it alone.
LEMMA BoxStepAllocates == BoxNext => [Next]_vars
<1> SUFFICES ASSUME BoxNext PROVE Next \/ UNCHANGED vars
  OBVIOUS
<1>1. 1 \in 0 .. MaxPages /\ ThreadPages \in 0 .. MaxPages
  BY LayoutAssumption, BoxAssumption
<1>2. CASE BootHeap
  BY <1>2 DEF BootHeap, Next
<1>3. ASSUME NEW h \in Handles, NEW page_count \in 0 .. MaxPages,
             NewSlice(h, page_count) \/ NewValue(h, page_count)
      PROVE  Next
  BY <1>3 DEF NewSlice, NewValue, Make, Next
<1>4. ASSUME NEW h \in Handles, NewTable(h) \/ NewThread(h)
      PROVE  Next
  BY <1>1, <1>4 DEF NewTable, NewThread, Make, Next
<1>5. ASSUME NEW h \in Handles, (\E page \in Held(h) : Write(h, page))
      PROVE  UNCHANGED vars
  BY <1>5 DEF Write
<1>6. ASSUME NEW h \in Handles, Drop(h) \/ Leak(h)
      PROVE  Next
  BY <1>6 DEF Drop, Leak, Next
<1>7. ASSUME NEW node \in Nodes, DownloadMoreRam(node)
      PROVE  Next
  BY <1>7, Zenon DEF DownloadMoreRam, Next
<1> QED
  BY <1>2, <1>3, <1>4, <1>5, <1>6, <1>7 DEF BoxNext

\* A slice that alloc made without a panic.
LEMMA SliceMade ==
  ASSUME AllocInv, NEW h \in Handles, NEW page_count \in 0 .. MaxPages,
         Alloc(h, page_count), Running'
  PROVE  \E buf \in Nat :
           /\ page_count > 0
           /\ slices'[h] = [buf |-> buf, pages |-> page_count]
           /\ Held(h)' = Run(buf, page_count)
<1> DEFINE page_num == FirstHole(marked, Capacity, page_count)
<1>1. page_num # NoHole
  BY DEF Alloc, Panic, Running
<1>2. Capacity \in Nat /\ page_count \in Nat
  BY LayoutAssumption
<1>3. page_num \in Nat /\ page_count > 0
  BY <1>1, <1>2, FirstHoleIsHole
<1>4. slices' = [slices EXCEPT ![h] = [buf |-> ram_base + page_num,
                                       pages |-> page_count]]
  BY <1>1 DEF Alloc
<1> HIDE DEF page_num
<1>5. ram_base + page_num \in Nat
  BY <1>3 DEF AllocInv, TypeOK
<1>6. slices'[h] = [buf |-> ram_base + page_num, pages |-> page_count]
  BY <1>4 DEF AllocInv, TypeOK
<1> QED
  BY <1>3, <1>5, <1>6 DEF Held, SlicePages

\* What the other slices hold, in a step that changes one handle.
LEMMA OthersHold ==
  ASSUME TypeOK, NEW h \in Handles, NEW s,
         slices' = slices \/ slices' = [slices EXCEPT ![h] = s]
  PROVE  \A i \in Handles \ {h} : Held(i)' = Held(i)
BY DEF TypeOK, Held

\* A new slice whose owner relies on pages of it that are zeroed and not
\* written leaves the zeros of all other slices alone.
LEMMA MakeKeeps ==
  ASSUME BoxInv, AllocInv', NEW h \in Handles, NEW page_count \in 0 .. MaxPages,
         NEW zeroed, NEW written, NEW taken,
         Make(h, page_count, zeroed, written, taken),
         Running' => /\ written \subseteq Held(h)'
                     /\ taken \subseteq Held(h)' /\ taken \subseteq Int
                     /\ taken \subseteq (clean \cup zeroed) \ written
  PROVE  BoxInv'
<1>1. Alloc(h, page_count)
  BY DEF Make
<1>2. CASE ~Running'
  <2>1. UNCHANGED <<clean, empty>>
    BY <1>2 DEF Make
  <2>2. slices' = slices
    BY <1>1, <1>2 DEF Alloc, Panic, Running
  <2> QED
    BY <2>1, <2>2 DEF BoxInv, ZerosKept, Held
<1>3. CASE Running'
  <2>1. /\ clean' = (clean \cup zeroed) \ written
        /\ empty' = [empty EXCEPT ![h] = taken]
    BY <1>3 DEF Make
  <2>2. \A i \in Handles \ {h} : Held(i)' = Held(i)
    <3>1. \E s : slices' = slices \/ slices' = [slices EXCEPT ![h] = s]
      BY <1>1 DEF Alloc, Panic
    <3> QED
      BY <3>1, OthersHold, Zenon DEF BoxInv, AllocInv
  <2>3. \A i \in Handles \ {h} : Held(i)' \cap Held(h)' = {}
    BY DEF AllocInv, SlicesDisjoint
  <2>4. /\ empty'[h] = taken
        /\ \A i \in Handles \ {h} : empty'[i] = empty[i]
        /\ empty' \in [Handles -> SUBSET Int]
    BY <1>3, <2>1 DEF BoxInv
  <2>5. \A i \in Handles : empty'[i] \subseteq Held(i)'
    BY <1>3, <2>2, <2>4 DEF BoxInv
  <2>6. \A i \in Handles : empty'[i] \subseteq clean'
    <3>1. empty'[h] \subseteq clean'
      BY <1>3, <2>1, <2>4
    <3>2. ASSUME NEW i \in Handles \ {h} PROVE empty'[i] \subseteq clean'
      <4>1. empty'[i] \subseteq clean /\ empty'[i] \subseteq Held(i)'
        BY <2>4, <2>5 DEF BoxInv, ZerosKept
      <4> QED
        BY <1>3, <2>1, <2>3, <4>1
    <3> QED
      BY <3>1, <3>2
  <2> QED
    BY <2>4, <2>5, <2>6 DEF BoxInv, ZerosKept
<1> QED
  BY <1>2, <1>3

\* The first page of a slice of one page, and the last page of any slice.
LEMMA RunEnds ==
  ASSUME NEW buf \in Nat
  PROVE  /\ Run(buf, 1) = {buf} /\ {buf} \subseteq Int
         /\ \A n \in Nat \ {0} : {buf + n - 1} \subseteq Run(buf, n) /\ Run(buf, n) \subseteq Int
BY DEF Run

\* The constructors of slices, values, page tables and threads.
LEMMA ConstructorsKeep ==
  ASSUME BoxInv, AllocInv', NEW h \in Handles,
         \/ \E page_count \in 0 .. MaxPages :
              NewSlice(h, page_count) \/ NewValue(h, page_count)
         \/ NewTable(h) \/ NewThread(h)
  PROVE  BoxInv'
<1>0. ThreadPages \in Nat \ {0}
  BY BoxAssumption
<1>1. 1 \in 0 .. MaxPages /\ ThreadPages \in 0 .. MaxPages
  BY LayoutAssumption, BoxAssumption
<1>2. ASSUME NEW page_count \in 0 .. MaxPages, NewSlice(h, page_count)
      PROVE  BoxInv'
  BY <1>2, MakeKeeps DEF NewSlice
<1>3. ASSUME NEW page_count \in 0 .. MaxPages, NewValue(h, page_count)
      PROVE  BoxInv'
  BY <1>3, MakeKeeps DEF NewValue
<1>4. CASE NewTable(h)
  <2>1. Make(h, 1, First(slices'[h]), {}, Held(h)')
    BY <1>4 DEF NewTable
  <2>2. ASSUME Running'
        PROVE  Held(h)' \subseteq Int /\ Held(h)' = First(slices'[h])
    <3>1. PICK buf \in Nat : /\ slices'[h] = [buf |-> buf, pages |-> 1]
                             /\ Held(h)' = Run(buf, 1)
      BY <1>1, <2>1, <2>2, SliceMade DEF Make, BoxInv
    <3>2. First(slices'[h]) = {buf}
      BY <3>1 DEF First
    <3>3. Run(buf, 1) = {buf} /\ {buf} \subseteq Int
      BY RunEnds, Zenon
    <3>4. Held(h)' = {buf}
      BY <3>1, <3>3, Zenon
    <3> QED
      BY <3>2, <3>3, <3>4, Zenon
  <2> QED
    BY <1>1, <2>1, <2>2, MakeKeeps
<1>5. CASE NewThread(h)
  <2> DEFINE last == Last(slices'[h])
             zeroed == First(slices'[h]) \cup Held(h)'
             taken == Held(h)' \ last
  <2>1. Make(h, ThreadPages, zeroed, last, taken)
    BY <1>5, Zenon DEF NewThread
  <2>2. ASSUME Running'
        PROVE  Held(h)' \subseteq Int /\ last \subseteq Held(h)'
    <3>1. PICK buf \in Nat : /\ slices'[h] = [buf |-> buf, pages |-> ThreadPages]
                             /\ Held(h)' = Run(buf, ThreadPages)
      BY <1>1, <2>1, <2>2, SliceMade, Zenon DEF Make, BoxInv
    <3>2. last = {buf + ThreadPages - 1}
      BY <3>1 DEF Last
    <3> HIDE DEF last
    <3> QED
      BY <1>0, <3>1, <3>2, RunEnds
  <2>3. Running' => /\ last \subseteq Held(h)'
                    /\ taken \subseteq Held(h)' /\ taken \subseteq Int
                    /\ taken \subseteq (clean \cup zeroed) \ last
    BY <2>2
  <2> HIDE DEF last, zeroed, taken
  <2> QED
    BY <1>1, <2>1, <2>3, MakeKeeps
<1> QED
  BY <1>2, <1>3, <1>4, <1>5

\* A write, a drop and a leak reach the pages of their own slice only.
LEMMA OwnersKeep ==
  ASSUME BoxInv, AllocInv', NEW h \in Handles,
         (\E page \in Held(h) : Write(h, page)) \/ Drop(h) \/ Leak(h)
  PROVE  BoxInv'
<1>1. \A i \in Handles \ {h} : empty[i] \cap Held(h) = {}
  BY DEF BoxInv, AllocInv, SlicesDisjoint
<1>2. ASSUME NEW page \in Held(h), Write(h, page) PROVE BoxInv'
  <2>1. /\ clean' = clean \ {page} /\ slices' = slices
        /\ empty' = [empty EXCEPT ![h] = @ \ {page}]
    BY <1>2 DEF Write, vars
  <2>2. /\ empty'[h] = empty[h] \ {page}
        /\ \A i \in Handles \ {h} : empty'[i] = empty[i]
        /\ empty' \in [Handles -> SUBSET Int]
    BY <2>1 DEF BoxInv
  <2>3. \A i \in Handles : empty'[i] \subseteq clean'
    BY <1>1, <2>1, <2>2 DEF BoxInv, ZerosKept
  <2>4. \A i \in Handles : empty'[i] \subseteq Held(i)'
    BY <2>1, <2>2 DEF BoxInv, Held
  <2> QED
    BY <2>2, <2>3, <2>4 DEF BoxInv, ZerosKept
<1>3. CASE Drop(h) \/ Leak(h)
  <2>1. /\ clean \ Held(h) \subseteq clean'
        /\ empty' = [empty EXCEPT ![h] = {}]
    BY <1>3 DEF Drop, Leak
  <2>2. \A i \in Handles \ {h} : Held(i)' = Held(i)
    <3>1. \E s : slices' = slices \/ slices' = [slices EXCEPT ![h] = s]
      BY <1>3, Zenon DEF Drop, Leak, DropSlice, ForgetSlice, Panic
    <3> QED
      BY <3>1, OthersHold DEF BoxInv, AllocInv
  <2>3. /\ empty'[h] = {}
        /\ \A i \in Handles \ {h} : empty'[i] = empty[i]
        /\ empty' \in [Handles -> SUBSET Int]
    BY <2>1 DEF BoxInv
  <2>4. \A i \in Handles : empty'[i] \subseteq clean'
    BY <1>1, <2>1, <2>3 DEF BoxInv, ZerosKept
  <2>5. \A i \in Handles : empty'[i] \subseteq Held(i)'
    BY <2>2, <2>3 DEF BoxInv
  <2> QED
    BY <2>3, <2>4, <2>5 DEF BoxInv, ZerosKept
<1> QED
  BY <1>2, <1>3

(***************************************************************************)
(* With what PageBox says about contents, the allocator still does nothing *)
(* but what module PageAlloc says: all of the theorems about its Spec hold *)
(* for the boxes, too.                                                     *)
(***************************************************************************)
THEOREM BoxesUseAllocator == BoxSpec => Spec
<1>1. BoxInit => Init
  BY DEF BoxInit
<1>2. [BoxNext]_boxVars => [Next]_vars
  BY BoxStepAllocates DEF boxVars
<1> QED
  BY <1>1, <1>2, PTL DEF BoxSpec, Spec

(***************************************************************************)
(* new_zeroed and Thread::init give page tables and threads of any size    *)
(* pages that are zero, and no other box, drop or memory node changes them *)
(* before their owner does.                                                *)
(***************************************************************************)
THEOREM BoxesStayEmpty ==
  ASSUME DebugAssertions PROVE BoxSpec => []ZerosKept
<1>1. BoxInit /\ AllocInv => BoxInv
  BY DEF BoxInit, BoxInv, ZerosKept
<1>2. BoxInv /\ AllocInv' /\ [BoxNext]_boxVars => BoxInv'
  <2> SUFFICES ASSUME BoxInv, AllocInv', [BoxNext]_boxVars PROVE BoxInv'
    OBVIOUS
  <2>1. ASSUME UNCHANGED <<slices, clean, empty>> PROVE BoxInv'
    BY <2>1 DEF BoxInv, ZerosKept, Held
  <2>2. CASE BootHeap \/ UNCHANGED boxVars
    BY <2>1, <2>2 DEF BootHeap, InitEarlyHeap, boxVars, vars
  <2>3. ASSUME NEW node \in Nodes, DownloadMoreRam(node) PROVE BoxInv'
    BY <2>1, <2>3 DEF DownloadMoreRam, AddMemoryNode, Panic
  <2> QED
    BY <2>2, <2>3, ConstructorsKeep, OwnersKeep DEF BoxNext
<1>3. BoxSpec => []AllocInv
  BY AllocInvariant, BoxesUseAllocator, PTL
<1>4. BoxInv => ZerosKept
  BY DEF BoxInv
<1> QED
  BY <1>1, <1>2, <1>3, <1>4, PTL DEF BoxSpec

=============================================================================
