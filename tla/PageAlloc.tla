----------------------------- MODULE PageAlloc -----------------------------
(***************************************************************************)
(* The physical page allocator of kernel/src/page_alloc.rs: the static     *)
(* PAGE_ALLOC, the PageSlice values handed out, the early heap it starts   *)
(* with and the memory node that the init program adds later.              *)
(*                                                                         *)
(* All quantities are in pages.  An address is the physical page number:   *)
(* PhyAddr::virt only sets the upper 24 bits, so it keeps order and        *)
(* distance.  The bitmap is the set of its marked bits (module Bitmap      *)
(* relates it to the words), bit b being the page ram_base + b.            *)
(*                                                                         *)
(* One action is one critical section of PAGE_ALLOC.lock(): interrupts are *)
(* off in it, there is one core, and no interrupt handler allocates.       *)
(***************************************************************************)
EXTENDS PageSet, FiniteSets

CONSTANTS
  Capacity,         \* PAGE_ALLOC_PAGES
  EarlyHeapPages,   \* EARLY_HEAP_SIZE / PAGE_SIZE
  TextStart,        \* page of _text_start
  HeapStart,        \* page of EARLY_HEAP
  EndPage,          \* page of _end, rounded down
  EndPartial,       \* _end is not at a page boundary
  DtbStart,         \* page of _dtb_start
  DtbPages,         \* 0x10000 / PAGE_SIZE
  Nodes,            \* the arguments of add_memory_node
  Handles,          \* the PageSlice values a program can hold at a time
  MaxPages,         \* the largest page_count requested
  DebugAssertions   \* debug_assert! is compiled in

\* The layout that linker.lds gives the kernel image: the device tree blob,
\* then text, and the early heap inside of bss.
ASSUME LayoutAssumption ==
  /\ Capacity \in Nat /\ EarlyHeapPages \in Nat \ {0}
  /\ EarlyHeapPages <= Capacity
  /\ {TextStart, HeapStart, EndPage, DtbStart} \subseteq Nat
  /\ DtbPages \in Nat \ {0}
  /\ DtbStart + DtbPages <= TextStart
  /\ TextStart <= HeapStart
  /\ HeapStart + EarlyHeapPages <= EndPage
  /\ {EndPartial, DebugAssertions} \subseteq BOOLEAN
  /\ MaxPages \in Nat

\* linker.lds puts _dtb_start at the start of RAM, and the early heap is
\* longer than the blob is far from the base of a node that holds it.
ASSUME NodesAssumption ==
  \A node \in Nodes :
    /\ node \in [base : Nat, len : Nat, aligned : BOOLEAN]
    /\ node.base <= DtbStart => DtbStart < node.base + EarlyHeapPages

VARIABLES
  phase,        \* "boot", "early" (heap only), "full" (node added), "panicked"
  ram_base,     \* BitmapPageAlloc.ram_base
  marked,       \* BitmapPageAlloc.bitmap_alloc, the bits that are 1
  slices,       \* slices[h]: buf and len of PageSlice h, pages = 0 if unused
  leaked,       \* pages of slices that went to mem::forget
  ram           \* history: the pages of RAM the allocator was told of

vars == <<phase, ram_base, marked, slices, leaked, ram>>

Bits == 0 .. (Capacity - 1)
NoSlice == [buf |-> 0, pages |-> 0]
SlicePages(s) == Run(s.buf, s.pages)
EarlyHeap == Run(HeapStart, EarlyHeapPages)

Init ==
  /\ phase = "boot"
  /\ ram_base = 0
  /\ marked = {}
  /\ slices = [h \in Handles |-> NoSlice]
  /\ leaked = {}
  /\ ram = {}

Running == phase \in {"early", "full"}

\* rust_panic never returns, and interrupts do not touch the allocator.
Panic ==
  /\ phase' = "panicked"
  /\ UNCHANGED <<ram_base, marked, slices, leaked, ram>>

\* Addresses are not checked.
AddrUnchecked(base, addr, count) == FALSE

(***************************************************************************)
(* The address checks of mark_allocated and free.  With debug assertions   *)
(* they are asserted; without, a page outside of the bitmap (also one      *)
(* below ram_base, after the subtraction wraps) is an index out of bounds, *)
(* unless there is no page to index.                                       *)
(***************************************************************************)
AddrFails(base, addr, count) ==
  /\ DebugAssertions \/ count > 0
  /\ addr < base \/ addr + count > base + Capacity

MarkFails(bits, base, addr, count) ==
  \/ AddrFails(base, addr, count)
  \/ DebugAssertions /\ DoubleAlloc(bits, addr - base, count)

FreeFails(bits, base, addr, count) ==
  \/ AddrFails(base, addr, count)
  \/ DebugAssertions /\ DoubleFree(bits, addr - base, count)

-----------------------------------------------------------------------------
(***************************************************************************)
(* init_early_heap, called once by kmain: every page is marked, then the   *)
(* pages of the early heap are freed.                                      *)
(***************************************************************************)
InitEarlyHeapNoMark ==
  /\ phase = "boot"
  /\ phase' = "early"
  /\ ram_base' = HeapStart
  /\ marked' = Clear(marked, 0, EarlyHeapPages)
  /\ ram' = EarlyHeap
  /\ UNCHANGED <<slices, leaked>>

InitEarlyHeap ==
  /\ phase = "boot"
  /\ phase' = "early"
  /\ ram_base' = HeapStart
  /\ marked' = Clear(Mark(marked, 0, Capacity), 0, EarlyHeapPages)
  /\ ram' = EarlyHeap
  /\ UNCHANGED <<slices, leaked>>

(***************************************************************************)
(* alloc and alloc_zeroed, of every caller: the slice is the first hole,   *)
(* and expect("OOM") panics if there is none.                              *)
(***************************************************************************)
AllocShort(h, page_count) ==
  LET page_num == FirstHole(marked, Capacity, page_count)
  IN  /\ Running
      /\ slices[h] = NoSlice
      /\ IF page_num = NoHole
         THEN Panic
         ELSE /\ marked' = Mark(marked, page_num, page_count - 1)
              /\ slices' = [slices EXCEPT ![h] = [buf |-> ram_base + page_num,
                                                  pages |-> page_count]]
              /\ UNCHANGED <<phase, ram_base, leaked, ram>>

Alloc(h, page_count) ==
  LET page_num == FirstHole(marked, Capacity, page_count)
  IN  /\ Running
      /\ slices[h] = NoSlice
      /\ IF page_num = NoHole
         THEN Panic
         ELSE /\ marked' = Mark(marked, page_num, page_count)
              /\ slices' = [slices EXCEPT ![h] = [buf |-> ram_base + page_num,
                                                  pages |-> page_count]]
              /\ UNCHANGED <<phase, ram_base, leaked, ram>>

\* Drop for PageSlice.
DropSlice(h) ==
  LET s == slices[h]
  IN  /\ Running
      /\ s # NoSlice
      /\ IF FreeFails(marked, ram_base, s.buf, s.pages)
         THEN Panic
         ELSE /\ marked' = Clear(marked, s.buf - ram_base, s.pages)
              /\ slices' = [slices EXCEPT ![h] = NoSlice]
              /\ UNCHANGED <<phase, ram_base, leaked, ram>>

\* mem::forget of a slice: PageBox::leak, and MemMap's forget(page_slice).
ForgetSlice(h) ==
  /\ Running
  /\ slices[h] # NoSlice
  /\ leaked' = leaked \cup SlicePages(slices[h])
  /\ slices' = [slices EXCEPT ![h] = NoSlice]
  /\ UNCHANGED <<phase, ram_base, marked, ram>>

-----------------------------------------------------------------------------
(***************************************************************************)
(* expand_to(new_base, new_len, EARLY_HEAP_SIZE).  Its assertions, and the *)
(* index checks of the bit operations that follow them.                    *)
(***************************************************************************)
ExpandFails(node) ==
  LET addr_delta == ram_base - node.base
  IN  \/ ~node.aligned
      \/ node.base > ram_base
      \/ node.base + node.len < ram_base + EarlyHeapPages
      \/ addr_delta # 0 /\ addr_delta + EarlyHeapPages > Capacity
      \/ /\ node.len > addr_delta + EarlyHeapPages
         /\ node.len > Capacity

\* The bits of the old heap are not moved.
ExpandedUnmoved(node) ==
  LET addr_delta == ram_base - node.base
      rest == addr_delta + EarlyHeapPages
  IN  Clear(Clear(marked, 0, addr_delta), rest, node.len - rest)

\* Existing bits move to their new places, the rest of the node is freed.
Expanded(node) ==
  LET addr_delta == ram_base - node.base
      rest == addr_delta + EarlyHeapPages
  IN  Clear(Clear(MoveRun(marked, 0, addr_delta, EarlyHeapPages),
                  0, addr_delta),
            rest, node.len - rest)

\* The regions that add_memory_node marks, in its order.  The second one is
\* counted from the start of the early heap although it starts at its end.
LowImage == [addr |-> TextStart, count |-> HeapStart - TextStart]

\* The second region counted from where it starts.
HighImageFromHeapEnd == [addr |-> HeapStart + EarlyHeapPages,
                         count |-> EndPage - (HeapStart + EarlyHeapPages)]
HighImage == [addr |-> HeapStart + EarlyHeapPages,
              count |-> EndPage - HeapStart]
Dtb == [addr |-> DtbStart, count |-> DtbPages]

MarkRegion(bits, base, region) == Mark(bits, region.addr - base, region.count)
RegionFails(bits, base, region) == MarkFails(bits, base, region.addr, region.count)

AddMemoryNode(node) ==
  LET low == Expanded(node)
      high == MarkRegion(low, node.base, LowImage)
      dtb == MarkRegion(high, node.base, HighImage)
  IN  /\ Running
      /\ IF \/ ExpandFails(node)
            \/ RegionFails(low, node.base, LowImage)
            \/ RegionFails(high, node.base, HighImage)
            \/ RegionFails(dtb, node.base, Dtb)
         THEN Panic
         ELSE /\ phase' = "full"
              /\ ram_base' = node.base
              /\ marked' = MarkRegion(dtb, node.base, Dtb)
              /\ ram' = Run(node.base, node.len)
              /\ UNCHANGED <<slices, leaked>>

Next ==
  \/ InitEarlyHeap
  \/ \E h \in Handles, page_count \in 0 .. MaxPages : Alloc(h, page_count)
  \/ \E h \in Handles : DropSlice(h)
  \/ \E h \in Handles : ForgetSlice(h)
  \/ \E node \in Nodes : AddMemoryNode(node)

Spec == Init /\ [][Next]_vars

-----------------------------------------------------------------------------
(***************************************************************************)
(* Properties.                                                             *)
(***************************************************************************)

\* The shape of the allocator's state.
TypeOK ==
  /\ phase \in {"boot", "early", "full", "panicked"}
  /\ ram_base \in Nat
  /\ marked \subseteq Bits
  /\ slices \in [Handles -> [buf : Nat, pages : Nat]]
  /\ leaked \subseteq Nat
  /\ ram \subseteq Nat

\* The pages that a call of alloc can hand out.
FreePages ==
  {a \in ram_base .. (ram_base + Capacity - 1) :
     phase # "boot" /\ a - ram_base \notin marked}

\* The pages of PageSlice h.
Held(h) == SlicePages(slices[h])

OwnedPages == leaked \cup UNION {Held(h) : h \in Handles}

(***************************************************************************)
(* No page that a live PageSlice or a leaked one owns can be handed out    *)
(* again, and Drop can free it: it is inside of the bitmap and its bit is  *)
(* 1, also after expand_to has moved the bits and the base.                *)
(***************************************************************************)
OwnedPagesMarked ==
  \A a \in OwnedPages : a - ram_base \in marked

\* Two PageSlices never share a page, nor does one own a leaked page.
SlicesDisjoint ==
  \A h \in Handles :
    /\ Held(h) \cap leaked = {}
    /\ \A i \in Handles \ {h} : Held(h) \cap Held(i) = {}

\* The pages of the kernel image that are not early heap, with the last
\* one that _end cuts, and the device tree blob.
ReservedPages ==
  ((TextStart .. (IF EndPartial THEN EndPage ELSE EndPage - 1)) \ EarlyHeap)
    \cup Run(DtbStart, DtbPages)

(***************************************************************************)
(* The allocator never hands out, nor could hand out, a page of the kernel *)
(* image or of the device tree, although expand_to frees the whole node    *)
(* before add_memory_node marks them again.                                *)
(***************************************************************************)
ReservedNotHandedOut ==
  ReservedPages \cap (FreePages \cup OwnedPages) = {}

(***************************************************************************)
(* Every page that can be handed out, or is owned, is RAM: a page of the   *)
(* early heap or of the memory node.  The bitmap is longer than both.      *)
(***************************************************************************)
HandsOutRamOnly ==
  FreePages \cup OwnedPages \subseteq ram

(***************************************************************************)
(* Adding a memory node takes no free page away and frees no owned one: a  *)
(* page of the old region is free afterwards iff it was free before.       *)
(***************************************************************************)
GrowKeepsOldPages ==
  [][phase = "early" /\ phase' = "full"
       => FreePages' \cap ram = FreePages]_vars

(***************************************************************************)
(* The safety properties above with what makes them inductive: which RAM   *)
(* each phase manages, and that after the first memory node the bit of the *)
(* device tree is marked and among the bits that expand_to moves, so that  *)
(* a second node runs into the "double alloc" assertion.                   *)
(***************************************************************************)
AllocInv ==
  /\ TypeOK
  /\ OwnedPagesMarked
  /\ SlicesDisjoint
  /\ ReservedNotHandedOut
  /\ HandsOutRamOnly
  /\ phase = "boot" => OwnedPages = {} /\ marked = {}
  /\ phase = "early" => ram_base = HeapStart /\ ram = EarlyHeap
  /\ phase = "full" => /\ ram_base <= DtbStart
                       /\ DtbStart < ram_base + EarlyHeapPages
                       /\ DtbStart - ram_base \in marked

\* The allocator implements the pool of module PagePool.
Pool == INSTANCE PagePool WITH
          Pages <- Nat,
          free <- FreePages,
          held <- [h \in Handles |-> Held(h)],
          gone <- leaked

PoolSpec == Pool!Spec

=============================================================================
