---------------------------- MODULE AddressSpace ----------------------------
(***************************************************************************)
(* The address space of the init thread: usermode::start, the syscalls     *)
(* PhyMap, MemMap, MemUnmap and DownloadMoreRam of                         *)
(* kernel/src/aarch64/usermode.rs, and the TLB that the page table code    *)
(* has to flush.  The page allocator appears as its set of used frames:    *)
(* module PageAlloc shows what that set is before and after a memory node. *)
(*                                                                         *)
(* A syscall is one action: it runs with interrupts masked on the only     *)
(* core, and the thread waits for it.  The TLB is filled between syscalls, *)
(* by the accesses of the thread.                                          *)
(***************************************************************************)
EXTENDS PageTables, FiniteSets

CONSTANTS
  HeapFrames,           \* the early heap, which is all that can be used at first
  NodeReserved,         \* frames outside of it that add_memory_node marks
  Nodes,                \* the memory nodes the thread tells the kernel of
  DEFAULT_PC,           \* first page of the program
  DEFAULT_SP,           \* page after the stack
  DefaultStackPages,    \* DEFAULT_STACK_SIZE / PAGE_SIZE
  CodePages,            \* pages of INIT_BIN
  ThreadPages,          \* pages of struct Thread
  StackOffset,          \* page of Thread.stack in struct Thread
  TableOffset,          \* page of Thread.page_table in struct Thread
  VmapStart,            \* 0x50000000, where vmap looks for holes
  DeviceFrames,         \* physical pages the thread asks to map with PhyMap
  MapCounts,            \* the lengths it asks for, in pages
  UnmapStarts,          \* the addresses it unmaps
  Accesses,             \* the pages it accesses between its calls
  TlbSize               \* translations the TLB can hold

\* Frames are numbered from the start of the RAM, and there are as many as
\* the bitmap has bits.  RAM runs out before the address space does: in the
\* code the tables of all 65536 frames could map 128 GiB from VmapStart on,
\* of 512 GiB.  A node has its first frame and its length in frames, and may
\* be off a page boundary.
ASSUME SpaceAssumption ==
  /\ HeapFrames \cup NodeReserved \subseteq 1 .. Frames
  /\ HeapFrames \cap NodeReserved = {}
  /\ {DEFAULT_PC, DEFAULT_SP, VmapStart, TlbSize} \subseteq Nat
  /\ {CodePages, DefaultStackPages, StackOffset} \subseteq Nat
  /\ DEFAULT_SP >= DefaultStackPages
  /\ ThreadPages \in 1 .. Frames /\ TableOffset \in 0 .. (ThreadPages - 1)
  /\ \A node \in Nodes : /\ node.first \in Nat \ {0} /\ node.frames \in Nat
                         /\ node.aligned \in BOOLEAN
  /\ DeviceFrames \cup MapCounts \cup UnmapStarts \cup Accesses \subseteq Nat
  /\ \A count \in MapCounts : VmapStart + R * Frames + count <= Limit

VARIABLES
  m,            \* the memory: tables, used frames, panicked
  grown,        \* a memory node has been added
  root,         \* frame of the thread's level 0 table, 0 before start
  tlb,          \* set of <<vaddr, frame>> translations held
  granted,      \* history: the frames MemMap has given to the thread
  last          \* the last call and its arguments, with the address mapped

vars == <<m, grown, root, tlb, granted, last>>

Call(name, vaddr, paddr, count) ==
  [call |-> name, vaddr |-> vaddr, paddr |-> paddr, count |-> count]

Init ==
  /\ m = [tables |-> [f \in 1 .. Frames |-> EmptyTable],
          used |-> (1 .. Frames) \ HeapFrames,
          panicked |-> FALSE]
  /\ grown = FALSE
  /\ root = 0
  /\ tlb = {}
  /\ granted = {}
  /\ last = Call("boot", 0, 0, 0)

(***************************************************************************)
(* usermode::start: code and thread are allocated, the pages of the code   *)
(* and of the stack are mapped, and Thread::enter flushes the TLB.         *)
(***************************************************************************)
Start ==
  LET code == FirstFit(m, CodePages)
      m1 == Take(m, code, CodePages)
      thread == FirstFit(m1, ThreadPages)
      m2 == Take(m1, thread, ThreadPages)
      table == thread + TableOffset
      m3 == MapPages(m2, table, DEFAULT_PC, code, CodePages)
      m4 == MapPages(m3, table, DEFAULT_SP - DefaultStackPages,
                     thread + StackOffset, DefaultStackPages)
  IN  /\ root = 0
      /\ m' = m4
      /\ root' = table
      /\ tlb' = {}
      /\ last' = Call("start", DEFAULT_SP, thread, ThreadPages)
      /\ UNCHANGED <<grown, granted>>

Running == root # 0 /\ ~m.panicked

\* vmap in memory mm: the new memory, and the address or NoHole.
VmapAddr(mm, count) == find_hole(mm, root, VmapStart, count)
vmap(mm, paddr, count) ==
  LET vaddr == VmapAddr(mm, count)
  IN  IF vaddr = NoHole THEN [mm EXCEPT !.panicked = TRUE]
                        ELSE MapPages(mm, root, vaddr, paddr, count)

\* Every vmap_at ends with tlb_flush, so a vmap of no page does not flush.
FlushedBy(count) == IF count = 0 THEN tlb ELSE {}

PhyMap(paddr, count) ==
  /\ Running
  /\ m' = vmap(m, paddr, count)
  /\ tlb' = FlushedBy(count)
  /\ last' = Call("PhyMap", VmapAddr(m, count), paddr, count)
  /\ UNCHANGED <<grown, root, granted>>

\* The slice is dropped at the end of the handler.
MemMapNoForget(count) ==
  LET first == FirstFit(m, count)
      m1 == Take(m, first, count)
  IN  /\ Running
      /\ m' = IF first = 0 THEN m1
              ELSE [vmap(m1, first, count) EXCEPT !.used = @ \ Run(first, count)]
      /\ tlb' = IF first = 0 THEN tlb ELSE FlushedBy(count)
      /\ granted' = IF first = 0 THEN granted ELSE granted \cup Run(first, count)
      /\ last' = Call("MemMap", IF first = 0 THEN 0 ELSE VmapAddr(m1, count), first, count)
      /\ UNCHANGED <<grown, root>>

\* The expect("OOM") of its alloc is left out.
MemMapNoOom(count) ==
  LET first == FirstFit(m, count)
      m1 == [m EXCEPT !.used = @ \cup Run(first, count)]
  IN  /\ Running
      /\ m' = vmap(m1, first, count)
      /\ tlb' = FlushedBy(count)
      /\ granted' = granted \cup Run(first, count)
      /\ last' = Call("MemMap", VmapAddr(m1, count), first, count)
      /\ UNCHANGED <<grown, root>>

\* MemMap: alloc, vmap, forget the slice.
MemMap(count) ==
  LET first == FirstFit(m, count)
      m1 == Take(m, first, count)
  IN  /\ Running
      /\ m' = IF first = 0 THEN m1 ELSE vmap(m1, first, count)
      /\ tlb' = IF first = 0 THEN tlb ELSE FlushedBy(count)
      /\ granted' = IF first = 0 THEN granted ELSE granted \cup Run(first, count)
      /\ last' = Call("MemMap", IF first = 0 THEN 0 ELSE VmapAddr(m1, count), first, count)
      /\ UNCHANGED <<grown, root>>

\* vmap asserts that the length is a multiple of the page size (MemMap has
\* allocated its pages by then), and vunmap_single that the address is.
Unaligned ==
  /\ Running
  /\ m' = [m EXCEPT !.panicked = TRUE]
  /\ last' = Call("unaligned", 0, 0, 0)
  /\ UNCHANGED <<grown, root, tlb, granted>>

\* vunmap without the flush.
MemUnmapNoFlush(vaddr, count) ==
  /\ Running
  /\ m' = vunmap(m, root, vaddr, count)
  /\ last' = Call("MemUnmap", vaddr, 0, count)
  /\ UNCHANGED <<grown, root, granted, tlb>>

\* MemUnmap: a flush for every page that has a level 3 table.
MemUnmap(vaddr, count) ==
  /\ Running
  /\ m' = vunmap(m, root, vaddr, count)
  /\ tlb' = IF \E v \in Run(vaddr, count) : v < Limit /\ L3Table(m, root, v) # 0
            THEN {} ELSE tlb
  /\ last' = Call("MemUnmap", vaddr, 0, count)
  /\ UNCHANGED <<grown, root, granted>>

(***************************************************************************)
(* What the assertions behind add_memory_node ask of a node: a page        *)
(* boundary at both ends and the early heap in it (expand_to), no more     *)
(* frames than the bitmap has bits (its index checks), and in it the       *)
(* kernel image and the device tree, which mark_allocated looks for.       *)
(* PageAlloc has the single checks.                                        *)
(***************************************************************************)
Accepted(node) ==
  /\ node.aligned /\ node.frames <= Frames
  /\ HeapFrames \cup NodeReserved \subseteq Run(node.first, node.frames)

(***************************************************************************)
(* DownloadMoreRam: all frames of the node but the reserved ones and those *)
(* in use become free, and frames outside of it stay marked.  A second     *)
(* call fails the "double alloc" assertion, as does an image that is not   *)
(* all in the node (PageAlloc has the build without that assertion).       *)
(***************************************************************************)
DownloadMoreRam(node) ==
  /\ Running
  /\ m' = IF grown \/ ~Accepted(node)
          THEN [m EXCEPT !.panicked = TRUE]
          ELSE [m EXCEPT !.used = (@ \cap HeapFrames) \cup NodeReserved
                                    \cup ((1 .. Frames) \ Run(node.first, node.frames))]
  /\ grown' = TRUE
  /\ last' = Call("DownloadMoreRam", 0, 0, 0)
  /\ UNCHANGED <<root, tlb, granted>>

\* The hardware walks the tables for an access of the thread.
TlbFill(vaddr) ==
  /\ Running
  /\ Cardinality(tlb) < TlbSize
  /\ Walk(m, root, vaddr) # 0
  /\ tlb' = tlb \cup {<<vaddr, Walk(m, root, vaddr)>>}
  /\ UNCHANGED <<m, grown, root, granted, last>>

Next ==
  \/ Start
  \/ \E paddr \in DeviceFrames, count \in MapCounts : PhyMap(paddr, count)
  \/ \E count \in MapCounts : MemMap(count)
  \/ Unaligned
  \/ \E vaddr \in UnmapStarts, count \in MapCounts : MemUnmap(vaddr, count)
  \/ \E node \in Nodes : DownloadMoreRam(node)
  \/ \E vaddr \in Accesses : TlbFill(vaddr)

Spec == Init /\ [][Next]_vars

-----------------------------------------------------------------------------
\* The shape of the state.
TypeOK ==
  /\ m.tables \in [1 .. Frames -> [0 .. (R - 1) -> Nat]]
  /\ m.used \subseteq 1 .. Frames
  /\ m.panicked \in BOOLEAN
  /\ grown \in BOOLEAN
  /\ root \in 0 .. Frames
  /\ Cardinality(tlb) <= TlbSize
  /\ granted \subseteq 1 .. Frames

(***************************************************************************)
(* "Finds an unallocated virtual region of the given size": wherever       *)
(* find_hole says there is a hole, every page of it is inside of the       *)
(* address space, not below the minimum, and not mapped, although it       *)
(* measures regions by the entries of level 2 tables only.                 *)
(***************************************************************************)
FindHoleSound ==
  Running => \A count \in MapCounts :
    LET v == find_hole(m, root, VmapStart, count)
    IN  v # NoHole =>
          /\ v >= VmapStart /\ v + count <= Limit
          /\ \A w \in Run(v, count) : Walk(m, root, w) = 0

(***************************************************************************)
(* A mapping syscall that returns has mapped its region page by page, in   *)
(* order, and has changed no other translation; unmapping removes exactly  *)
(* its region, whether or not the region was mapped.                       *)
(***************************************************************************)
TranslationExact ==
  [][Running /\ last' # last /\ ~m'.panicked =>
       \A v \in 0 .. (Limit - 1) :
         Walk(m', root', v) =
           IF v \in Run(last'.vaddr, last'.count)
           THEN (IF last'.call = "MemUnmap" THEN 0
                 ELSE last'.paddr + (v - last'.vaddr))
           ELSE Walk(m, root, v)]_vars

\* The frames that hold the tables below the level 0 table of the thread.
Children(t) == {m.tables[t][i] : i \in 0 .. (R - 1)} \ {0}
L1Tables == Children(root)
L2Tables == UNION {Children(t) : t \in L1Tables}
L3Tables == UNION {Children(t) : t \in L2Tables}
TableFrames == {root} \cup L1Tables \cup L2Tables \cup L3Tables

(***************************************************************************)
(* The tables form a tree on frames of their own: each table is pointed to *)
(* by one entry, every table is allocated, no frame that MemMap gave to    *)
(* the thread holds a table, and none of them is a frame of the kernel     *)
(* image or of the device tree, before and after RAM is added.             *)
(***************************************************************************)
TablesOwnFrames ==
  root # 0 /\ ~m.panicked =>
    /\ TableFrames \subseteq m.used
    /\ TableFrames \cap granted = {}
    /\ (TableFrames \cup granted) \cap NodeReserved = {}
    /\ \A t, u \in {root} \cup L1Tables \cup L2Tables :
         \A i, j \in 0 .. (R - 1) :
           m.tables[t][i] # 0 /\ m.tables[t][i] = m.tables[u][j] => t = u /\ i = j

\* The TLB never holds a translation the tables no longer give.
TlbCoherent ==
  ~m.panicked => \A e \in tlb : Walk(m, root, e[1]) = e[2]

(***************************************************************************)
(* "8KiB stack": the pages mapped below DEFAULT_SP are pages of            *)
(* Thread.stack, of which there are StackPages.                            *)
(***************************************************************************)
StackPages == 2
StackMapsStack ==
  [][Start /\ ~m'.panicked =>
       \A v \in Run(DEFAULT_SP - DefaultStackPages, DefaultStackPages) :
         Walk(m', root', v) \in Run(last'.paddr + StackOffset, StackPages)]_vars

(***************************************************************************)
(* "Measure the contiguous region of virtual memory that is either         *)
(* allocated or free": the region at VmapStart is measured as what the     *)
(* tables map there.                                                       *)
(***************************************************************************)
MeasureExact ==
  Running =>
    LET region == measure_contiguous_region(m, root, VmapStart, Limit)
    IN  region.allocated =>
          \A v \in VmapStart .. (Limit - 1) :
            v < VmapStart + region.len <=>
              \A w \in VmapStart .. v : Walk(m, root, w) # 0

=============================================================================
