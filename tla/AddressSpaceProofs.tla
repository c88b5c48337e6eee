------------------------- MODULE AddressSpaceProofs -------------------------
(***************************************************************************)
(* Theorems about module AddressSpace, for tables of any size, any amount  *)
(* of RAM, any layout of the program and any sequence of syscalls.         *)
(***************************************************************************)
EXTENDS AddressSpace, PageTablesProofs, FiniteSetTheorems

(***************************************************************************)
(* The page tables of r in memory mm with what is not theirs: the frames   *)
(* in `kept' are never free, and `given' are the thread's.  Both are in    *)
(* use and hold no table, and they have no frame in common.                *)
(***************************************************************************)
Tree(mm, lvl, r, kept, given) ==
  /\ Levelled(mm, lvl, r)
  /\ \A f \in kept : f \in Tables /\ f \in mm.used /\ lvl[f] = 4 /\ f \notin given
  /\ \A f \in given : f \in Tables /\ f \in mm.used /\ lvl[f] = 4

\* The frames that alloc never returns: before DownloadMoreRam all but the
\* early heap, after it the reserved ones.
Kept == IF grown THEN NodeReserved ELSE Tables \ HeapFrames

\* The memory before usermode::start.
Untouched ==
  /\ m.tables = [f \in Tables |-> EmptyTable]
  /\ m.used = Tables \ HeapFrames
  /\ grown = FALSE /\ granted = {} /\ tlb = {}

\* The inductive invariant.
SpaceInv ==
  /\ m \in Memory /\ grown \in BOOLEAN /\ root \in 0 .. Frames
  /\ granted \subseteq Tables
  /\ IsFiniteSet(tlb) /\ Cardinality(tlb) <= TlbSize
  /\ (root = 0 /\ ~m.panicked) => Untouched
  /\ Running => \E lvl : Tree(m, lvl, root, Kept, granted)
  /\ TlbCoherent

\* alloc takes free frames, or the caller panics.
Taken(mm, f, count, mm2) ==
  /\ mm2 \in Memory
  /\ (mm.panicked \/ f = 0) => mm2.panicked
  /\ f # 0 => /\ mm2.tables = mm.tables /\ mm2.panicked = mm.panicked
              /\ mm2.used = mm.used \cup Run(f, count)
              /\ f \in Tables /\ Run(f, count) \subseteq Tables
              /\ Run(f, count) \cap mm.used = {}

\* Take after FirstFit is such a step.
LEMMA TakeStep ==
  ASSUME NEW mm \in Memory, NEW count \in Nat, NEW f, f = FirstFit(mm, count)
  PROVE  Taken(mm, f, count, Take(mm, f, count))
<1>1. CASE f = 0
  <2>1. Take(mm, f, count) = [mm EXCEPT !.panicked = TRUE]
    BY <1>1 DEF Take
  <2> QED
    BY <1>1, <2>1, Zenon DEF Taken, Memory
<1>2. CASE f # 0
  <2>1. Take(mm, f, count) = [mm EXCEPT !.used = @ \cup Run(f, count)]
    BY <1>2 DEF Take
  <2>2. /\ f \in Tables /\ Run(f, count) \subseteq Tables
        /\ Run(f, count) \cap mm.used = {}
    BY <1>2, FirstFitFree
  <2>3. Take(mm, f, count).used \in SUBSET Tables
    BY <2>1, <2>2 DEF Memory
  <2> QED
    BY <1>2, <2>1, <2>2, <2>3 DEF Taken, Memory
<1> QED
  BY <1>1, <1>2

\* The walk reads nothing but the tables.
LEMMA WalkSame ==
  ASSUME NEW mm, NEW mm2, mm2.tables = mm.tables, NEW r, NEW v
  PROVE  Walk(mm2, r, v) = Walk(mm, r, v)
BY DEF Walk, L3Table

\* Frames that alloc takes are neither tables nor the thread's.
LEMMA TreeTaken ==
  ASSUME NEW mm, NEW lvl, NEW r, NEW kept, NEW given, Tree(mm, lvl, r, kept, given),
         NEW f, f # 0, NEW count, NEW mm2, Taken(mm, f, count, mm2)
  PROVE  Tree(mm2, lvl, r, kept, given \cup Run(f, count))
<1>1. Levelled(mm2, lvl, r)
  BY DEF Tree, Taken, Levelled
<1>2. \A g \in Run(f, count) : g \in Tables /\ g \notin mm.used /\ g \in mm2.used
  BY DEF Taken
<1>3. ASSUME NEW g \in Run(f, count) PROVE lvl[g] = 4
  <2>1. g \in Tables /\ g \notin mm.used
    BY <1>2
  <2>2. lvl[g] \in 0 .. 4
    BY <2>1 DEF Tree, Levelled
  <2>3. ~(lvl[g] < 4)
    BY <2>1 DEF Tree, Levelled
  <2> QED
    BY <2>2, <2>3
<1>4. mm.used \subseteq mm2.used
  BY DEF Taken
<1> QED
  BY <1>1, <1>2, <1>3, <1>4 DEF Tree

\* What is in use when a region is mapped stays what it is.
LEMMA TreeExtends ==
  ASSUME NEW mm, NEW lvl, NEW r, NEW kept, NEW given, Tree(mm, lvl, r, kept, given),
         NEW mm2, NEW lvl2, Levelled(mm2, lvl2, r), Extends(mm, lvl, mm2, lvl2)
  PROVE  Tree(mm2, lvl2, r, kept, given)
BY DEF Tree, Extends

\* vmap at the address v that find_hole returned, for the tables of r.
RegionMapped(mm, lvl, mm2, r, v, p, n) ==
  /\ mm2 \in Memory
  /\ mm.panicked => mm2.panicked
  /\ ~mm2.panicked => /\ v \in Nat
                      /\ n = 0 => mm2 = mm
                      /\ \E lvl2 : MapsRange(mm, lvl, mm2, lvl2, r, v, p, n)

\* vmap maps its region where find_hole says, or panics.
LEMMA VmapStep ==
  ASSUME NEW mm \in Memory, NEW lvl, Levelled(mm, lvl, root),
         NEW p \in Nat, NEW count \in Nat
  PROVE  RegionMapped(mm, lvl, vmap(mm, p, count), root, VmapAddr(mm, count), p, count)
<1>1. PICK v : v = VmapAddr(mm, count)
  OBVIOUS
<1>2. v = NoHole \/ v \in Nat
  BY <1>1, SpaceAssumption, FindHoleReturns DEF VmapAddr, Hole
<1>3. vmap(mm, p, count) = IF v = NoHole THEN [mm EXCEPT !.panicked = TRUE]
                           ELSE MapPages(mm, root, v, p, count)
  BY <1>1 DEF vmap
<1>4. CASE v = NoHole
  BY <1>1, <1>3, <1>4, Zenon DEF RegionMapped, Memory
<1>5. CASE v # NoHole
  <2>1. v \in Nat /\ vmap(mm, p, count) = MapPages(mm, root, v, p, count)
    BY <1>2, <1>3, <1>5
  <2>2. RangeMapped(mm, lvl, MapPages(mm, root, v, p, count), root, v, p, count)
    BY <2>1, MapPagesStep
  <2>3. count = 0 => MapPages(mm, root, v, p, count) = mm
    BY MapPagesLoop
  <2> QED
    BY <1>1, <2>1, <2>2, <2>3 DEF RegionMapped, RangeMapped
<1> QED
  BY <1>4, <1>5

\* What TranslationExact says of a step.
StepExact ==
  Running /\ last' # last /\ ~m'.panicked =>
    \A v \in 0 .. (Limit - 1) :
      Walk(m', root', v) =
        IF v \in Run(last'.vaddr, last'.count)
        THEN (IF last'.call = "MemUnmap" THEN 0
              ELSE last'.paddr + (v - last'.vaddr))
        ELSE Walk(m, root, v)

\* A TLB without a translation.
LEMMA EmptyTlb == IsFiniteSet({}) /\ Cardinality({}) <= TlbSize
<1>1. IsFiniteSet({}) /\ Cardinality({}) = 0
  BY FS_EmptySet
<1>2. TlbSize \in Nat
  BY SpaceAssumption
<1> QED
  BY <1>1, <1>2

\* The state before usermode::start.
LEMMA SpaceInit == Init => SpaceInv
<1> SUFFICES ASSUME Init PROVE SpaceInv
  OBVIOUS
<1>1. m \in Memory
  <2>1. EmptyTable \in [Entries -> Nat]
    BY DEF EmptyTable, Entries
  <2> QED
    BY <2>1 DEF Init, Memory, Tables
<1>2. Untouched
  BY DEF Init, Untouched, Tables
<1>3. root = 0 /\ root \in 0 .. Frames
  BY PageTablesAssumption DEF Init
<1>4. IsFiniteSet(tlb) /\ Cardinality(tlb) <= TlbSize
  BY EmptyTlb DEF Init
<1>5. TlbCoherent
  BY DEF Init, TlbCoherent
<1>6. grown \in BOOLEAN /\ granted \subseteq Tables
  BY Zenon DEF Init
<1> QED
  BY <1>1, <1>2, <1>3, <1>4, <1>5, <1>6 DEF SpaceInv, Running

\* PhyMap.
LEMMA PhyMapStep ==
  ASSUME SpaceInv, NEW paddr \in DeviceFrames, NEW count \in MapCounts,
         PhyMap(paddr, count)
  PROVE  SpaceInv' /\ StepExact
<1>1. paddr \in Nat /\ count \in Nat
  BY SpaceAssumption
<1>2. Running /\ m \in Memory
  BY DEF PhyMap, SpaceInv
<1>3. PICK lvl : Tree(m, lvl, root, Kept, granted)
  BY <1>2 DEF SpaceInv
<1>4. PICK v : v = VmapAddr(m, count)
  OBVIOUS
<1>5. RegionMapped(m, lvl, m', root, v, paddr, count)
  BY <1>1, <1>2, <1>3, <1>4, VmapStep DEF PhyMap, Tree
<1>6. /\ root' = root /\ grown' = grown /\ granted' = granted
      /\ tlb' = IF count = 0 THEN tlb ELSE {}
  BY DEF PhyMap, FlushedBy
<1>7. Kept' = Kept
  BY <1>6 DEF Kept
<1>8. Running' => \E lvl2 : Tree(m', lvl2, root', Kept', granted')
  <2> SUFFICES ASSUME ~m'.panicked PROVE \E lvl2 : Tree(m', lvl2, root, Kept, granted)
    BY <1>6, <1>7 DEF Running
  <2>1. PICK lvl2 : MapsRange(m, lvl, m', lvl2, root, v, paddr, count)
    BY <1>5 DEF RegionMapped
  <2> QED
    BY <1>3, <2>1, TreeExtends DEF MapsRange
<1>9. IsFiniteSet(tlb') /\ Cardinality(tlb') <= TlbSize
  BY <1>6, EmptyTlb DEF SpaceInv
<1>10. TlbCoherent'
  <2> SUFFICES ASSUME ~m'.panicked, NEW e \in tlb' PROVE Walk(m', root', e[1]) = e[2]
    BY DEF TlbCoherent
  <2>1. m' = m /\ e \in tlb /\ root' = root
    BY <1>5, <1>6 DEF RegionMapped
  <2>2. ~m.panicked
    BY <1>2 DEF Running
  <2> QED
    BY <2>1, <2>2 DEF SpaceInv, TlbCoherent
<1>11. StepExact
  <2> SUFFICES ASSUME ~m'.panicked, NEW w \in 0 .. (Limit - 1)
               PROVE  Walk(m', root', w) =
                        IF w \in Run(last'.vaddr, last'.count)
                        THEN (IF last'.call = "MemUnmap" THEN 0
                              ELSE last'.paddr + (w - last'.vaddr))
                        ELSE Walk(m, root, w)
    BY DEF StepExact
  <2>1. PICK lvl2 : MapsRange(m, lvl, m', lvl2, root, v, paddr, count)
    BY <1>5 DEF RegionMapped
  <2>2. Walk(m', root, w) = IF w \in Run(v, count) THEN paddr + (w - v) ELSE Walk(m, root, w)
    BY <2>1 DEF MapsRange
  <2>3. /\ last'.vaddr = v /\ last'.count = count /\ last'.paddr = paddr
        /\ last'.call # "MemUnmap"
    BY <1>4 DEF PhyMap, Call
  <2> QED
    BY <1>6, <2>2, <2>3
<1>12. m' \in Memory
  BY <1>5 DEF RegionMapped
<1>13. root # 0
  BY <1>2 DEF Running
<1> QED
  BY <1>6, <1>8, <1>9, <1>10, <1>11, <1>12, <1>13, ZenonT(30) DEF SpaceInv

\* MemMap when there is RAM: the frames go to the thread, and are mapped.
LEMMA MemMapStep ==
  ASSUME SpaceInv, NEW count \in MapCounts, MemMap(count)
  PROVE  SpaceInv' /\ StepExact
<1>1. count \in Nat
  BY SpaceAssumption
<1>2. Running /\ m \in Memory
  BY DEF MemMap, SpaceInv
<1>3. PICK lvl : Tree(m, lvl, root, Kept, granted)
  BY <1>2 DEF SpaceInv
<1>4. PICK f : f = FirstFit(m, count)
  OBVIOUS
<1>5. PICK m1 : m1 = Take(m, f, count)
  OBVIOUS
<1>6. Taken(m, f, count, m1)
  BY <1>1, <1>2, <1>4, <1>5, TakeStep
<1>7. /\ m' = IF f = 0 THEN m1 ELSE vmap(m1, f, count)
      /\ tlb' = IF f = 0 \/ count = 0 THEN tlb ELSE {}
      /\ granted' = IF f = 0 THEN granted ELSE granted \cup Run(f, count)
      /\ last' = Call("MemMap", IF f = 0 THEN 0 ELSE VmapAddr(m1, count), f, count)
      /\ root' = root /\ grown' = grown
  BY <1>4, <1>5 DEF MemMap, FlushedBy
<1>8. root # 0 /\ ~m.panicked
  BY <1>2 DEF Running
<1>9. Kept' = Kept
  BY <1>7 DEF Kept
<1>10. IsFiniteSet(tlb') /\ Cardinality(tlb') <= TlbSize
  BY <1>7, EmptyTlb DEF SpaceInv
<1>11. CASE f = 0
  <2>1. m' = m1 /\ m1 \in Memory /\ m1.panicked /\ granted' = granted
    BY <1>6, <1>7, <1>11 DEF Taken
  <2>2. StepExact /\ TlbCoherent' /\ ~Running'
    BY <2>1 DEF StepExact, TlbCoherent, Running
  <2> QED
    BY <1>7, <1>8, <1>10, <2>1, <2>2 DEF SpaceInv
<1>12. CASE f # 0
  <2>1. PICK given : given = granted \cup Run(f, count)
    BY Zenon
  <2>2. Tree(m1, lvl, root, Kept, given)
    BY <1>3, <1>6, <1>12, <2>1, TreeTaken, Zenon
  <2>3. m1 \in Memory /\ m1.tables = m.tables /\ ~m1.panicked /\ f \in Nat
    BY <1>6, <1>8, <1>12 DEF Taken, Tables
  <2>4. PICK v : v = VmapAddr(m1, count)
    OBVIOUS
  <2>5. RegionMapped(m1, lvl, m', root, v, f, count)
    BY <1>1, <1>7, <1>12, <2>2, <2>3, <2>4, VmapStep, ZenonT(30) DEF Tree
  <2>6. granted' = given /\ given \subseteq Tables
    BY <1>6, <1>7, <1>12, <2>1 DEF Taken, SpaceInv
  <2>7. Running' => \E lvl2 : Tree(m', lvl2, root', Kept', granted')
    <3> SUFFICES ASSUME ~m'.panicked PROVE \E lvl2 : Tree(m', lvl2, root, Kept, given)
      BY <1>7, <1>9, <2>6 DEF Running
    <3>1. PICK lvl2 : MapsRange(m1, lvl, m', lvl2, root, v, f, count)
      BY <2>5 DEF RegionMapped
    <3> QED
      BY <2>2, <3>1, TreeExtends DEF MapsRange
  <2>8. TlbCoherent'
    <3> SUFFICES ASSUME ~m'.panicked, NEW e \in tlb' PROVE Walk(m', root', e[1]) = e[2]
      BY DEF TlbCoherent
    <3>1. m' = m1 /\ e \in tlb /\ root' = root
      BY <1>7, <1>12, <2>5 DEF RegionMapped
    <3>2. Walk(m1, root, e[1]) = Walk(m, root, e[1])
      BY <2>3, WalkSame
    <3> QED
      BY <1>8, <3>1, <3>2 DEF SpaceInv, TlbCoherent
  <2>9. StepExact
    <3> SUFFICES ASSUME ~m'.panicked, NEW w \in 0 .. (Limit - 1)
                 PROVE  Walk(m', root', w) =
                          IF w \in Run(last'.vaddr, last'.count)
                          THEN (IF last'.call = "MemUnmap" THEN 0
                                ELSE last'.paddr + (w - last'.vaddr))
                          ELSE Walk(m, root, w)
      BY DEF StepExact
    <3>1. PICK lvl2 : MapsRange(m1, lvl, m', lvl2, root, v, f, count)
      BY <2>5 DEF RegionMapped
    <3>2. Walk(m', root, w) = IF w \in Run(v, count) THEN f + (w - v) ELSE Walk(m1, root, w)
      BY <3>1 DEF MapsRange
    <3>3. Walk(m1, root, w) = Walk(m, root, w)
      BY <2>3, WalkSame
    <3>4. /\ last'.vaddr = v /\ last'.count = count /\ last'.paddr = f
          /\ last'.call # "MemUnmap"
      BY <1>7, <1>12, <2>4 DEF Call
    <3> QED
      BY <1>7, <3>2, <3>3, <3>4
  <2>10. m' \in Memory
    BY <2>5 DEF RegionMapped
  <2> QED
    BY <1>7, <1>8, <1>10, <2>6, <2>7, <2>8, <2>9, <2>10, Zenon DEF SpaceInv
<1> QED
  BY <1>11, <1>12

\* A panic keeps what is left to keep.
LEMMA UnalignedStep ==
  ASSUME SpaceInv, Unaligned PROVE SpaceInv' /\ StepExact
<1>1. /\ m' = [m EXCEPT !.panicked = TRUE]
      /\ UNCHANGED <<grown, root, tlb, granted>>
  BY DEF Unaligned
<1>2. m' \in Memory /\ m'.panicked
  BY <1>1, Zenon DEF SpaceInv, Memory
<1>3. StepExact /\ TlbCoherent' /\ ~Running'
  BY <1>2 DEF StepExact, TlbCoherent, Running
<1> QED
  BY <1>1, <1>2, <1>3 DEF SpaceInv

\* MemUnmap gives no table back, and flushes when it changes an entry.
LEMMA MemUnmapStep ==
  ASSUME SpaceInv, NEW vaddr \in UnmapStarts, NEW count \in MapCounts,
         MemUnmap(vaddr, count)
  PROVE  SpaceInv' /\ StepExact
<1>1. vaddr \in Nat /\ count \in Nat
  BY SpaceAssumption
<1>2. Running /\ m \in Memory
  BY DEF MemUnmap, SpaceInv
<1>3. PICK lvl : Tree(m, lvl, root, Kept, granted)
  BY <1>2 DEF SpaceInv
<1>4. RangeUnmapped(m, lvl, m', root, vaddr, count)
  BY <1>1, <1>2, <1>3, VunmapStep DEF MemUnmap, Tree
<1>5. /\ root' = root /\ grown' = grown /\ granted' = granted
      /\ tlb' = IF \E v \in Run(vaddr, count) : v < Limit /\ L3Table(m, root, v) # 0
                THEN {} ELSE tlb
      /\ last' = Call("MemUnmap", vaddr, 0, count)
  BY DEF MemUnmap
<1>6. Kept' = Kept
  BY <1>5, Zenon DEF Kept
<1>7. Running' => Tree(m', lvl, root', Kept', granted')
  <2> SUFFICES ASSUME ~m'.panicked PROVE Tree(m', lvl, root, Kept, granted)
    BY <1>5, <1>6 DEF Running
  <2> QED
    BY <1>3, <1>4 DEF RangeUnmapped, Tree
<1>8. IsFiniteSet(tlb') /\ Cardinality(tlb') <= TlbSize
  BY <1>5, EmptyTlb DEF SpaceInv
<1>9. TlbCoherent'
  <2> SUFFICES ASSUME ~m'.panicked, NEW e \in tlb' PROVE Walk(m', root', e[1]) = e[2]
    BY DEF TlbCoherent
  <2>1. e \in tlb /\ \A v \in Run(vaddr, count) : v < Limit => L3Table(m, root, v) = 0
    BY <1>5
  <2>2. m' = m
    BY <1>4, <2>1 DEF RangeUnmapped
  <2>3. ~m.panicked /\ root' = root
    BY <1>2, <1>5 DEF Running
  <2> QED
    BY <2>1, <2>2, <2>3 DEF SpaceInv, TlbCoherent
<1>10. StepExact
  <2> SUFFICES ASSUME ~m'.panicked, NEW w \in 0 .. (Limit - 1)
               PROVE  Walk(m', root', w) =
                        IF w \in Run(last'.vaddr, last'.count)
                        THEN (IF last'.call = "MemUnmap" THEN 0
                              ELSE last'.paddr + (w - last'.vaddr))
                        ELSE Walk(m, root, w)
    BY DEF StepExact
  <2>1. Walk(m', root, w) = IF w \in Run(vaddr, count) THEN 0 ELSE Walk(m, root, w)
    BY <1>4 DEF RangeUnmapped
  <2>2. last'.vaddr = vaddr /\ last'.count = count /\ last'.call = "MemUnmap"
    BY <1>5 DEF Call
  <2> QED
    BY <1>5, <2>1, <2>2
<1>11. m' \in Memory
  BY <1>4 DEF RangeUnmapped
<1>12. root # 0
  BY <1>2 DEF Running
<1> QED
  BY <1>5, <1>7, <1>8, <1>9, <1>10, <1>11, <1>12, Zenon DEF SpaceInv

\* DownloadMoreRam: tables and the thread's frames lie in the early heap, so
\* they stay in use; the reserved frames lie outside of it.
LEMMA DownloadMoreRamStep ==
  ASSUME SpaceInv, NEW node \in Nodes, DownloadMoreRam(node)
  PROVE  SpaceInv' /\ StepExact
<1> DEFINE outside == Tables \ Run(node.first, node.frames)
<1>1. /\ Running /\ grown' = TRUE
      /\ m' = IF grown \/ ~Accepted(node) THEN [m EXCEPT !.panicked = TRUE]
              ELSE [m EXCEPT !.used = (@ \cap HeapFrames) \cup NodeReserved \cup outside]
      /\ last' = Call("DownloadMoreRam", 0, 0, 0)
      /\ root' = root /\ tlb' = tlb /\ granted' = granted
  BY DEF DownloadMoreRam, Tables
<1> HIDE DEF outside
<1>2. m \in Memory /\ root # 0 /\ ~m.panicked
  BY <1>1 DEF SpaceInv, Running
<1>3. CASE grown \/ ~Accepted(node)
  <2>1. m' \in Memory /\ m'.panicked
    BY <1>1, <1>2, <1>3, Zenon DEF Memory
  <2>2. StepExact /\ TlbCoherent' /\ ~Running'
    BY <2>1 DEF StepExact, TlbCoherent, Running
  <2> QED
    BY <1>1, <1>2, <2>1, <2>2 DEF SpaceInv
<1>4. CASE ~grown /\ Accepted(node)
  <2>1. /\ HeapFrames \subseteq Tables /\ NodeReserved \subseteq Tables
        /\ HeapFrames \cap NodeReserved = {}
    BY SpaceAssumption DEF Tables
  <2>2. /\ m'.tables = m.tables /\ m'.panicked = m.panicked
        /\ m'.used = (m.used \cap HeapFrames) \cup NodeReserved \cup outside
    BY <1>1, <1>2, <1>4 DEF Memory
  <2>3. m' \in Memory
    <3>1. m'.used \in SUBSET Tables
      BY <2>1, <2>2 DEF outside
    <3> QED
      BY <1>1, <1>2, <1>4, <2>2, <3>1 DEF Memory
  <2>4. PICK lvl : Tree(m, lvl, root, Kept, granted)
    BY <1>1 DEF SpaceInv
  <2>5. Kept = Tables \ HeapFrames /\ Kept' = NodeReserved
    BY <1>1, <1>4 DEF Kept
  <2>6. Tree(m', lvl, root, NodeReserved, granted)
    <3>1. \A f \in NodeReserved : f \in Kept /\ f \in m'.used
      BY <2>1, <2>2, <2>5
    <3>2. \A f \in Tables : lvl[f] < 4 => f \in m'.used
      <4> SUFFICES ASSUME NEW f \in Tables, lvl[f] < 4 PROVE f \in m'.used
        OBVIOUS
      <4>1. f \in m.used
        BY <2>4 DEF Tree, Levelled
      <4>2. f \notin Kept
        BY <2>4, SMTT(30) DEF Tree
      <4> QED
        BY <2>2, <2>5, <4>1, <4>2
    <3>3. Levelled(m', lvl, root)
      BY <2>2, <2>4, <3>2, SMTT(30) DEF Tree, Levelled
    <3>4. \A f \in granted : f \in m'.used
      BY <2>2, <2>4, <2>5, ZenonT(30) DEF Tree
    <3> QED
      BY <2>4, <3>1, <3>3, <3>4, Zenon DEF Tree
  <2>7. \A w : Walk(m', root', w) = Walk(m, root, w)
    <3> SUFFICES ASSUME NEW w PROVE Walk(m', root, w) = Walk(m, root, w)
      BY <1>1, Zenon
    <3> QED
      BY <2>2 DEF Walk, L3Table
  <2>8. TlbCoherent'
    BY <1>1, <1>2, <2>7, Zenon DEF SpaceInv, TlbCoherent
  <2>9. StepExact
    <3>1. last'.vaddr = 0 /\ last'.count = 0
      BY <1>1 DEF Call
    <3>2. Run(last'.vaddr, last'.count) = {}
      BY <3>1 DEF Run
    <3> QED
      BY <2>7, <3>2 DEF StepExact
  <2> QED
    BY <1>1, <1>2, <2>3, <2>5, <2>6, <2>8, <2>9, Zenon DEF SpaceInv
<1> QED
  BY <1>3, <1>4

\* TlbFill caches what the tables say.
LEMMA TlbFillStep ==
  ASSUME SpaceInv, NEW vaddr \in Accesses, TlbFill(vaddr)
  PROVE  SpaceInv' /\ StepExact
<1>1. PICK x : x = <<vaddr, Walk(m, root, vaddr)>>
  BY Zenon
<1>2. /\ Running /\ Cardinality(tlb) < TlbSize /\ tlb' = tlb \cup {x}
      /\ m' = m /\ grown' = grown /\ root' = root /\ granted' = granted /\ last' = last
  BY <1>1 DEF TlbFill
<1>3. IsFiniteSet(tlb') /\ Cardinality(tlb') <= TlbSize
  <2>1. IsFiniteSet(tlb) /\ Cardinality(tlb) \in Nat /\ TlbSize \in Nat
    BY FS_CardinalityType, SpaceAssumption DEF SpaceInv
  <2>2. IsFiniteSet(tlb') /\ (Cardinality(tlb') = Cardinality(tlb)
                              \/ Cardinality(tlb') = Cardinality(tlb) + 1)
    BY <1>2, <2>1, FS_AddElement
  <2> QED
    BY <1>2, <2>1, <2>2
<1>4. TlbCoherent'
  <2> SUFFICES ASSUME ~m.panicked, NEW e \in tlb' PROVE Walk(m, root, e[1]) = e[2]
    BY <1>2 DEF TlbCoherent
  <2>1. CASE e \in tlb
    BY <2>1 DEF SpaceInv, TlbCoherent
  <2>2. CASE e = x
    BY <1>1, <2>2
  <2> QED
    BY <1>2, <2>1, <2>2
<1>5. Kept' = Kept /\ Running' = Running /\ root # 0
  BY <1>2 DEF Kept, Running
<1>6. StepExact
  BY <1>2 DEF StepExact
<1> QED
  BY <1>2, <1>3, <1>4, <1>5, <1>6 DEF SpaceInv

\* usermode::start: the new table is the root, and the only one.
LEMMA StartStep ==
  ASSUME SpaceInv, Start PROVE SpaceInv' /\ StepExact
<1>1. PICK code : code = FirstFit(m, CodePages)
  OBVIOUS
<1>2. PICK m1 : m1 = Take(m, code, CodePages)
  OBVIOUS
<1>3. PICK thread : thread = FirstFit(m1, ThreadPages)
  OBVIOUS
<1>4. PICK m2 : m2 = Take(m1, thread, ThreadPages)
  OBVIOUS
<1>5. PICK table : table = thread + TableOffset
  OBVIOUS
<1>6. PICK m3 : m3 = MapPages(m2, table, DEFAULT_PC, code, CodePages)
  OBVIOUS
<1>7. PICK stack : stack = DEFAULT_SP - DefaultStackPages
  OBVIOUS
<1>8. /\ m' = MapPages(m3, table, stack, thread + StackOffset, DefaultStackPages)
      /\ root = 0 /\ root' = table /\ tlb' = {}
      /\ grown' = grown /\ granted' = granted
  BY <1>1, <1>2, <1>3, <1>4, <1>5, <1>6, <1>7, ZenonT(30) DEF Start
<1>9. /\ CodePages \in Nat /\ ThreadPages \in Nat /\ DEFAULT_PC \in Nat
      /\ StackOffset \in Nat /\ DefaultStackPages \in Nat /\ stack \in Nat
  BY <1>7, SpaceAssumption, PageTablesAssumption
<1>10. m \in Memory
  BY DEF SpaceInv
<1>11. Taken(m, code, CodePages, m1)
  BY <1>1, <1>2, <1>9, <1>10, TakeStep
<1>12. Taken(m1, thread, ThreadPages, m2)
  <2>1. m1 \in Memory
    BY <1>11 DEF Taken
  <2> QED
    BY <1>3, <1>4, <1>9, <2>1, TakeStep
<1>13. code \in Nat /\ thread \in Nat
  BY <1>11, <1>12 DEF Taken, Tables
<1>14. table \in 0 .. Frames /\ (thread # 0 => table \in Tables /\ table \in m2.used)
  <2>1. CASE thread = 0
    BY <1>5, <2>1, SpaceAssumption, PageTablesAssumption
  <2>2. CASE thread # 0
    <3>1. table \in Run(thread, ThreadPages)
      BY <1>5, <1>9, <1>13, SpaceAssumption, PageTablesAssumption, SMTT(30) DEF Run
    <3>2. table \in Tables /\ table \in m2.used
      BY <1>12, <2>2, <3>1 DEF Taken
    <3> QED
      BY <3>2, PageTablesAssumption DEF Tables
  <2> QED
    BY <2>1, <2>2
<1> DEFINE lvl == [t \in Tables |-> IF t = table THEN 0 ELSE 4]
           heap == Tables \ HeapFrames
<1>15. ASSUME ~m2.panicked PROVE Tree(m2, lvl, table, heap, {}) /\ Untouched
  <2>1. thread # 0 /\ code # 0 /\ ~m.panicked
    BY <1>11, <1>12, <1>15 DEF Taken
  <2>2. Untouched
    BY <1>8, <2>1 DEF SpaceInv
  <2>3. table \in Tables /\ table \in m2.used
    BY <1>14, <2>1
  <2>4. \A t \in Tables, i \in Entries : m2.tables[t][i] = 0
    <3>1. m2.tables = m.tables
      BY <1>11, <1>12, <2>1 DEF Taken
    <3>2. \A i \in Entries : EmptyTable[i] = 0
      BY DEF EmptyTable, Entries
    <3> QED
      BY <2>2, <3>1, <3>2, Zenon DEF Untouched
  <2>5. heap \subseteq m2.used /\ table \notin heap
    <3>1. m.used = heap /\ m1.used = m.used \cup Run(code, CodePages)
      BY <1>11, <2>1, <2>2 DEF Untouched, Taken
    <3>2. /\ m2.used = m1.used \cup Run(thread, ThreadPages)
          /\ Run(thread, ThreadPages) \cap m1.used = {}
      BY <1>12, <2>1, Zenon DEF Taken
    <3>3. table \in Run(thread, ThreadPages)
      BY <1>5, <1>9, <1>13, SpaceAssumption, PageTablesAssumption DEF Run
    <3> QED
      BY <3>1, <3>2, <3>3
  <2>6. /\ lvl \in [Tables -> 0 .. 4] /\ lvl[table] = 0
        /\ \A t \in Tables : lvl[t] < 4 => t = table
        /\ \A t \in Tables : t # table => lvl[t] = 4
    BY <2>3
  <2> HIDE DEF lvl
  <2>7. Levelled(m2, lvl, table)
    BY <2>3, <2>4, <2>6 DEF Levelled
  <2>8. \A f \in heap : f \in Tables /\ f \in m2.used /\ lvl[f] = 4 /\ f \notin {}
    BY <2>5, <2>6
  <2> QED
    BY <2>2, <2>7, <2>8 DEF Tree
<1> HIDE DEF lvl, heap
<1>16. RangeMapped(m2, lvl, m3, table, DEFAULT_PC, code, CodePages)
  <2>1. m2 \in Memory /\ (~m2.panicked => Levelled(m2, lvl, table))
    BY <1>12, <1>15 DEF Taken, Tree
  <2> QED
    BY <1>6, <1>9, <1>13, <2>1, MapPagesStep, Zenon
<1>17. PICK lvl3 : ~m3.panicked =>
                     MapsRange(m2, lvl, m3, lvl3, table, DEFAULT_PC, code, CodePages)
  BY <1>16 DEF RangeMapped
<1>18. RangeMapped(m3, lvl3, m', table, stack, thread + StackOffset, DefaultStackPages)
  <2>1. m3 \in Memory /\ (~m3.panicked => Levelled(m3, lvl3, table))
    BY <1>16, <1>17 DEF RangeMapped, MapsRange
  <2>2. thread + StackOffset \in Nat
    BY <1>9, <1>13
  <2> QED
    BY <1>8, <1>9, <2>1, <2>2, MapPagesStep, Zenon
<1>19. ASSUME ~m'.panicked
       PROVE  root' # 0 /\ \E lvl4 : Tree(m', lvl4, root', Kept', granted')
  <2>1. ~m3.panicked /\ ~m2.panicked
    BY <1>16, <1>18, <1>19 DEF RangeMapped
  <2>2. Tree(m2, lvl, table, heap, {}) /\ Untouched
    BY <1>15, <2>1
  <2>3. Tree(m3, lvl3, table, heap, {})
    BY <1>17, <2>1, <2>2, TreeExtends DEF MapsRange
  <2>4. PICK lvl4 : MapsRange(m3, lvl3, m', lvl4, table, stack, thread + StackOffset,
                              DefaultStackPages)
    BY <1>18, <1>19 DEF RangeMapped
  <2>5. Tree(m', lvl4, table, heap, {})
    BY <2>3, <2>4, TreeExtends, Zenon DEF MapsRange
  <2>6. Kept' = heap /\ granted' = {}
    BY <1>8, <2>2, ZenonT(30) DEF Untouched, Kept, heap
  <2>7. table # 0
    BY <2>5, PageTablesAssumption DEF Tree, Levelled, Tables
  <2> QED
    BY <1>8, <2>5, <2>6, <2>7
<1>20. IsFiniteSet(tlb') /\ Cardinality(tlb') <= TlbSize
  BY <1>8, EmptyTlb
<1>21. TlbCoherent' /\ StepExact
  BY <1>8, Zenon DEF TlbCoherent, StepExact, Running
<1>22. m' \in Memory /\ root' \in 0 .. Frames
  BY <1>8, <1>14, <1>18, Zenon DEF RangeMapped
<1> QED
  BY <1>8, <1>19, <1>20, <1>21, <1>22 DEF SpaceInv, Running

\* Every step keeps the invariant, and changes only the translations it names.
LEMMA SpaceStep ==
  ASSUME SpaceInv, [Next]_vars
  PROVE  SpaceInv' /\ (StepExact \/ UNCHANGED vars)
<1>1. CASE Start
  BY <1>1, StartStep
<1>2. CASE \E paddr \in DeviceFrames, count \in MapCounts : PhyMap(paddr, count)
  BY <1>2, PhyMapStep
<1>3. CASE \E count \in MapCounts : MemMap(count)
  BY <1>3, MemMapStep
<1>4. CASE Unaligned
  BY <1>4, UnalignedStep
<1>5. CASE \E vaddr \in UnmapStarts, count \in MapCounts : MemUnmap(vaddr, count)
  BY <1>5, MemUnmapStep
<1>6. CASE \E node \in Nodes : DownloadMoreRam(node)
  BY <1>6, DownloadMoreRamStep
<1>7. CASE \E vaddr \in Accesses : TlbFill(vaddr)
  BY <1>7, TlbFillStep
<1>8. CASE UNCHANGED vars
  <2>1. /\ m' = m /\ grown' = grown /\ root' = root /\ tlb' = tlb
        /\ granted' = granted
    BY <1>8 DEF vars
  <2>2. /\ Kept' = Kept /\ Running' = Running /\ Untouched' = Untouched
        /\ TlbCoherent' = TlbCoherent
    BY <2>1 DEF Kept, Running, Untouched, TlbCoherent
  <2> QED
    BY <1>8, <2>1, <2>2 DEF SpaceInv
<1> QED
  BY <1>1, <1>2, <1>3, <1>4, <1>5, <1>6, <1>7, <1>8, ZenonT(30) DEF Next

(***************************************************************************)
(* The invariant holds: while the thread runs, its tables are a tree, none *)
(* of whose frames is free, the thread's or the kernel's, and every entry  *)
(* of the TLB is what a walk of the tables finds.                          *)
(***************************************************************************)
THEOREM SpaceInvariant == Spec => []SpaceInv
<1>1. SpaceInv /\ [Next]_vars => SpaceInv'
  BY SpaceStep
<1> QED
  BY SpaceInit, <1>1, PTL DEF Spec

\* The state keeps its shape: tables, frames, and a TLB within its size.
THEOREM SpaceTypes == Spec => []TypeOK
<1>1. SpaceInv => TypeOK
  BY ZenonT(30) DEF SpaceInv, TypeOK, Memory, Tables, Entries
<1> QED
  BY SpaceInvariant, <1>1, PTL

(***************************************************************************)
(* Page tables live on frames of their own: get_mut_or_alloc never makes   *)
(* a table of a frame that the thread got from MemMap, or of one that      *)
(* add_memory_node reserves, and no two entries hold the same table.       *)
(***************************************************************************)
THEOREM TablesKeepTheirFrames == Spec => []TablesOwnFrames
<1>1. ASSUME SpaceInv, root # 0, ~m.panicked
      PROVE  /\ TableFrames \subseteq m.used
             /\ TableFrames \cap granted = {}
             /\ (TableFrames \cup granted) \cap NodeReserved = {}
             /\ \A t, u \in {root} \cup L1Tables \cup L2Tables :
                  \A i, j \in 0 .. (R - 1) :
                    m.tables[t][i] # 0 /\ m.tables[t][i] = m.tables[u][j]
                      => t = u /\ i = j
  <2>1. PICK lvl : Tree(m, lvl, root, Kept, granted)
    BY <1>1 DEF SpaceInv, Running
  <2>2. root \in Tables /\ lvl[root] = 0
    BY <2>1 DEF Tree, Levelled
  <2>3. ASSUME NEW t \in Tables, lvl[t] < 3, NEW u \in Children(t)
        PROVE  u \in Tables /\ lvl[u] = lvl[t] + 1
    <3>1. PICK i \in Entries : u = m.tables[t][i] /\ m.tables[t][i] # 0
      BY <2>3 DEF Children, Entries
    <3> QED
      BY <2>1, <2>3, <3>1 DEF Tree, Levelled
  <2>4. \A t \in L1Tables : t \in Tables /\ lvl[t] = 1
    BY <2>2, <2>3 DEF L1Tables
  <2>5. \A t \in L2Tables : t \in Tables /\ lvl[t] = 2
    <3> SUFFICES ASSUME NEW t \in L2Tables PROVE t \in Tables /\ lvl[t] = 2
      OBVIOUS
    <3>1. PICK s \in L1Tables : t \in Children(s)
      BY DEF L2Tables
    <3>2. s \in Tables /\ lvl[s] = 1 /\ lvl[s] < 3
      BY <2>4
    <3> QED
      BY <2>3, <3>1, <3>2
  <2>6. \A t \in L3Tables : t \in Tables /\ lvl[t] = 3
    <3> SUFFICES ASSUME NEW t \in L3Tables PROVE t \in Tables /\ lvl[t] = 3
      OBVIOUS
    <3>1. PICK s \in L2Tables : t \in Children(s)
      BY DEF L3Tables
    <3>2. s \in Tables /\ lvl[s] = 2 /\ lvl[s] < 3
      BY <2>5
    <3> QED
      BY <2>3, <3>1, <3>2
  <2>7. \A t \in TableFrames : t \in Tables /\ lvl[t] < 4
    BY <2>2, <2>4, <2>5, <2>6, SMTT(30) DEF TableFrames
  <2>8. \A t \in TableFrames : t \in m.used /\ t \notin granted /\ t \notin Kept
    BY <2>1, <2>7 DEF Tree, Levelled
  <2>9. NodeReserved \subseteq Kept
    BY SpaceAssumption DEF Kept, Tables
  <2>10. granted \cap Kept = {}
    BY <2>1 DEF Tree
  <2>11. \A t \in {root} \cup L1Tables \cup L2Tables : t \in Tables /\ lvl[t] < 3
    BY <2>2, <2>4, <2>5, SMTT(30)
  <2>12. \A t, u \in {root} \cup L1Tables \cup L2Tables :
           \A i, j \in 0 .. (R - 1) :
             m.tables[t][i] # 0 /\ m.tables[t][i] = m.tables[u][j] => t = u /\ i = j
    BY <2>1, <2>11 DEF Tree, Levelled, Entries
  <2> QED
    BY <2>8, <2>9, <2>10, <2>12
<1>2. SpaceInv => TablesOwnFrames
  BY <1>1 DEF TablesOwnFrames
<1> QED
  BY SpaceInvariant, <1>2, PTL

(***************************************************************************)
(* vmap_at and vunmap_single flush often enough: no access of the thread   *)
(* uses a translation that its tables no longer have.                      *)
(***************************************************************************)
THEOREM TlbStaysCoherent == Spec => []TlbCoherent
<1>1. SpaceInv => TlbCoherent
  BY DEF SpaceInv
<1> QED
  BY SpaceInvariant, <1>1, PTL

(***************************************************************************)
(* PhyMap and MemMap translate exactly the pages of the region that they   *)
(* return, MemUnmap drops exactly its region, and no other translation     *)
(* changes, whatever tables are made on the way.                           *)
(***************************************************************************)
THEOREM TranslationsAreExact == Spec => TranslationExact
<1>1. SpaceInv /\ [Next]_vars =>
        [Running /\ last' # last /\ ~m'.panicked =>
           \A v \in 0 .. (Limit - 1) :
             Walk(m', root', v) =
               IF v \in Run(last'.vaddr, last'.count)
               THEN (IF last'.call = "MemUnmap" THEN 0
                     ELSE last'.paddr + (v - last'.vaddr))
               ELSE Walk(m, root, v)]_vars
  BY SpaceStep DEF StepExact
<1> QED
  BY SpaceInvariant, <1>1, PTL DEF Spec, TranslationExact

=============================================================================
