-------------------------- MODULE PageTablesProofs --------------------------
(***************************************************************************)
(* Lemmas about module PageTables, for tables of any size and any amount   *)
(* of RAM: what a call of vmap_at, vunmap_single and find_hole, and the    *)
(* loops over them, do to a tree of page tables and to its walks.          *)
(***************************************************************************)
EXTENDS PageTables, WellFoundedInduction, TLAPS

-----------------------------------------------------------------------------
\* A set of naturals that is not empty has a least element.
LEMMA LeastNat ==
  ASSUME NEW T \in SUBSET Nat, T # {}
  PROVE  \E p \in T : \A q \in T : p <= q
<1> DEFINE Less == {ss \in Nat \X Nat : ss[1] < ss[2]}
<1>1. Less = OpToRel(<, Nat)
  BY Zenon DEF OpToRel
<1>2. IsWellFoundedOn(Less, Nat)
  BY NatLessThanWellFounded, <1>1, Zenon
<1>3. \A a, b \in Nat : a < b => <<a, b>> \in Less
  OBVIOUS
<1> HIDE DEF Less
<1>4. PICK p \in T : \A q \in T : <<q, p>> \notin Less
  BY <1>2, WFMin, Zenon
<1>5. ASSUME NEW q \in T PROVE p <= q
  <2>1. ~(q < p)
    BY <1>3, <1>4, Zenon
  <2> QED BY <2>1
<1> QED BY <1>5

\* Counting up: a set with 0 in it, and with n when it has n - 1, has all.
LEMMA CountUp ==
  ASSUME NEW count \in Nat, NEW S, 0 \in S,
         \A n \in 1 .. count : n - 1 \in S => n \in S
  PROVE  \A n \in 0 .. count : n \in S
<1> DEFINE T == {n \in 0 .. count : n \notin S}
<1>1. SUFFICES ASSUME T # {} PROVE FALSE
  OBVIOUS
<1>2. T \in SUBSET Nat
  OBVIOUS
<1>3. \A n \in 0 .. count : n \in T <=> n \notin S
  OBVIOUS
<1>4. T \subseteq 0 .. count
  OBVIOUS
<1> HIDE DEF T
<1>5. PICK k \in T : \A j \in T : k <= j
  BY <1>1, <1>2, LeastNat
<1>6. k \in 1 .. count /\ k \notin S
  BY <1>3, <1>4
<1>7. k - 1 \in 0 .. count /\ ~(k <= k - 1)
  BY <1>6
<1>8. k - 1 \in S
  BY <1>3, <1>5, <1>7
<1> QED
  BY <1>6, <1>8

\* The quotient and the remainder of a division, and that there are no others.
LEMMA Quotient ==
  ASSUME NEW a \in Int, NEW b \in Nat \ {0}
  PROVE  /\ a \div b \in Int /\ a % b \in 0 .. (b - 1)
         /\ a = (b * (a \div b)) + (a % b)
OBVIOUS

\* The next multiple of b is at most any larger one.
LEMMA TimesNext ==
  ASSUME NEW b \in Nat \ {0}, NEW x \in Int, NEW y \in Int, x < y
  PROVE  (b * x) + b <= b * y
OBVIOUS

\* A quotient and a remainder in range are the ones of \div and %.
LEMMA DivMod ==
  ASSUME NEW a \in Int, NEW b \in Nat \ {0}, NEW q \in Int, NEW r \in 0 .. (b - 1),
         a = (b * q) + r
  PROVE  a \div b = q /\ a % b = r
<1> DEFINE q2 == a \div b
           r2 == a % b
<1>1. a = (b * q2) + r2 /\ q2 \in Int /\ r2 \in 0 .. (b - 1)
  BY Quotient, Zenon
<1> HIDE DEF q2, r2
<1>2. ~(q < q2)
  BY <1>1, TimesNext
<1>3. ~(q2 < q)
  BY <1>1, TimesNext
<1>4. q2 = q
  BY <1>1, <1>2, <1>3
<1>5. r2 = r
  BY <1>1, <1>4
<1> QED
  BY <1>4, <1>5 DEF q2, r2

(***************************************************************************)
(* What first fit returns, which is what BitmapPageAlloc::alloc hands out: *)
(* a run of at least one page, inside of the bitmap, none of them marked.  *)
(***************************************************************************)
LEMMA FirstHoleIsHole ==
  ASSUME NEW marked, NEW capacity \in Nat, NEW count \in Nat,
         NEW page_num, page_num = FirstHole(marked, capacity, count),
         page_num # NoHole
  PROVE  /\ page_num \in Nat
         /\ count > 0
         /\ page_num + count <= capacity
         /\ Run(page_num, count) \cap marked = {}
<1> DEFINE H == Holes(marked, capacity, count)
<1>1. H \in SUBSET Nat
  BY DEF Holes
<1>2. H # {}
  BY DEF FirstHole
<1>3. \E p \in H : \A q \in H : p <= q
  BY <1>1, <1>2, LeastNat
<1>4. page_num \in H
  BY <1>2, <1>3 DEF FirstHole
<1> QED
  BY <1>1, <1>4 DEF Holes

-----------------------------------------------------------------------------

Entries == 0 .. (R - 1)
Tables == 1 .. Frames
Memory ==
  [tables : [Tables -> [Entries -> Nat]], used : SUBSET Tables, panicked : BOOLEAN]

(***************************************************************************)
(* lvl[f] says what frame f is to the page tables of r: 0 for the root, 1  *)
(* to 3 for a table of that level, and 4 for a frame that holds no table.  *)
(* The entries of the upper tables point to tables of the next level, and  *)
(* no two of them to the same one.                                         *)
(***************************************************************************)
Levelled(mm, lvl, r) ==
  /\ lvl \in [Tables -> 0 .. 4]
  /\ r \in Tables /\ lvl[r] = 0
  /\ \A t \in Tables : lvl[t] < 4 => t \in mm.used
  /\ \A t \in Tables, i \in Entries :
       lvl[t] < 3 /\ mm.tables[t][i] # 0 =>
         mm.tables[t][i] \in Tables /\ lvl[mm.tables[t][i]] = lvl[t] + 1
  /\ \A t, u \in Tables, i, j \in Entries :
       lvl[t] < 3 /\ lvl[u] < 3 /\ mm.tables[t][i] # 0 /\ mm.tables[t][i] = mm.tables[u][j]
         => t = u /\ i = j

\* Frames in use stay in use, and stay what they are.
Extends(mm, lvl, mm2, lvl2) ==
  /\ mm.used \subseteq mm2.used
  /\ \A f \in mm.used : lvl2[f] = lvl[f]

-----------------------------------------------------------------------------
\* What alloc returns: free frames, at least one.
LEMMA FirstFitFree ==
  ASSUME NEW mm \in Memory, NEW count \in Nat, NEW f, f = FirstFit(mm, count), f # 0
  PROVE  /\ f \in Tables /\ count > 0
         /\ Run(f, count) \subseteq Tables /\ Run(f, count) \cap mm.used = {}
<1> DEFINE marked == {g - 1 : g \in mm.used}
           hole == FirstHole(marked, Frames, count)
<1>1. hole # NoHole /\ f = hole + 1
  BY DEF FirstFit
<1>2. mm.used \subseteq Tables /\ Frames \in Nat
  BY PageTablesAssumption DEF Memory
<1>3. \A g \in mm.used : g - 1 \in marked
  OBVIOUS
<1> HIDE DEF marked
<1>4. /\ hole \in Nat /\ count > 0 /\ hole + count <= Frames
      /\ Run(hole, count) \cap marked = {}
  BY <1>1, <1>2, FirstHoleIsHole
<1> HIDE DEF hole
<1>5. f \in Tables /\ Run(f, count) \subseteq Tables
  BY <1>1, <1>2, <1>4 DEF Tables, Run
<1>6. \A g \in Run(f, count) : g - 1 \in Run(hole, count)
  BY <1>1, <1>4 DEF Run
<1> QED
  BY <1>3, <1>4, <1>5, <1>6

\* The memory with a new table in frame f for entry idx of table t.
Stored(mm, t, idx, f, mm2) ==
  /\ mm2 \in Memory
  /\ mm2.used = mm.used \cup {f} /\ mm2.panicked = mm.panicked
  /\ \A i \in Entries : mm2.tables[f][i] = 0
  /\ mm2.tables[t][idx] = f
  /\ \A i \in Entries : i # idx => mm2.tables[t][i] = mm.tables[t][i]
  /\ \A s \in Tables : s \notin {t, f} => mm2.tables[s] = mm.tables[s]

\* What get_mut_or_alloc writes for a new table.
LEMMA StoredTable ==
  ASSUME NEW mm \in Memory, NEW t \in Tables, NEW idx \in Entries, NEW f \in Tables, f # t
  PROVE  Stored(mm, t, idx, f, StoreTable(mm, t, idx, f))
<1> DEFINE mm2 == StoreTable(mm, t, idx, f)
           T == [mm.tables EXCEPT ![t][idx] = f, ![f] = EmptyTable]
<1>1. f # 0 /\ f \in Nat /\ Run(f, 1) = {f}
  BY PageTablesAssumption DEF Tables, Run
<1>2. PICK m1 : m1 = Take(mm, f, 1)
  OBVIOUS
<1>3. m1 \in Memory /\ m1.used = mm.used \cup {f} /\ m1.panicked = mm.panicked /\ m1.tables = mm.tables
  BY <1>1, <1>2 DEF Take, Memory
<1>4. mm2 = [m1 EXCEPT !.tables = T]
  BY <1>1, <1>2, <1>3 DEF StoreTable
<1>5. EmptyTable \in [Entries -> Nat] /\ \A i \in Entries : EmptyTable[i] = 0
  BY DEF EmptyTable, Entries
<1>6. mm.tables \in [Tables -> [Entries -> Nat]] /\ mm.used \subseteq Tables
  BY DEF Memory
<1>7. T \in [Tables -> [Entries -> Nat]]
  BY <1>1, <1>5, <1>6
<1>8. mm2 \in Memory /\ mm2.tables = T /\ mm2.used = m1.used /\ mm2.panicked = m1.panicked
  BY <1>3, <1>4, <1>7, Zenon DEF Memory
<1>9. T[f] = EmptyTable /\ T[t] = [mm.tables[t] EXCEPT ![idx] = f]
  BY <1>6
<1>10. \A s \in Tables : s \notin {t, f} => T[s] = mm.tables[s]
  BY <1>6
<1>11. mm.tables[t] \in [Entries -> Nat]
  BY <1>6
<1>12. T[t][idx] = f /\ \A i \in Entries : i # idx => T[t][i] = mm.tables[t][i]
  BY <1>9, <1>11
<1> HIDE DEF T, mm2
<1>13. Stored(mm, t, idx, f, mm2)
  BY <1>3, <1>5, <1>8, <1>9, <1>10, <1>12 DEF Stored
<1> QED
  BY <1>13 DEF mm2

\* get_mut_or_alloc puts a new table into the tree of tables.
LEMMA NewTableLevelled ==
  ASSUME NEW mm \in Memory, NEW lvl, NEW r, Levelled(mm, lvl, r),
         NEW t \in Tables, lvl[t] < 3, NEW idx \in Entries, mm.tables[t][idx] = 0,
         NEW f \in Tables, f \notin mm.used, f # t, NEW mm2, Stored(mm, t, idx, f, mm2)
  PROVE  LET lvl2 == [lvl EXCEPT ![f] = lvl[t] + 1]
         IN  Levelled(mm2, lvl2, r) /\ Extends(mm, lvl, mm2, lvl2)
<1> DEFINE lvl2 == [lvl EXCEPT ![f] = lvl[t] + 1]
<1>1. /\ lvl \in [Tables -> 0 .. 4] /\ lvl[f] = 4 /\ lvl[t] \in 0 .. 2 /\ f # t
      /\ r \in Tables /\ lvl[r] = 0 /\ f # r /\ f # 0 /\ f \in Nat
  <2>1. lvl \in [Tables -> 0 .. 4] /\ r \in Tables /\ lvl[r] = 0 /\ ~(lvl[f] < 4)
    BY DEF Levelled
  <2>2. lvl[f] \in 0 .. 4 /\ lvl[t] \in 0 .. 4
    BY <2>1
  <2>3. f # 0 /\ f \in Nat
    BY PageTablesAssumption DEF Tables
  <2>4. lvl[f] = 4 /\ lvl[t] \in 0 .. 2
    BY <2>1, <2>2
  <2> QED
    BY <2>1, <2>3, <2>4
<1>2. /\ mm2 \in Memory /\ mm2.used = mm.used \cup {f}
      /\ \A i \in Entries : mm2.tables[f][i] = 0
      /\ mm2.tables[t][idx] = f
      /\ \A i \in Entries : i # idx => mm2.tables[t][i] = mm.tables[t][i]
      /\ \A s \in Tables : s \notin {t, f} => mm2.tables[s] = mm.tables[s]
  BY DEF Stored
<1>3. /\ lvl2 \in [Tables -> 0 .. 4] /\ lvl2[f] = lvl[t] + 1
      /\ \A s \in Tables : s # f => lvl2[s] = lvl[s]
  BY <1>1
<1> HIDE DEF lvl2
<1>4. ASSUME NEW s \in Tables, NEW i \in Entries, lvl2[s] < 3, mm2.tables[s][i] # 0
      PROVE  /\ s # f
             /\ \/ s = t /\ i = idx /\ mm2.tables[s][i] = f
                \/ /\ mm2.tables[s][i] = mm.tables[s][i] /\ lvl[s] < 3
                   /\ mm.tables[s][i] \in Tables /\ lvl[mm.tables[s][i]] = lvl[s] + 1
                   /\ mm.tables[s][i] # f
  <2>1. s # f
    BY <1>2, <1>4
  <2>2. CASE s = t /\ i = idx
    BY <1>2, <2>1, <2>2
  <2>3. CASE ~(s = t /\ i = idx)
    <3>1. mm2.tables[s][i] = mm.tables[s][i] /\ lvl[s] < 3
      BY <1>2, <1>3, <1>4, <2>1, <2>3
    <3>2. mm.tables[s][i] \in Tables /\ lvl[mm.tables[s][i]] = lvl[s] + 1
      BY <1>4, <3>1 DEF Levelled
    <3>3. lvl[s] \in 0 .. 4
      BY <1>1
    <3>4. mm.tables[s][i] # f
      BY <1>1, <3>1, <3>2, <3>3
    <3> QED
      BY <2>1, <3>1, <3>2, <3>4
  <2> QED
    BY <2>2, <2>3
<1>5. \A s \in Tables : lvl2[s] < 4 => s \in mm2.used
  BY <1>2, <1>3 DEF Levelled
<1>6. ASSUME NEW s \in Tables, NEW i \in Entries, lvl2[s] < 3, mm2.tables[s][i] # 0
      PROVE  mm2.tables[s][i] \in Tables /\ lvl2[mm2.tables[s][i]] = lvl2[s] + 1
  BY <1>3, <1>4, <1>6
<1>7. ASSUME NEW s \in Tables, NEW u \in Tables, NEW i \in Entries, NEW j \in Entries,
             lvl2[s] < 3, lvl2[u] < 3, mm2.tables[s][i] # 0,
             mm2.tables[s][i] = mm2.tables[u][j]
      PROVE  s = u /\ i = j
  BY <1>4, <1>7 DEF Levelled
<1>8. Levelled(mm2, lvl2, r)
  BY <1>1, <1>3, <1>5, <1>6, <1>7 DEF Levelled
<1>9. Extends(mm, lvl, mm2, lvl2)
  <2>1. mm.used \subseteq Tables
    BY DEF Memory
  <2> QED
    BY <1>2, <1>3, <2>1 DEF Extends
<1> QED
  BY <1>8, <1>9 DEF lvl2

\* The indices of an address are indices of tables.
LEMMA Indices ==
  ASSUME NEW v \in Nat
  PROVE  L1Index(v) \in Entries /\ L2Index(v) \in Entries /\ L3Index(v) \in Entries
         /\ 0 \in Entries
<1>1. R \in Nat \ {0} /\ R * R \in Nat \ {0}
  BY PageTablesAssumption
<1>2. v \div (R * R) \in Int /\ v \div R \in Int
  BY <1>1
<1> DEFINE a == v \div (R * R)
           b == v \div R
<1> HIDE DEF a, b
<1>3. a \in Int /\ b \in Int
  BY <1>2 DEF a, b
<1>4. a % R \in Entries /\ b % R \in Entries /\ v % R \in Entries /\ 0 \in Entries
  BY <1>1, <1>3 DEF Entries
<1> QED
  BY <1>4 DEF L1Index, L2Index, L3Index, a, b

\* A walk is four hops through the entries of tables, and stays at 0 once an
\* entry is empty.
Hop(mm, t, i) == IF t = 0 THEN 0 ELSE mm.tables[t][i]
L1Of(mm, r) == mm.tables[r][0]
L2Of(mm, r, v) == Hop(mm, L1Of(mm, r), L1Index(v))

\* L3Table and Walk make these hops.
LEMMA WalkIs ==
  ASSUME NEW mm, NEW r, NEW v
  PROVE  /\ L3Table(mm, r, v) = Hop(mm, L2Of(mm, r, v), L2Index(v))
         /\ Walk(mm, r, v) = Hop(mm, L3Table(mm, r, v), L3Index(v))
BY DEF Walk, L3Table, L2Of, L1Of, Hop

\* They are tables of their levels.
LEMMA Path ==
  ASSUME NEW mm \in Memory, NEW lvl, NEW r, Levelled(mm, lvl, r), NEW v \in Nat
  PROVE  /\ L1Of(mm, r) = 0 \/ (L1Of(mm, r) \in Tables /\ lvl[L1Of(mm, r)] = 1)
         /\ L2Of(mm, r, v) = 0 \/ (L2Of(mm, r, v) \in Tables /\ lvl[L2Of(mm, r, v)] = 2)
         /\ \/ L3Table(mm, r, v) = 0
            \/ L3Table(mm, r, v) \in Tables /\ lvl[L3Table(mm, r, v)] = 3
<1> DEFINE l1 == L1Of(mm, r)
           l2 == L2Of(mm, r, v)
           l3 == L3Table(mm, r, v)
<1>1. L1Index(v) \in Entries /\ L2Index(v) \in Entries /\ 0 \in Entries
  BY Indices
<1>2. r \in Tables /\ lvl[r] = 0
  BY DEF Levelled
<1>3. l1 = 0 \/ (l1 \in Tables /\ lvl[l1] = 1)
  BY <1>1, <1>2 DEF Levelled, L1Of
<1>4. l2 = IF l1 = 0 THEN 0 ELSE mm.tables[l1][L1Index(v)]
  BY DEF L2Of, Hop
<1>5. l3 = IF l2 = 0 THEN 0 ELSE mm.tables[l2][L2Index(v)]
  BY WalkIs DEF Hop
<1> HIDE DEF l1, l2, l3
<1>6. l2 = 0 \/ (l2 \in Tables /\ lvl[l2] = 2)
  BY <1>1, <1>3, <1>4 DEF Levelled
<1>7. l3 = 0 \/ (l3 \in Tables /\ lvl[l3] = 3)
  BY <1>1, <1>5, <1>6 DEF Levelled
<1> QED
  BY <1>3, <1>6, <1>7 DEF l1, l2, l3

\* A new table is empty, so it maps nothing and unmaps nothing.
LEMMA NewTableWalk ==
  ASSUME NEW mm \in Memory, NEW lvl, NEW r, Levelled(mm, lvl, r),
         NEW t \in Tables, lvl[t] < 3, NEW idx \in Entries, mm.tables[t][idx] = 0,
         NEW f \in Tables, f \notin mm.used, f # t, NEW mm2, Stored(mm, t, idx, f, mm2),
         NEW v \in Nat
  PROVE  Walk(mm2, r, v) = Walk(mm, r, v)
<1> DEFINE i1 == L1Index(v)
           i2 == L2Index(v)
           i3 == L3Index(v)
           l1 == L1Of(mm, r)
           l2 == L2Of(mm, r, v)
           l3 == L3Table(mm, r, v)
           k1 == L1Of(mm2, r)
           k2 == L2Of(mm2, r, v)
           k3 == L3Table(mm2, r, v)
<1>1. i1 \in Entries /\ i2 \in Entries /\ i3 \in Entries /\ 0 \in Entries
  BY Indices
<1>2. /\ l1 = 0 \/ (l1 \in Tables /\ lvl[l1] = 1)
      /\ l2 = 0 \/ (l2 \in Tables /\ lvl[l2] = 2)
      /\ l3 = 0 \/ (l3 \in Tables /\ lvl[l3] = 3)
  BY Path
<1>3. /\ Walk(mm, r, v) = Hop(mm, l3, i3) /\ Walk(mm2, r, v) = Hop(mm2, k3, i3)
      /\ l3 = Hop(mm, l2, i2) /\ k3 = Hop(mm2, k2, i2)
      /\ l2 = Hop(mm, l1, i1) /\ k2 = Hop(mm2, k1, i1)
      /\ l1 = mm.tables[r][0] /\ k1 = mm2.tables[r][0]
  BY WalkIs DEF L2Of, L1Of
<1>4. /\ r \in Tables /\ r # f /\ f # 0
      /\ \A s \in Tables : lvl[s] \in {1, 2, 3} => s # f
  <2>1. \A s \in Tables : lvl[s] < 4 => s \in mm.used
    BY DEF Levelled
  <2>2. \A s \in Tables : lvl[s] \in {0, 1, 2, 3} => s # f
    BY <2>1
  <2> QED
    BY <2>2, PageTablesAssumption DEF Levelled, Tables
<1>5. /\ \A i \in Entries : mm2.tables[f][i] = 0
      /\ \A s \in Tables, i \in Entries :
           s # f => \/ mm2.tables[s][i] = mm.tables[s][i]
                    \/ s = t /\ mm.tables[s][i] = 0 /\ mm2.tables[s][i] = f
  BY DEF Stored
<1> HIDE DEF l1, k1, l2, k2, l3, k3, i1, i2, i3
<1>6. ASSUME NEW a, NEW b, NEW i \in Entries, a = 0 \/ (a \in Tables /\ a # f),
             b = a \/ (a = 0 /\ b = f)
      PROVE  /\ Hop(mm2, b, i) = Hop(mm, a, i) \/ (Hop(mm, a, i) = 0 /\ Hop(mm2, b, i) = f)
             /\ a # t => Hop(mm2, b, i) = Hop(mm, a, i)
  <2>1. CASE b = f /\ a = 0
    BY <1>4, <1>5, <2>1 DEF Hop
  <2>2. CASE b = a /\ a = 0
    BY <2>2 DEF Hop
  <2>3. CASE b = a /\ a # 0
    BY <1>5, <1>6, <2>3 DEF Hop
  <2> QED
    BY <1>6, <2>1, <2>2, <2>3
<1>7. k1 = l1 \/ (l1 = 0 /\ k1 = f)
  BY <1>1, <1>3, <1>4, <1>5
<1>8. /\ l1 = 0 \/ (l1 \in Tables /\ l1 # f)
      /\ l2 = 0 \/ (l2 \in Tables /\ l2 # f)
      /\ l3 = 0 \/ (l3 \in Tables /\ l3 # f)
      /\ l3 # t
  <2>1. t # 0 /\ lvl[t] # 3
    BY PageTablesAssumption DEF Tables
  <2> QED
    BY <1>2, <1>4, <2>1
<1>9. k2 = l2 \/ (l2 = 0 /\ k2 = f)
  BY <1>1, <1>3, <1>6, <1>7, <1>8
<1>10. k3 = l3 \/ (l3 = 0 /\ k3 = f)
  BY <1>1, <1>3, <1>6, <1>8, <1>9
<1> QED
  BY <1>1, <1>3, <1>6, <1>8, <1>10

\* The panic of an expect changes nothing else.
LEMMA PanicKeepsMemory ==
  ASSUME NEW mm \in Memory
  PROVE  LET mm2 == [mm EXCEPT !.panicked = TRUE]
         IN  mm2 \in Memory /\ mm2.panicked /\ mm2.used = mm.used /\ mm2.tables = mm.tables
BY Zenon DEF Memory

(***************************************************************************)
(* What a step that only adds tables does to the tables of r: it panics,   *)
(* or the tree has grown and translates as before.                         *)
(***************************************************************************)
SameWalks(mm, mm2, r) == \A v \in Nat : Walk(mm2, r, v) = Walk(mm, r, v)
KeepsEntries(mm, lvl, mm2) ==
  \A t \in Tables, i \in Entries :
    lvl[t] < 3 /\ mm.tables[t][i] # 0 => mm2.tables[t][i] = mm.tables[t][i]
Added(mm, lvl, mm2, lvl2, r) ==
  /\ Levelled(mm2, lvl2, r)
  /\ Extends(mm, lvl, mm2, lvl2)
  /\ SameWalks(mm, mm2, r)
  /\ KeepsEntries(mm, lvl, mm2)

\* Going down a level, from a table t to the one of its entry idx.
Descended(mm, lvl, t, idx, q, r) ==
  /\ q.m \in Memory
  /\ mm.panicked => q.m.panicked
  /\ ~q.m.panicked =>
       \E lvl2 : /\ Added(mm, lvl, q.m, lvl2, r)
                 /\ q.t \in Tables /\ lvl2[q.t] = lvl[t] + 1
                 /\ lvl2[t] = lvl[t] /\ q.m.tables[t][idx] = q.t

\* Descend finds the table or makes it.
LEMMA DescendStep ==
  ASSUME NEW mm \in Memory, NEW t, NEW idx \in Entries, NEW r,
         NEW lvl, ~mm.panicked => Levelled(mm, lvl, r) /\ t \in Tables /\ lvl[t] < 3,
         NEW q, q = Descend(Place(mm, t), idx)
  PROVE  Descended(mm, lvl, t, idx, q, r)
<1> USE DEF Descended
<1> DEFINE mm2 == get_mut_or_alloc(mm, t, idx)
           f == FirstFit(mm, 1)
<1>1. q.m = mm2 /\ q.t = IF mm2.panicked THEN 0 ELSE mm2.tables[t][idx]
  BY DEF Descend, Below, Place
<1>2. CASE mm.panicked
  BY <1>1, <1>2 DEF get_mut_or_alloc
<1>3. CASE ~mm.panicked /\ mm.tables[t][idx] # 0
  <2>1. mm2 = mm
    BY <1>3 DEF get_mut_or_alloc
  <2>2. Added(mm, lvl, mm, lvl, r)
    BY <1>3 DEF Added, Extends, SameWalks, KeepsEntries
  <2>3. mm.tables[t][idx] \in Tables /\ lvl[mm.tables[t][idx]] = lvl[t] + 1
    BY <1>3 DEF Levelled
  <2> QED
    BY <1>1, <1>3, <2>1, <2>2, <2>3
<1>4. CASE ~mm.panicked /\ mm.tables[t][idx] = 0 /\ f = 0
  <2>1. mm2 = [mm EXCEPT !.panicked = TRUE]
    BY <1>4 DEF get_mut_or_alloc, StoreTable, Take
  <2> QED
    BY <1>1, <2>1, PanicKeepsMemory
<1>5. CASE ~mm.panicked /\ mm.tables[t][idx] = 0 /\ f # 0
  <2>1. mm2 = StoreTable(mm, t, idx, f)
    BY <1>5 DEF get_mut_or_alloc
  <2>2. f \in Tables /\ f \notin mm.used
    <3>1. f \in Tables /\ Run(f, 1) \cap mm.used = {}
      BY <1>5, FirstFitFree
    <3>2. f \in Run(f, 1)
      BY <3>1, PageTablesAssumption DEF Run, Tables
    <3> QED
      BY <3>1, <3>2
  <2>3. Levelled(mm, lvl, r) /\ t \in Tables /\ lvl[t] < 3 /\ t \in mm.used
    <3>1. Levelled(mm, lvl, r) /\ t \in Tables /\ lvl[t] < 3
      BY <1>5
    <3>2. lvl[t] \in 0 .. 4
      BY <3>1 DEF Levelled
    <3>3. lvl[t] < 4
      BY <3>1, <3>2
    <3> QED
      BY <3>1, <3>3 DEF Levelled
  <2> HIDE DEF f, mm2
  <2>4. f # t
    BY <2>2, <2>3
  <2>5. Stored(mm, t, idx, f, mm2)
    BY <2>1, <2>2, <2>3, <2>4, StoredTable
  <2> DEFINE lvl2 == [lvl EXCEPT ![f] = lvl[t] + 1]
  <2>6. Levelled(mm2, lvl2, r) /\ Extends(mm, lvl, mm2, lvl2)
    BY <1>5, <2>2, <2>3, <2>4, <2>5, NewTableLevelled
  <2>7. SameWalks(mm, mm2, r)
    BY <1>5, <2>2, <2>3, <2>4, <2>5, NewTableWalk DEF SameWalks
  <2>8. lvl2[f] = lvl[t] + 1 /\ lvl2[t] = lvl[t]
    BY <2>2, <2>3, <2>4 DEF Levelled
  <2>9. mm2 \in Memory /\ ~mm2.panicked /\ mm2.tables[t][idx] = f
    BY <1>5, <2>5 DEF Stored
  <2>10. KeepsEntries(mm, lvl, mm2)
    <3>1. lvl[f] \in 0 .. 4 /\ ~(lvl[f] < 4)
      BY <2>2, <2>3 DEF Levelled
    <3>2. ~(lvl[f] < 3)
      BY <3>1
    <3> QED
      BY <1>5, <2>5, <3>2 DEF KeepsEntries, Stored
  <2> HIDE DEF lvl2
  <2>11. Added(mm, lvl, mm2, lvl2, r)
    BY <2>6, <2>7, <2>10 DEF Added
  <2> QED
    BY <1>1, <1>5, <2>2, <2>8, <2>9, <2>11
<1> QED
  BY <1>2, <1>3, <1>4, <1>5

-----------------------------------------------------------------------------
\* An address of the lower half is made up of its indices.
LEMMA AddressIs ==
  ASSUME NEW v \in 0 .. (Limit - 1)
  PROVE  v = ((R * R) * L1Index(v)) + (R * L2Index(v)) + L3Index(v)
<1> DEFINE RR == R * R
           b == v \div R
           c == v % R
           x == b \div R
           y == b % R
<1>1. R \in Nat \ {0} /\ RR \in Nat \ {0} /\ v \in Int /\ v \in 0 .. (RR * R - 1)
  BY PageTablesAssumption DEF Limit
<1>2. b \in Int /\ c \in 0 .. (R - 1) /\ v = (R * b) + c
  BY <1>1, Quotient
<1> HIDE DEF b, c
<1>3. x \in Int /\ y \in 0 .. (R - 1) /\ b = (R * x) + y
  BY <1>1, <1>2, Quotient
<1> DEFINE z == (R * y) + c
<1> HIDE DEF x, y
<1>4. v = (RR * x) + z
  BY <1>1, <1>2, <1>3
<1>5. z \in 0 .. (RR - 1)
  <2>1. (R * y) + R <= R * R
    BY <1>1, <1>3, TimesNext
  <2>2. R * y \in Nat
    BY <1>1, <1>3
  <2> QED
    BY <1>1, <1>2, <2>1, <2>2
<1> HIDE DEF RR, z
<1>6. v \div RR = x
  BY <1>1, <1>3, <1>4, <1>5, DivMod
<1>7. x \in 0 .. (R - 1)
  <2>1. ~(x < 0)
    <3>1. x < 0 => (RR * x) + RR <= RR * 0
      BY <1>1, <1>3, TimesNext
    <3>2. RR * x \in Int /\ RR * 0 = 0
      BY <1>1, <1>3
    <3> QED
      BY <1>1, <1>4, <1>5, <3>1, <3>2
  <2>2. ~(R <= x)
    <3>1. R < x => (RR * R) + RR <= RR * x
      BY <1>1, <1>3, TimesNext
    <3>2. RR * x \in Int /\ RR * R \in Int
      BY <1>1, <1>3
    <3>3. R = x => RR * R = RR * x
      OBVIOUS
    <3> QED
      BY <1>1, <1>3, <1>4, <1>5, <3>1, <3>2, <3>3
  <2> QED
    BY <1>1, <1>3, <2>1, <2>2
<1>8. x % R = x
  <2>1. x = (R * 0) + x
    BY <1>1, <1>3
  <2> QED
    BY <1>1, <1>3, <1>7, <2>1, DivMod
<1>9. L1Index(v) = x /\ L2Index(v) = y /\ L3Index(v) = c
  BY <1>6, <1>8 DEF L1Index, L2Index, L3Index, RR, b, c, y
<1> QED
  BY <1>1, <1>2, <1>3, <1>4, <1>9 DEF RR, z

\* No two addresses share the level 3 table and the entry in it.
LEMMA OnePath ==
  ASSUME NEW mm \in Memory, NEW lvl, NEW r, Levelled(mm, lvl, r),
         NEW v \in 0 .. (Limit - 1), NEW w \in 0 .. (Limit - 1),
         L3Table(mm, r, v) # 0, L3Table(mm, r, w) = L3Table(mm, r, v),
         L3Index(w) = L3Index(v)
  PROVE  w = v
<1> DEFINE v1 == L1Of(mm, r)
           v2 == L2Of(mm, r, v)
           w2 == L2Of(mm, r, w)
           v3 == L3Table(mm, r, v)
<1>1. v \in Nat /\ w \in Nat
  BY PageTablesAssumption DEF Limit
<1>2. /\ v1 = 0 \/ (v1 \in Tables /\ lvl[v1] = 1)
      /\ v2 = 0 \/ (v2 \in Tables /\ lvl[v2] = 2)
      /\ w2 = 0 \/ (w2 \in Tables /\ lvl[w2] = 2)
  BY <1>1, Path
<1>3. /\ v3 = Hop(mm, v2, L2Index(v)) /\ v3 = Hop(mm, w2, L2Index(w))
      /\ v2 = Hop(mm, v1, L1Index(v)) /\ w2 = Hop(mm, v1, L1Index(w))
  BY WalkIs DEF L2Of
<1>4. /\ L1Index(v) \in Entries /\ L2Index(v) \in Entries
      /\ L1Index(w) \in Entries /\ L2Index(w) \in Entries
  BY <1>1, Indices
<1>5. v3 # 0
  BY Zenon
<1> HIDE DEF v1, v2, v3, w2
<1>6. /\ v2 # 0 /\ v3 = mm.tables[v2][L2Index(v)]
      /\ w2 # 0 /\ v3 = mm.tables[w2][L2Index(w)]
  BY <1>3, <1>5 DEF Hop
<1>7. v2 = w2 /\ L2Index(v) = L2Index(w)
  <2>1. v2 \in Tables /\ lvl[v2] < 3 /\ w2 \in Tables /\ lvl[w2] < 3
    BY <1>2, <1>6
  <2>2. mm.tables[v2][L2Index(v)] # 0
    BY <1>5, <1>6
  <2>3. mm.tables[v2][L2Index(v)] = mm.tables[w2][L2Index(w)]
    BY <1>6
  <2> QED
    BY <1>4, <2>1, <2>2, <2>3 DEF Levelled
<1>8. v1 # 0 /\ v2 = mm.tables[v1][L1Index(v)] /\ v2 = mm.tables[v1][L1Index(w)]
  BY <1>3, <1>6, <1>7 DEF Hop
<1>9. L1Index(v) = L1Index(w)
  <2>1. v1 \in Tables /\ lvl[v1] < 3
    BY <1>2, <1>8
  <2>2. mm.tables[v1][L1Index(v)] # 0
    BY <1>6, <1>8
  <2>3. mm.tables[v1][L1Index(v)] = mm.tables[v1][L1Index(w)]
    BY <1>8
  <2> QED
    BY <1>4, <2>1, <2>2, <2>3 DEF Levelled
<1> QED
  BY <1>7, <1>9, AddressIs

\* Writing an entry of a level 3 table changes the walks that end there.
LEMMA PageWrite ==
  ASSUME NEW mm \in Memory, NEW lvl, NEW r, Levelled(mm, lvl, r),
         NEW t \in Tables, lvl[t] = 3, NEW idx \in Entries, NEW x \in Nat,
         NEW mm2, mm2 = [mm EXCEPT !.tables[t][idx] = x]
  PROVE  /\ mm2 \in Memory /\ mm2.used = mm.used /\ mm2.panicked = mm.panicked
         /\ Levelled(mm2, lvl, r)
         /\ \A w \in Nat :
              Walk(mm2, r, w) = IF L3Table(mm, r, w) = t /\ L3Index(w) = idx
                                THEN x ELSE Walk(mm, r, w)
<1> DEFINE T == [mm.tables EXCEPT ![t][idx] = x]
<1>1. mm.tables \in [Tables -> [Entries -> Nat]] /\ mm.used \subseteq Tables
  BY DEF Memory
<1>2. T \in [Tables -> [Entries -> Nat]]
  BY <1>1
<1>3. /\ T[t] = [mm.tables[t] EXCEPT ![idx] = x]
      /\ \A s \in Tables : s # t => T[s] = mm.tables[s]
  BY <1>1
<1>4. T[t][idx] = x /\ \A i \in Entries : i # idx => T[t][i] = mm.tables[t][i]
  <2>1. mm.tables[t] \in [Entries -> Nat]
    BY <1>1
  <2> QED
    BY <1>3, <2>1
<1>5. mm2 = [mm EXCEPT !.tables = T]
  BY DEF Memory
<1> HIDE DEF T
<1>6. /\ mm2 \in Memory /\ mm2.used = mm.used /\ mm2.panicked = mm.panicked
      /\ mm2.tables = T
  BY <1>2, <1>5, Zenon DEF Memory
<1>7. \A s \in Tables : lvl[s] < 3 => mm2.tables[s] = mm.tables[s]
  BY <1>3, <1>6
<1>8. Levelled(mm2, lvl, r)
  BY <1>6, <1>7 DEF Levelled
<1>9. ASSUME NEW w \in Nat
      PROVE  Walk(mm2, r, w) = IF L3Table(mm, r, w) = t /\ L3Index(w) = idx
                               THEN x ELSE Walk(mm, r, w)
  <2> DEFINE l1 == L1Of(mm, r)
             l2 == L2Of(mm, r, w)
             l3 == L3Table(mm, r, w)
  <2>1. /\ l1 = 0 \/ (l1 \in Tables /\ lvl[l1] = 1)
        /\ l2 = 0 \/ (l2 \in Tables /\ lvl[l2] = 2)
        /\ l3 = 0 \/ (l3 \in Tables /\ lvl[l3] = 3)
    BY Path
  <2>2. L1Of(mm2, r) = l1
    BY <1>7 DEF Levelled, L1Of
  <2> HIDE DEF l1
  <2>3. L2Of(mm2, r, w) = l2
    <3>1. L2Of(mm2, r, w) = Hop(mm2, l1, L1Index(w)) /\ l2 = Hop(mm, l1, L1Index(w))
      BY <2>2 DEF L2Of, l1
    <3>2. l1 # 0 => mm2.tables[l1] = mm.tables[l1]
      BY <1>7, <2>1
    <3> QED
      BY <3>1, <3>2 DEF Hop
  <2> HIDE DEF l2
  <2>4. L3Table(mm2, r, w) = l3
    <3>1. L3Table(mm2, r, w) = Hop(mm2, l2, L2Index(w)) /\ l3 = Hop(mm, l2, L2Index(w))
      BY <2>3, WalkIs DEF l2
    <3>2. l2 # 0 => mm2.tables[l2] = mm.tables[l2]
      BY <1>7, <2>1
    <3> QED
      BY <3>1, <3>2 DEF Hop
  <2>5. /\ Walk(mm2, r, w) = Hop(mm2, l3, L3Index(w))
        /\ Walk(mm, r, w) = Hop(mm, l3, L3Index(w))
    BY <2>4, WalkIs
  <2>6. L3Index(w) \in Entries /\ t # 0
    BY Indices, PageTablesAssumption DEF Tables
  <2> HIDE DEF l3
  <2>7. CASE l3 = t
    BY <1>4, <1>6, <2>5, <2>6, <2>7, Zenon DEF Hop, l3
  <2>8. CASE l3 # t /\ l3 = 0
    BY <2>5, <2>8 DEF Hop, l3
  <2>9. CASE l3 # t /\ l3 # 0
    <3>1. mm2.tables[l3] = mm.tables[l3]
      BY <1>3, <1>6, <2>1, <2>9, ZenonT(30)
    <3> QED
      BY <2>5, <2>9, <3>1 DEF Hop, l3
  <2> QED
    BY <2>7, <2>8, <2>9
<1> QED
  BY <1>6, <1>8, <1>9

\* What mapping one page does to the tables of r: it panics, or the page is
\* mapped and no other translation has changed.
Maps(mm, lvl, mm2, lvl2, r, v, p) ==
  /\ v < Limit
  /\ Levelled(mm2, lvl2, r)
  /\ Extends(mm, lvl, mm2, lvl2)
  /\ \A w \in 0 .. (Limit - 1) : Walk(mm2, r, w) = IF w = v THEN p ELSE Walk(mm, r, w)

\* Going down three levels finds, or makes, the level 3 table of an address.
FoundL3(mm, lvl, q, r, v) ==
  /\ q.m \in Memory
  /\ mm.panicked => q.m.panicked
  /\ ~q.m.panicked =>
       \E lvl2 : /\ Levelled(q.m, lvl2, r)
                 /\ Extends(mm, lvl, q.m, lvl2)
                 /\ SameWalks(mm, q.m, r)
                 /\ q.t \in Tables /\ lvl2[q.t] = 3 /\ L3Table(q.m, r, v) = q.t

\* No table is in frame 0.
LEMMA TablesNotZero == \A t \in Tables : t # 0
BY PageTablesAssumption DEF Tables

\* The root is above level 3 when tables were added.
LEMMA AddedRoot ==
  ASSUME NEW mm, NEW lvl, NEW mm2, NEW lvl2, NEW r, Added(mm, lvl, mm2, lvl2, r)
  PROVE  r \in Tables /\ lvl2[r] < 3
BY DEF Added, Levelled

\* An entry of an upper table that is in use stays when tables are added.
LEMMA AddedKeeps ==
  ASSUME NEW mm, NEW lvl, NEW mm2, NEW lvl2, NEW r, Added(mm, lvl, mm2, lvl2, r),
         NEW t \in Tables, NEW i \in Entries, lvl[t] < 3, mm.tables[t][i] # 0
  PROVE  mm2.tables[t][i] = mm.tables[t][i]
BY Zenon DEF Added, KeepsEntries

\* The first half of vmap_at.
LEMMA DescendToL3 ==
  ASSUME NEW mm \in Memory, NEW r, NEW lvl, ~mm.panicked => Levelled(mm, lvl, r),
         NEW v \in Nat,
         NEW q, q = Descend(Descend(Descend(Place(mm, r), 0), L1Index(v)), L2Index(v))
  PROVE  FoundL3(mm, lvl, q, r, v)
<1>1. L1Index(v) \in Entries /\ L2Index(v) \in Entries /\ 0 \in Entries
  BY Indices
<1>2. PICK q1 : q1 = Descend(Place(mm, r), 0)
  OBVIOUS
<1>3. PICK q2 : q2 = Descend(q1, L1Index(v))
  OBVIOUS
<1>4. q = Descend(q2, L2Index(v))
  BY <1>2, <1>3
<1>5. \A p, i : Descend(p, i) = Descend(Place(p.m, p.t), i)
  BY DEF Descend, Place
<1>6. Descended(mm, lvl, r, 0, q1, r) /\ (~mm.panicked => lvl[r] = 0)
  <2>1. ~mm.panicked => Levelled(mm, lvl, r) /\ r \in Tables /\ lvl[r] < 3 /\ lvl[r] = 0
    BY DEF Levelled
  <2> QED
    BY <1>1, <1>2, <2>1, DescendStep
<1>7. PICK lvl1 : ~q1.m.panicked =>
        /\ Added(mm, lvl, q1.m, lvl1, r)
        /\ q1.t \in Tables /\ lvl1[q1.t] = 1 /\ q1.m.tables[r][0] = q1.t
  BY <1>6 DEF Descended
<1>8. Descended(q1.m, lvl1, q1.t, L1Index(v), q2, r)
  <2>1. ~q1.m.panicked => Levelled(q1.m, lvl1, r) /\ q1.t \in Tables /\ lvl1[q1.t] < 3
    BY <1>7 DEF Added
  <2>2. q2 = Descend(Place(q1.m, q1.t), L1Index(v)) /\ q1.m \in Memory
    BY <1>3, <1>5, <1>6 DEF Descended
  <2> QED
    BY <1>1, <2>1, <2>2, DescendStep
<1>9. PICK lvl2 : ~q2.m.panicked =>
        /\ Added(q1.m, lvl1, q2.m, lvl2, r)
        /\ q2.t \in Tables /\ lvl2[q2.t] = 2 /\ lvl2[q1.t] = 1
        /\ q2.m.tables[q1.t][L1Index(v)] = q2.t
  BY <1>7, <1>8 DEF Descended
<1>10. Descended(q2.m, lvl2, q2.t, L2Index(v), q, r)
  <2>1. ~q2.m.panicked => Levelled(q2.m, lvl2, r) /\ q2.t \in Tables /\ lvl2[q2.t] < 3
    BY <1>9 DEF Added
  <2>2. q = Descend(Place(q2.m, q2.t), L2Index(v)) /\ q2.m \in Memory
    BY <1>4, <1>5, <1>8 DEF Descended
  <2> QED
    BY <1>1, <2>1, <2>2, DescendStep
<1>11. ASSUME ~q.m.panicked
       PROVE  \E lvl3 : /\ Levelled(q.m, lvl3, r)
                        /\ Extends(mm, lvl, q.m, lvl3)
                        /\ SameWalks(mm, q.m, r)
                        /\ q.t \in Tables /\ lvl3[q.t] = 3 /\ L3Table(q.m, r, v) = q.t
  <2>1. PICK lvl3 : /\ Added(q2.m, lvl2, q.m, lvl3, r)
                    /\ q.t \in Tables /\ lvl3[q.t] = 3
                    /\ q.m.tables[q2.t][L2Index(v)] = q.t
    BY <1>9, <1>10, <1>11 DEF Descended
  <2>2. /\ Added(q1.m, lvl1, q2.m, lvl2, r)
        /\ q2.t \in Tables /\ lvl2[q2.t] = 2 /\ lvl2[q1.t] = 1
        /\ q2.m.tables[q1.t][L1Index(v)] = q2.t
    BY <1>9, <1>10, <1>11 DEF Descended
  <2>3. /\ Added(mm, lvl, q1.m, lvl1, r)
        /\ q1.t \in Tables /\ lvl1[q1.t] = 1 /\ q1.m.tables[r][0] = q1.t
    BY <1>7, <1>8, <1>10, <1>11, Zenon DEF Descended
  <2>4. Levelled(q.m, lvl3, r) /\ SameWalks(mm, q.m, r)
    BY <2>1, <2>2, <2>3, Zenon DEF Added, SameWalks
  <2>5. Extends(mm, lvl, q.m, lvl3)
    BY <2>1, <2>2, <2>3 DEF Added, Extends
  <2>6. q1.t # 0 /\ q2.t # 0 /\ q.t # 0
    BY <2>1, <2>2, <2>3, TablesNotZero, Zenon
  <2>7. q2.m.tables[r][0] = q1.t /\ q.m.tables[r][0] = q1.t
    <3>1. r \in Tables /\ lvl1[r] < 3 /\ lvl2[r] < 3
      BY <2>2, <2>3, AddedRoot, Zenon
    <3>2. q2.m.tables[r][0] = q1.t
      BY <1>1, <2>2, <2>3, <2>6, <3>1, AddedKeeps
    <3> QED
      BY <1>1, <2>1, <2>6, <3>1, <3>2, AddedKeeps
  <2>8. q.m.tables[q1.t][L1Index(v)] = q2.t
    <3>1. lvl2[q1.t] < 3
      BY <2>2
    <3> QED
      BY <1>1, <2>1, <2>2, <2>3, <2>6, <3>1, AddedKeeps
  <2>9. L3Table(q.m, r, v) = q.t
    BY <2>1, <2>6, <2>7, <2>8, Zenon DEF L3Table
  <2> QED
    BY <2>1, <2>4, <2>5, <2>9
<1> QED
  BY <1>6, <1>8, <1>10, <1>11 DEF Descended, FoundL3

\* vmap_at maps its page, or panics.
LEMMA VmapAtStep ==
  ASSUME NEW mm \in Memory, NEW r, NEW lvl, ~mm.panicked => Levelled(mm, lvl, r),
         NEW v \in Nat, NEW p \in Nat, NEW mm2, mm2 = vmap_at(mm, r, v, p)
  PROVE  /\ mm2 \in Memory
         /\ mm.panicked => mm2.panicked
         /\ ~mm2.panicked => \E lvl2 : Maps(mm, lvl, mm2, lvl2, r, v, p)
<1>1. PICK q : q = Descend(Descend(Descend(Place(mm, r), 0), L1Index(v)), L2Index(v))
  OBVIOUS
<1>2. mm2 = IF mm.panicked \/ v >= Limit THEN [mm EXCEPT !.panicked = TRUE]
            ELSE StorePage(q, L3Index(v), p)
  BY <1>1 DEF vmap_at
<1>3. FoundL3(mm, lvl, q, r, v)
  BY <1>1, DescendToL3
<1>4. CASE mm.panicked \/ v >= Limit
  BY <1>2, <1>4, PanicKeepsMemory
<1>5. CASE ~mm.panicked /\ ~(v >= Limit) /\ q.m.panicked
  BY <1>2, <1>3, <1>5 DEF StorePage, FoundL3
<1>6. CASE ~mm.panicked /\ ~(v >= Limit) /\ ~q.m.panicked
  <2>1. PICK lvl2 : /\ Levelled(q.m, lvl2, r)
                    /\ Extends(mm, lvl, q.m, lvl2)
                    /\ SameWalks(mm, q.m, r)
                    /\ q.t \in Tables /\ lvl2[q.t] = 3 /\ L3Table(q.m, r, v) = q.t
    BY <1>3, <1>6 DEF FoundL3
  <2>2. CASE q.m.tables[q.t][L3Index(v)] # 0
    BY <1>2, <1>3, <1>6, <2>2, PanicKeepsMemory DEF StorePage, FoundL3
  <2>3. CASE q.m.tables[q.t][L3Index(v)] = 0
    <3>1. mm2 = [q.m EXCEPT !.tables[q.t][L3Index(v)] = p]
      BY <1>2, <1>6, <2>3 DEF StorePage
    <3>2. L3Index(v) \in Entries
      BY Indices
    <3>3. /\ mm2 \in Memory /\ mm2.used = q.m.used /\ mm2.panicked = q.m.panicked
          /\ Levelled(mm2, lvl2, r)
          /\ \A w \in Nat :
               Walk(mm2, r, w) = IF L3Table(q.m, r, w) = q.t /\ L3Index(w) = L3Index(v)
                                 THEN p ELSE Walk(q.m, r, w)
      BY <1>3, <2>1, <3>1, <3>2, PageWrite DEF FoundL3
    <3>4. Limit \in Nat /\ v \in 0 .. (Limit - 1)
      BY <1>6, PageTablesAssumption DEF Limit
    <3>5. q.t # 0
      BY <2>1, PageTablesAssumption DEF Tables
    <3>6. ASSUME NEW w \in 0 .. (Limit - 1)
          PROVE  Walk(mm2, r, w) = IF w = v THEN p ELSE Walk(mm, r, w)
      <4>1. w \in Nat
        BY <3>4
      <4>2. CASE w = v
        BY <2>1, <3>3, <4>1, <4>2
      <4>3. CASE w # v
        <5>1. ~(L3Table(q.m, r, w) = q.t /\ L3Index(w) = L3Index(v))
          BY <1>3, <2>1, <3>4, <3>5, <4>3, OnePath DEF FoundL3
        <5>2. Walk(mm2, r, w) = Walk(q.m, r, w)
          BY <3>3, <4>1, <5>1
        <5> QED
          BY <2>1, <4>1, <4>3, <5>2 DEF SameWalks
      <4> QED
        BY <4>2, <4>3
    <3>7. Extends(mm, lvl, mm2, lvl2)
      BY <2>1, <3>3 DEF Extends
    <3>8. Maps(mm, lvl, mm2, lvl2, r, v, p)
      BY <3>3, <3>4, <3>6, <3>7 DEF Maps
    <3> QED
      BY <1>6, <3>3, <3>8
  <2> QED
    BY <2>2, <2>3
<1> QED
  BY <1>4, <1>5, <1>6

\* The loop of MapPages as a function of the number of pages done.
LEMMA MapPagesLoop ==
  ASSUME NEW mm, NEW r, NEW v, NEW p, NEW count \in Nat
  PROVE  \E g : /\ g[0] = mm
                /\ \A n \in 1 .. count : g[n] = vmap_at(g[n - 1], r, v + n - 1, p + n - 1)
                /\ MapPages(mm, r, v, p, count) = g[count]
<1> DEFINE Loop(g, k) ==
             g = [n \in 0 .. k |-> IF n = 0 THEN mm
                                   ELSE vmap_at(g[n - 1], r, v + n - 1, p + n - 1)]
           S == {k \in 0 .. count : \E g : Loop(g, k)}
<1>1. 0 \in S
  <2> DEFINE h == [n \in 0 .. 0 |-> mm]
  <2>1. \A n \in 0 .. 0 :
          h[n] = IF n = 0 THEN mm ELSE vmap_at(h[n - 1], r, v + n - 1, p + n - 1)
    OBVIOUS
  <2>2. h = [n \in 0 .. 0 |-> h[n]]
    OBVIOUS
  <2> HIDE DEF h
  <2>3. Loop(h, 0)
    BY <2>1, <2>2
  <2> QED
    BY <2>3
<1>2. ASSUME NEW k \in 1 .. count, k - 1 \in S PROVE k \in S
  <2>1. PICK g : Loop(g, k - 1)
    BY <1>2
  <2> DEFINE h == [n \in 0 .. k |-> IF n = k THEN vmap_at(g[n - 1], r, v + n - 1, p + n - 1)
                                    ELSE g[n]]
  <2>2. \A n \in 0 .. (k - 1) : h[n] = g[n]
    OBVIOUS
  <2>3. \A n \in 0 .. (k - 1) :
          g[n] = IF n = 0 THEN mm ELSE vmap_at(g[n - 1], r, v + n - 1, p + n - 1)
    BY <2>1
  <2>4. \A n \in 0 .. k :
          h[n] = IF n = 0 THEN mm ELSE vmap_at(h[n - 1], r, v + n - 1, p + n - 1)
    <3> TAKE n \in 0 .. k
    <3>1. n # 0 => n - 1 \in 0 .. (k - 1)
      OBVIOUS
    <3>2. CASE n = k
      BY <2>2, <3>1, <3>2
    <3>3. CASE n # k
      <4>1. n \in 0 .. (k - 1)
        BY <3>3
      <4> HIDE DEF h
      <4> QED
        BY <2>2, <2>3, <3>1, <4>1
    <3> QED
      BY <3>2, <3>3
  <2>5. h = [n \in 0 .. k |-> h[n]]
    OBVIOUS
  <2> HIDE DEF h
  <2>6. Loop(h, k)
    BY <2>4, <2>5, Zenon
  <2> QED
    BY <2>6
<1>3. count \in S
  <2> HIDE DEF S
  <2> QED
    BY <1>1, <1>2, CountUp
<1>4. \E g : Loop(g, count)
  BY <1>3
<1> DEFINE mapped == CHOOSE g : Loop(g, count)
<1>5. MapPages(mm, r, v, p, count) = mapped[count]
  BY DEF MapPages
<1>6. Loop(mapped, count)
  BY <1>4
<1> HIDE DEF mapped
<1>7. /\ mapped[0] = mm
      /\ \A n \in 1 .. count :
           mapped[n] = vmap_at(mapped[n - 1], r, v + n - 1, p + n - 1)
  BY <1>6
<1> QED
  BY <1>5, <1>7

\* What mapping n pages does to the tables of r, if it does not panic.
MapsRange(mm, lvl, mm2, lvl2, r, v, p, n) ==
  /\ Levelled(mm2, lvl2, r)
  /\ Extends(mm, lvl, mm2, lvl2)
  /\ \A w \in 0 .. (Limit - 1) :
       Walk(mm2, r, w) = IF w \in Run(v, n) THEN p + (w - v) ELSE Walk(mm, r, w)
RangeMapped(mm, lvl, mm2, r, v, p, n) ==
  /\ mm2 \in Memory
  /\ mm.panicked => mm2.panicked
  /\ ~mm2.panicked => \E lvl2 : MapsRange(mm, lvl, mm2, lvl2, r, v, p, n)

\* The loops of vmap and of usermode::start map their region, or panic.
LEMMA MapPagesStep ==
  ASSUME NEW mm \in Memory, NEW r, NEW lvl, ~mm.panicked => Levelled(mm, lvl, r),
         NEW v \in Nat, NEW p \in Nat, NEW count \in Nat
  PROVE  RangeMapped(mm, lvl, MapPages(mm, r, v, p, count), r, v, p, count)
<1>1. PICK g : /\ g[0] = mm
               /\ \A n \in 1 .. count :
                    g[n] = vmap_at(g[n - 1], r, v + n - 1, p + n - 1)
               /\ MapPages(mm, r, v, p, count) = g[count]
  BY MapPagesLoop
<1> DEFINE S == {n \in 0 .. count : RangeMapped(mm, lvl, g[n], r, v, p, n)}
<1>2. 0 \in S
  <2>1. Run(v, 0) = {}
    BY DEF Run
  <2>2. ~mm.panicked => MapsRange(mm, lvl, mm, lvl, r, v, p, 0)
    BY <2>1 DEF MapsRange, Extends
  <2>3. RangeMapped(mm, lvl, g[0], r, v, p, 0)
    BY <1>1, <2>2 DEF RangeMapped
  <2> QED
    BY <2>3
<1>3. ASSUME NEW n \in 1 .. count, n - 1 \in S PROVE n \in S
  <2> DEFINE m1 == g[n - 1]
             m2 == g[n]
             a == v + n - 1
             b == p + n - 1
  <2>1. RangeMapped(mm, lvl, m1, r, v, p, n - 1)
    BY <1>3
  <2>2. a \in Nat /\ b \in Nat /\ m2 = vmap_at(m1, r, a, b)
    BY <1>1
  <2> HIDE DEF m1, m2, a, b
  <2>3. PICK lvl1 : ~m1.panicked => MapsRange(mm, lvl, m1, lvl1, r, v, p, n - 1)
    BY <2>1 DEF RangeMapped
  <2>4. /\ m2 \in Memory
        /\ m1.panicked => m2.panicked
        /\ ~m2.panicked => \E lvl2 : Maps(m1, lvl1, m2, lvl2, r, a, b)
    <3>1. m1 \in Memory /\ (~m1.panicked => Levelled(m1, lvl1, r))
      BY <2>1, <2>3 DEF RangeMapped, MapsRange
    <3> QED
      BY <2>2, <3>1, VmapAtStep, Zenon
  <2>5. ASSUME ~m2.panicked
        PROVE  \E lvl2 : MapsRange(mm, lvl, m2, lvl2, r, v, p, n)
    <3>1. PICK lvl2 : Maps(m1, lvl1, m2, lvl2, r, a, b)
      BY <2>4, <2>5
    <3>2. MapsRange(mm, lvl, m1, lvl1, r, v, p, n - 1)
      BY <2>3, <2>4, <2>5
    <3>3. Extends(mm, lvl, m2, lvl2)
      BY <3>1, <3>2 DEF Extends, Maps, MapsRange
    <3>4. ASSUME NEW w \in 0 .. (Limit - 1)
          PROVE  Walk(m2, r, w) = IF w \in Run(v, n) THEN p + (w - v) ELSE Walk(mm, r, w)
      <4>1. Walk(m2, r, w) = IF w = a THEN b ELSE Walk(m1, r, w)
        BY <3>1 DEF Maps
      <4>2. Walk(m1, r, w) = IF w \in Run(v, n - 1) THEN p + (w - v) ELSE Walk(mm, r, w)
        BY <3>2 DEF MapsRange
      <4>3. w \in Run(v, n) <=> w = a \/ w \in Run(v, n - 1)
        BY PageTablesAssumption DEF Run, a, Limit
      <4>4. w = a => p + (w - v) = b
        BY DEF a, b
      <4> QED
        BY <4>1, <4>2, <4>3, <4>4
    <3>5. MapsRange(mm, lvl, m2, lvl2, r, v, p, n)
      BY <3>1, <3>3, <3>4 DEF Maps, MapsRange
    <3> QED
      BY <3>5
  <2>6. RangeMapped(mm, lvl, m2, r, v, p, n)
    BY <2>1, <2>4, <2>5 DEF RangeMapped
  <2> QED
    BY <2>6 DEF m2
<1>4. count \in S
  <2> HIDE DEF S
  <2> QED
    BY <1>2, <1>3, CountUp
<1> QED
  BY <1>1, <1>4

\* What unmapping n pages does to the tables of r: no table is given back, and
\* where there is no table nothing changes.
RangeUnmapped(mm, lvl, mm2, r, v, n) ==
  /\ mm2 \in Memory
  /\ mm.panicked => mm2.panicked
  /\ ~mm2.panicked =>
       /\ Levelled(mm2, lvl, r) /\ mm2.used = mm.used
       /\ \A w \in 0 .. (Limit - 1) :
            Walk(mm2, r, w) = IF w \in Run(v, n) THEN 0 ELSE Walk(mm, r, w)
       /\ (\A w \in Run(v, n) : w < Limit => L3Table(mm, r, w) = 0) => mm2 = mm

\* vunmap_single clears the entry of its page.
LEMMA VunmapSingleStep ==
  ASSUME NEW mm \in Memory, NEW r, NEW lvl, ~mm.panicked => Levelled(mm, lvl, r),
         NEW v \in Nat
  PROVE  RangeUnmapped(mm, lvl, vunmap_single(mm, r, v), r, v, 1)
<1> DEFINE l3 == L3Table(mm, r, v)
           mm2 == vunmap_single(mm, r, v)
<1>1. mm2 = IF mm.panicked \/ v >= Limit THEN [mm EXCEPT !.panicked = TRUE]
            ELSE IF l3 = 0 THEN mm
            ELSE [mm EXCEPT !.tables[l3][L3Index(v)] = 0]
  BY DEF vunmap_single
<1>2. Run(v, 1) = {v}
  BY DEF Run
<1> HIDE DEF mm2
<1>3. CASE mm.panicked \/ v >= Limit
  <2>1. mm2 \in Memory /\ mm2.panicked
    BY <1>1, <1>3, PanicKeepsMemory
  <2> QED
    BY <2>1 DEF RangeUnmapped, mm2
<1>4. CASE ~mm.panicked /\ ~(v >= Limit)
  <2>1. Levelled(mm, lvl, r)
    BY <1>4
  <2>2. Limit \in Nat /\ v \in 0 .. (Limit - 1) /\ v < Limit
    BY <1>4, PageTablesAssumption DEF Limit
  <2>3. CASE l3 = 0
    <3>1. mm2 = mm
      BY <1>1, <1>4, <2>3
    <3>2. Walk(mm, r, v) = 0
      BY <2>3, WalkIs DEF Hop
    <3> QED
      BY <1>2, <2>1, <3>1, <3>2 DEF RangeUnmapped, mm2
  <2>4. CASE l3 # 0
    <3>1. mm2 = [mm EXCEPT !.tables[l3][L3Index(v)] = 0]
      BY <1>1, <1>4, <2>4
    <3>2. l3 \in Tables /\ lvl[l3] = 3 /\ L3Index(v) \in Entries
      BY <2>1, <2>4, Path, Indices
    <3>3. /\ mm2 \in Memory /\ mm2.used = mm.used /\ mm2.panicked = mm.panicked
          /\ Levelled(mm2, lvl, r)
          /\ \A w \in Nat :
               Walk(mm2, r, w) = IF L3Table(mm, r, w) = l3 /\ L3Index(w) = L3Index(v)
                                 THEN 0 ELSE Walk(mm, r, w)
      <4> HIDE DEF l3
      <4> QED
        BY <2>1, <3>1, <3>2, PageWrite
    <3>4. ASSUME NEW w \in 0 .. (Limit - 1)
          PROVE  Walk(mm2, r, w) = IF w \in Run(v, 1) THEN 0 ELSE Walk(mm, r, w)
      <4>1. w \in Nat
        BY <2>2
      <4>2. CASE w = v
        BY <1>2, <3>3, <4>1, <4>2
      <4>3. CASE w # v
        <5>1. ~(L3Table(mm, r, w) = l3 /\ L3Index(w) = L3Index(v))
          BY <2>1, <2>2, <2>4, <4>3, OnePath
        <5> QED
          BY <1>2, <3>3, <4>1, <4>3, <5>1
      <4> QED
        BY <4>2, <4>3
    <3>5. ~(\A w \in Run(v, 1) : w < Limit => L3Table(mm, r, w) = 0)
      BY <1>2, <2>2, <2>4
    <3>6. RangeUnmapped(mm, lvl, mm2, r, v, 1)
      BY <1>4, <3>3, <3>4, <3>5 DEF RangeUnmapped
    <3> QED
      BY <3>6 DEF mm2
  <2> QED
    BY <2>3, <2>4
<1> QED
  BY <1>3, <1>4 DEF mm2

\* The loop of vunmap as a function of the number of pages done.
LEMMA VunmapLoop ==
  ASSUME NEW mm, NEW r, NEW v, NEW count \in Nat
  PROVE  \E g : /\ g[0] = mm
                /\ \A n \in 1 .. count : g[n] = vunmap_single(g[n - 1], r, v + n - 1)
                /\ vunmap(mm, r, v, count) = g[count]
<1> DEFINE Loop(g, k) ==
             g = [n \in 0 .. k |-> IF n = 0 THEN mm
                                   ELSE vunmap_single(g[n - 1], r, v + n - 1)]
           S == {k \in 0 .. count : \E g : Loop(g, k)}
<1>1. 0 \in S
  <2> DEFINE h == [n \in 0 .. 0 |-> mm]
  <2>1. \A n \in 0 .. 0 :
          h[n] = IF n = 0 THEN mm ELSE vunmap_single(h[n - 1], r, v + n - 1)
    OBVIOUS
  <2>2. h = [n \in 0 .. 0 |-> h[n]]
    OBVIOUS
  <2> HIDE DEF h
  <2>3. Loop(h, 0)
    BY <2>1, <2>2
  <2> QED
    BY <2>3
<1>2. ASSUME NEW k \in 1 .. count, k - 1 \in S PROVE k \in S
  <2>1. PICK g : Loop(g, k - 1)
    BY <1>2
  <2> DEFINE h == [n \in 0 .. k |-> IF n = k THEN vunmap_single(g[n - 1], r, v + n - 1)
                                    ELSE g[n]]
  <2>2. \A n \in 0 .. (k - 1) : h[n] = g[n]
    OBVIOUS
  <2>3. \A n \in 0 .. (k - 1) :
          g[n] = IF n = 0 THEN mm ELSE vunmap_single(g[n - 1], r, v + n - 1)
    BY <2>1
  <2>4. \A n \in 0 .. k :
          h[n] = IF n = 0 THEN mm ELSE vunmap_single(h[n - 1], r, v + n - 1)
    <3> TAKE n \in 0 .. k
    <3>1. n # 0 => n - 1 \in 0 .. (k - 1)
      OBVIOUS
    <3>2. CASE n = k
      BY <2>2, <3>1, <3>2
    <3>3. CASE n # k
      <4>1. n \in 0 .. (k - 1)
        BY <3>3
      <4> HIDE DEF h
      <4> QED
        BY <2>2, <2>3, <3>1, <4>1
    <3> QED
      BY <3>2, <3>3
  <2>5. h = [n \in 0 .. k |-> h[n]]
    OBVIOUS
  <2> HIDE DEF h
  <2>6. Loop(h, k)
    BY <2>4, <2>5
  <2> QED
    BY <2>6
<1>3. count \in S
  <2> HIDE DEF S
  <2> QED
    BY <1>1, <1>2, CountUp
<1>4. \E g : Loop(g, count)
  BY <1>3
<1> DEFINE unmapped == CHOOSE g : Loop(g, count)
<1>5. vunmap(mm, r, v, count) = unmapped[count]
  BY DEF vunmap
<1>6. Loop(unmapped, count)
  BY <1>4
<1> HIDE DEF unmapped
<1>7. /\ unmapped[0] = mm
      /\ \A n \in 1 .. count :
           unmapped[n] = vunmap_single(unmapped[n - 1], r, v + n - 1)
  BY <1>6
<1> QED
  BY <1>5, <1>7

\* vunmap clears the entries of its region, whether or not it is mapped.
LEMMA VunmapStep ==
  ASSUME NEW mm \in Memory, NEW r, NEW lvl, ~mm.panicked => Levelled(mm, lvl, r),
         NEW v \in Nat, NEW count \in Nat
  PROVE  RangeUnmapped(mm, lvl, vunmap(mm, r, v, count), r, v, count)
<1>1. PICK g : /\ g[0] = mm
               /\ \A n \in 1 .. count : g[n] = vunmap_single(g[n - 1], r, v + n - 1)
               /\ vunmap(mm, r, v, count) = g[count]
  BY VunmapLoop
<1> DEFINE S == {n \in 0 .. count : RangeUnmapped(mm, lvl, g[n], r, v, n)}
<1>2. 0 \in S
  <2>1. Run(v, 0) = {}
    BY DEF Run
  <2>2. RangeUnmapped(mm, lvl, g[0], r, v, 0)
    BY <1>1, <2>1 DEF RangeUnmapped
  <2> QED
    BY <2>2
<1>3. ASSUME NEW n \in 1 .. count, n - 1 \in S PROVE n \in S
  <2> DEFINE m1 == g[n - 1]
             m2 == g[n]
             a == v + n - 1
  <2>1. RangeUnmapped(mm, lvl, m1, r, v, n - 1)
    BY <1>3
  <2>2. a \in Nat /\ m2 = vunmap_single(m1, r, a)
    BY <1>1
  <2> HIDE DEF m1, m2, a
  <2>3. RangeUnmapped(m1, lvl, m2, r, a, 1)
    <3>1. m1 \in Memory /\ (~m1.panicked => Levelled(m1, lvl, r))
      BY <2>1 DEF RangeUnmapped
    <3> QED
      BY <2>2, <3>1, VunmapSingleStep
  <2>4. \A w \in Int : /\ w \in Run(v, n) <=> w = a \/ w \in Run(v, n - 1)
                       /\ w \in Run(a, 1) <=> w = a
    BY DEF Run, a
  <2>5. ASSUME ~m2.panicked
        PROVE  /\ Levelled(m2, lvl, r) /\ m2.used = mm.used
               /\ \A w \in 0 .. (Limit - 1) :
                    Walk(m2, r, w) = IF w \in Run(v, n) THEN 0 ELSE Walk(mm, r, w)
    <3>1. ~m1.panicked
      BY <2>3, <2>5 DEF RangeUnmapped
    <3> QED
      BY <2>1, <2>3, <2>4, <2>5, <3>1 DEF RangeUnmapped
  <2>6. ASSUME ~m2.panicked, \A w \in Run(v, n) : w < Limit => L3Table(mm, r, w) = 0
        PROVE  m2 = mm
    <3>1. ~m1.panicked
      BY <2>3, <2>6 DEF RangeUnmapped
    <3>2. Run(v, n - 1) \subseteq Run(v, n) /\ Run(a, 1) \subseteq Run(v, n)
      BY DEF Run, a
    <3>3. m1 = mm
      BY <2>1, <2>6, <3>1, <3>2 DEF RangeUnmapped
    <3> QED
      BY <2>3, <2>6, <3>2, <3>3 DEF RangeUnmapped
  <2>7. RangeUnmapped(mm, lvl, m2, r, v, n)
    BY <2>1, <2>3, <2>5, <2>6 DEF RangeUnmapped
  <2> QED
    BY <2>7 DEF m2
<1>4. count \in S
  <2> HIDE DEF S
  <2> QED
    BY <1>2, <1>3, CountUp
<1> QED
  BY <1>1, <1>4

-----------------------------------------------------------------------------
\* The locals of measure_contiguous_region_helper, and whether the loop has
\* begun.
Measured(s, begun) ==
  /\ DOMAIN s = {"len", "allocated", "returned"}
  /\ s.len \in Nat
  /\ s.returned = NoRegion \/ s.returned.len \in Nat \ {0}
  /\ begun => s.len # 0 \/ s.returned # NoRegion

\* An iteration makes the region longer or returns.
LEMMA MeasureEntryStep ==
  ASSUME NEW s, NEW begun, Measured(s, begun), NEW found, found.len \in Nat,
         NEW partly, partly => found.len # 0,
         NEW page_size \in Nat \ {0}, NEW max_free
  PROVE  Measured(MeasureEntry(s, found, partly, page_size, max_free), TRUE)
<1> DEFINE s2 == MeasureEntry(s, found, partly, page_size, max_free)
           len == s.len + page_size
<1>1. s.len \in Nat /\ (s.returned = NoRegion \/ s.returned.len \in Nat \ {0})
  BY DEF Measured
<1>2. CASE s.returned # NoRegion
  <2>1. s2 = s
    BY <1>2 DEF MeasureEntry
  <2> QED
    BY <1>1, <1>2, <2>1 DEF Measured
<1>3. CASE s.returned = NoRegion /\ s.len # 0 /\ s.allocated # found.allocated
  <2>1. s2 = [s EXCEPT !.returned = Region(s.allocated, s.len)]
    BY <1>3 DEF MeasureEntry
  <2> QED
    BY <1>1, <1>3, <2>1 DEF Measured, Region, NoRegion
<1>4. CASE /\ s.returned = NoRegion /\ ~(s.len # 0 /\ s.allocated # found.allocated)
           /\ partly
  <2>1. s2 = [s EXCEPT !.returned = Region(found.allocated, s.len + found.len)]
    BY <1>4 DEF MeasureEntry
  <2>2. s.len + found.len \in Nat \ {0} /\ s.len + found.len # -1
    BY <1>1, <1>4
  <2> QED
    BY <1>1, <2>1, <2>2 DEF Measured, Region, NoRegion
<1>5. CASE /\ s.returned = NoRegion /\ ~(s.len # 0 /\ s.allocated # found.allocated)
           /\ ~partly
  <2>1. s2 = [len |-> len, allocated |-> found.allocated,
              returned |-> IF ~found.allocated /\ len >= max_free
                           THEN Region(FALSE, len) ELSE NoRegion]
    BY <1>5 DEF MeasureEntry
  <2>2. len \in Nat \ {0}
    BY <1>1
  <2> HIDE DEF s2, len
  <2>3. /\ DOMAIN s2 = {"len", "allocated", "returned"} /\ s2.len = len
        /\ s2.returned = NoRegion \/ s2.returned = Region(FALSE, len)
    BY <2>1, Zenon
  <2>4. Region(FALSE, len).len = len
    BY DEF Region
  <2>5. Measured(s2, TRUE)
    BY <2>2, <2>3, <2>4, Zenon DEF Measured
  <2> QED
    BY <2>5, Zenon DEF s2
<1> QED
  BY <1>2, <1>3, <1>4, <1>5, Zenon

\* What the loop of the helper computes, entry by entry.
Measurement(g, first, page_size, max_free, found, partly) ==
  /\ g[first] = [len |-> 0, allocated |-> FALSE, returned |-> NoRegion]
  /\ \A i \in (first + 1) .. R :
       g[i] = MeasureEntry(g[i - 1], found[i - 1], partly[i - 1], page_size, max_free)
  /\ MeasureTable(first, page_size, max_free, found, partly) =
       IF g[R].returned # NoRegion THEN g[R].returned
       ELSE Region(g[R].allocated, g[R].len)

\* The loop of the helper as a function of the entry.
LEMMA MeasureLoop ==
  ASSUME NEW first \in 0 .. R, NEW page_size, NEW max_free, NEW found, NEW partly
  PROVE  \E g : Measurement(g, first, page_size, max_free, found, partly)
<1> DEFINE Start0 == [len |-> 0, allocated |-> FALSE, returned |-> NoRegion]
           Step0(s, i) == MeasureEntry(s, found[i], partly[i], page_size, max_free)
           Loop(g, k) ==
             g = [i \in first .. k |-> IF i = first THEN Start0 ELSE Step0(g[i - 1], i - 1)]
           count == R - first
           S == {k \in 0 .. count : \E g : Loop(g, first + k)}
<1>1. R \in Nat /\ count \in Nat
  BY PageTablesAssumption
<1>2. 0 \in S
  <2> DEFINE h == [i \in first .. first |-> Start0]
  <2>1. \A i \in first .. first : h[i] = IF i = first THEN Start0 ELSE Step0(h[i - 1], i - 1)
    OBVIOUS
  <2>2. h = [i \in first .. first |-> h[i]]
    OBVIOUS
  <2> HIDE DEF h, Start0, Step0
  <2>3. Loop(h, first)
    BY <2>1, <2>2
  <2>4. first + 0 = first
    OBVIOUS
  <2> HIDE DEF Loop
  <2> QED
    BY <1>1, <2>3, <2>4
<1>3. ASSUME NEW k \in 1 .. count, k - 1 \in S PROVE k \in S
  <2> DEFINE e == first + k
  <2>1. e \in (first + 1) .. R /\ first + (k - 1) = e - 1
    BY <1>1
  <2> HIDE DEF Start0, Step0
  <2>2. PICK g : Loop(g, e - 1)
    BY <1>3, <2>1
  <2> HIDE DEF e
  <2> DEFINE h == [i \in first .. e |-> IF i = e THEN Step0(g[i - 1], i - 1) ELSE g[i]]
  <2>3. \A i \in first .. (e - 1) : h[i] = g[i]
    BY <1>1, <2>1
  <2>4. \A i \in first .. (e - 1) :
          g[i] = IF i = first THEN Start0 ELSE Step0(g[i - 1], i - 1)
    BY <2>2, Zenon
  <2>5. \A i \in first .. e : h[i] = IF i = first THEN Start0 ELSE Step0(h[i - 1], i - 1)
    <3> TAKE i \in first .. e
    <3>1. i # first => i - 1 \in first .. (e - 1)
      BY <1>1, <2>1
    <3>2. CASE i = e
      BY <1>1, <2>1, <2>3, <3>1, <3>2
    <3>3. CASE i # e
      <4>1. i \in first .. (e - 1)
        BY <1>1, <2>1, <3>3
      <4> HIDE DEF h
      <4> QED
        BY <2>3, <2>4, <3>1, <4>1
    <3> QED
      BY <3>2, <3>3
  <2>6. h = [i \in first .. e |-> h[i]]
    OBVIOUS
  <2> HIDE DEF h
  <2>7. Loop(h, e)
    BY <2>5, <2>6
  <2> HIDE DEF Loop
  <2> QED
    BY <2>7 DEF e
<1>4. count \in S
  <2> HIDE DEF S
  <2> QED
    BY <1>1, <1>2, <1>3, CountUp
<1>5. \E g : Loop(g, R)
  <2>1. first + count = R
    BY <1>1
  <2> HIDE DEF Loop
  <2> QED
    BY <1>4, <2>1
<1> DEFINE loop == CHOOSE g : Loop(g, R)
<1>6. MeasureTable(first, page_size, max_free, found, partly) =
        IF loop[R].returned # NoRegion THEN loop[R].returned
        ELSE Region(loop[R].allocated, loop[R].len)
  BY DEF MeasureTable
<1>7. Loop(loop, R)
  BY <1>5, Zenon
<1> HIDE DEF loop, Start0, Step0
<1>8. /\ loop[first] = Start0
      /\ \A i \in (first + 1) .. R : loop[i] = Step0(loop[i - 1], i - 1)
  BY <1>1, <1>7
<1> QED
  BY <1>6, <1>8 DEF Start0, Step0, Measurement

\* The helper returns a region of at least one page, if each entry it goes
\* into has one.
LEMMA MeasureTableLen ==
  ASSUME NEW first \in Entries, NEW page_size \in Nat \ {0}, NEW max_free,
         NEW found, NEW partly,
         \A i \in first .. (R - 1) :
           found[i].len \in Nat /\ (partly[i] => found[i].len # 0)
  PROVE  MeasureTable(first, page_size, max_free, found, partly).len \in Nat \ {0}
<1>1. R \in Nat \ {0} /\ first \in 0 .. R /\ first \in 0 .. (R - 1)
  BY PageTablesAssumption DEF Entries
<1>2. PICK g : Measurement(g, first, page_size, max_free, found, partly)
  BY <1>1, MeasureLoop
<1> DEFINE count == R - first
           S == {k \in 0 .. count : Measured(g[first + k], k # 0)}
<1>3. count \in Nat \ {0} /\ first + count = R
  BY <1>1
<1>4. 0 \in S
  <2>1. g[first + 0] = [len |-> 0, allocated |-> FALSE, returned |-> NoRegion]
    BY <1>1, <1>2 DEF Measurement
  <2>2. Measured(g[first + 0], FALSE)
    BY <2>1 DEF Measured
  <2>3. Measured(g[first + 0], 0 # 0)
    BY <2>2 DEF Measured
  <2>4. 0 \in 0 .. count
    BY <1>3
  <2> QED
    BY <2>3, <2>4
<1>5. ASSUME NEW k \in 1 .. count, k - 1 \in S PROVE k \in S
  <2> DEFINE e == first + k
  <2>1. e \in (first + 1) .. R /\ e - 1 \in first .. (R - 1) /\ first + (k - 1) = e - 1
    BY <1>1, <1>3
  <2>2. Measured(g[e - 1], k - 1 # 0)
    BY <1>5, <2>1
  <2> HIDE DEF e
  <2>3. g[e] = MeasureEntry(g[e - 1], found[e - 1], partly[e - 1], page_size, max_free)
    BY <1>2, <2>1 DEF Measurement
  <2>4. Measured(g[e], TRUE)
    <3>1. found[e - 1].len \in Nat /\ (partly[e - 1] => found[e - 1].len # 0)
      BY <2>1
    <3> QED
      BY <2>2, <2>3, <3>1, MeasureEntryStep, Zenon
  <2>5. Measured(g[e], k # 0)
    BY <2>4 DEF Measured
  <2> QED
    BY <1>3, <2>5 DEF e
<1>6. count \in S
  <2> HIDE DEF S
  <2> QED
    BY <1>3, <1>4, <1>5, CountUp
<1>7. Measured(g[R], TRUE)
  BY <1>3, <1>6 DEF Measured
<1>8. CASE g[R].returned # NoRegion
  BY <1>2, <1>7, <1>8, Zenon DEF Measured, Measurement
<1>9. CASE g[R].returned = NoRegion
  <2>1. Region(g[R].allocated, g[R].len).len = g[R].len
    BY DEF Region
  <2> QED
    BY <1>2, <1>7, <1>9, <2>1 DEF Measured, Measurement
<1> QED
  BY <1>8, <1>9

\* So the regions that find_hole steps over have at least one page.
LEMMA MeasureL2Len ==
  ASSUME NEW mm, NEW t, NEW v \in Nat, NEW max_free
  PROVE  MeasureL2(mm, t, v, max_free).len \in Nat \ {0}
<1> DEFINE entries == L2Index(v) .. (R - 1)
           found == [i \in entries |-> Region(mm.tables[t][i] # 0, 0)]
           partly == [i \in entries |-> FALSE]
<1>1. L2Index(v) \in Entries
  BY Indices
<1>2. \A i \in entries : found[i].len \in Nat /\ (partly[i] => found[i].len # 0)
  BY DEF Region
<1>3. MeasureL2(mm, t, v, max_free) = MeasureTable(L2Index(v), 1, max_free, found, partly)
  BY DEF MeasureL2
<1> HIDE DEF found, partly
<1> QED
  BY <1>1, <1>2, <1>3, MeasureTableLen

\* The same one level up.
LEMMA MeasureL1Len ==
  ASSUME NEW mm, NEW t, NEW v \in Nat, NEW max_free
  PROVE  MeasureL1(mm, t, v, max_free).len \in Nat \ {0}
<1> DEFINE entries == L1Index(v) .. (R - 1)
           At(i) == v + (i - L1Index(v)) * R
           found == [i \in entries |->
                       IF mm.tables[t][i] = 0 THEN Region(FALSE, 0)
                       ELSE MeasureL2(mm, mm.tables[t][i], At(i), max_free)]
           partly == [i \in entries |-> /\ mm.tables[t][i] # 0
                                        /\ found[i].len # R - L2Index(At(i))]
<1>1. L1Index(v) \in Entries /\ R \in Nat \ {0}
  BY Indices, PageTablesAssumption
<1>2. ASSUME NEW i \in entries
      PROVE  found[i].len \in Nat /\ (partly[i] => found[i].len # 0)
  <2>1. At(i) \in Nat
    <3>1. i - L1Index(v) \in Nat
      BY <1>1 DEF Entries
    <3>2. (i - L1Index(v)) * R \in Nat
      BY <1>1, <3>1
    <3> QED
      BY <3>2
  <2>2. MeasureL2(mm, mm.tables[t][i], At(i), max_free).len \in Nat \ {0}
    BY <2>1, MeasureL2Len
  <2>3. found[i] = IF mm.tables[t][i] = 0 THEN Region(FALSE, 0)
                   ELSE MeasureL2(mm, mm.tables[t][i], At(i), max_free)
    OBVIOUS
  <2>4. partly[i] => mm.tables[t][i] # 0
    OBVIOUS
  <2>5. Region(FALSE, 0).len = 0
    BY DEF Region
  <2> HIDE DEF found, partly, At
  <2>6. CASE mm.tables[t][i] = 0
    <3>1. found[i] = Region(FALSE, 0) /\ ~partly[i]
      BY <2>3, <2>4, <2>6
    <3>2. found[i].len = 0
      BY <2>5, <3>1, Zenon
    <3>3. found[i].len \in Nat
      BY <3>2
    <3>4. partly[i] => found[i].len # 0
      BY <3>1
    <3> QED
      BY <3>3, <3>4
  <2>7. CASE mm.tables[t][i] # 0
    BY <2>2, <2>3, <2>7, Zenon
  <2> QED
    BY <2>6, <2>7
<1>3. MeasureL1(mm, t, v, max_free) = MeasureTable(L1Index(v), R, max_free, found, partly)
  BY Zenon DEF MeasureL1
<1> HIDE DEF found, partly
<1> QED
  BY <1>1, <1>2, <1>3, MeasureTableLen

\* The same for the level 0 table.
LEMMA MeasureLen ==
  ASSUME NEW mm, NEW r, NEW v \in Nat, NEW max_free
  PROVE  measure_contiguous_region(mm, r, v, max_free).len \in Nat \ {0}
<1> DEFINE entries == 0 .. (R - 1)
           At(i) == v + i * R * R
           found == [i \in entries |->
                       IF mm.tables[r][i] = 0 THEN Region(FALSE, 0)
                       ELSE MeasureL1(mm, mm.tables[r][i], At(i), max_free)]
           partly == [i \in entries |-> /\ mm.tables[r][i] # 0
                                        /\ found[i].len # (R - L1Index(At(i))) * R]
<1>1. 0 \in Entries /\ R * R \in Nat \ {0} /\ R \in Nat
  BY Indices, PageTablesAssumption
<1>2. ASSUME NEW i \in entries
      PROVE  found[i].len \in Nat /\ (partly[i] => found[i].len # 0)
  <2>1. At(i) \in Nat
    BY <1>1
  <2>2. MeasureL1(mm, mm.tables[r][i], At(i), max_free).len \in Nat \ {0}
    BY <2>1, MeasureL1Len
  <2>3. found[i] = IF mm.tables[r][i] = 0 THEN Region(FALSE, 0)
                   ELSE MeasureL1(mm, mm.tables[r][i], At(i), max_free)
    OBVIOUS
  <2>4. partly[i] => mm.tables[r][i] # 0
    OBVIOUS
  <2>5. Region(FALSE, 0).len = 0
    BY DEF Region
  <2> HIDE DEF found, partly, At
  <2>6. CASE mm.tables[r][i] = 0
    <3>1. found[i] = Region(FALSE, 0) /\ ~partly[i]
      BY <2>3, <2>4, <2>6
    <3>2. found[i].len = 0
      BY <2>5, <3>1, Zenon
    <3>3. found[i].len \in Nat
      BY <3>2
    <3>4. partly[i] => found[i].len # 0
      BY <3>1
    <3> QED
      BY <3>3, <3>4
  <2>7. CASE mm.tables[r][i] # 0
    BY <2>2, <2>3, <2>7, Zenon
  <2> QED
    BY <2>6, <2>7
<1>3. measure_contiguous_region(mm, r, v, max_free) =
        MeasureTable(0, R * R, max_free, found, partly)
  BY DEF measure_contiguous_region
<1> HIDE DEF found, partly
<1> QED
  BY <1>1, <1>2, <1>3, MeasureTableLen

\* What find_hole returns when it starts at v: no address, or one from v on
\* at which it has measured a free region that is long enough.
Hole(mm, r, count, v, w) ==
  \/ w = NoHole
  \/ /\ w \in Nat /\ w >= v /\ w < Limit
     /\ ~measure_contiguous_region(mm, r, w, count).allocated
     /\ measure_contiguous_region(mm, r, w, count).len >= count

\* find_hole ends: each region it steps over takes it nearer to Limit.
LEMMA FindHoleReturns ==
  ASSUME NEW mm, NEW r, NEW start \in Nat, NEW count
  PROVE  Hole(mm, r, count, start, find_hole(mm, r, start, count))
<1> DEFINE Step(v) == measure_contiguous_region(mm, r, v, count).len
           Fits(v) == ~measure_contiguous_region(mm, r, v, count).allocated /\ Step(v) >= count
           Body(g, v) == IF v >= Limit THEN NoHole
                         ELSE IF Fits(v) THEN v ELSE g[v + Step(v)]
           From(k) == {v \in Nat : v >= Limit - k}
           Loop(g, k) == g = [v \in From(k) |-> Body(g, v)]
           S == {k \in 0 .. Limit : \E g : Loop(g, k)}
<1>1. Limit \in Nat
  BY PageTablesAssumption DEF Limit
<1>2. \A v \in Nat : Step(v) \in Nat \ {0}
  BY MeasureLen
<1> HIDE DEF Step, Fits
<1>3. 0 \in S
  <2> DEFINE h == [v \in From(0) |-> NoHole]
  <2>1. \A v \in From(0) : h[v] = Body(h, v)
    BY <1>1
  <2>2. h = [v \in From(0) |-> h[v]]
    OBVIOUS
  <2> HIDE DEF h, Body, From
  <2>3. Loop(h, 0)
    BY <2>1, <2>2
  <2> HIDE DEF Loop
  <2> QED
    BY <1>1, <2>3
<1>4. ASSUME NEW k \in 1 .. Limit, k - 1 \in S PROVE k \in S
  <2> HIDE DEF Body, From
  <2>1. PICK g : Loop(g, k - 1)
    BY <1>4
  <2> DEFINE e == Limit - k
             h == [v \in From(k) |-> IF v = e THEN Body(g, v) ELSE g[v]]
  <2>2. /\ e \in From(k) /\ e \in Nat /\ e < Limit
        /\ \A v \in From(k) : v # e => v \in From(k - 1)
        /\ \A v \in From(k - 1) : v \in From(k) /\ v # e
    BY <1>1 DEF From
  <2>3. \A v \in From(k - 1) : h[v] = g[v]
    BY <2>2
  <2>4. \A v \in From(k - 1) : g[v] = Body(g, v)
    BY <2>1
  <2>5. \A v \in From(k) : v < Limit => v + Step(v) \in From(k - 1)
    BY <1>1, <1>2 DEF From
  <2>6. h[e] = Body(g, e)
    BY <2>2
  <2> HIDE DEF h, e
  <2>7. \A v \in From(k) : Body(g, v) = Body(h, v)
    <3> TAKE v \in From(k)
    <3>1. v \in Nat
      BY DEF From
    <3>2. v < Limit => h[v + Step(v)] = g[v + Step(v)]
      BY <2>3, <2>5
    <3> QED
      BY <1>1, <3>1, <3>2 DEF Body
  <2>8. \A v \in From(k) : h[v] = Body(h, v)
    BY <2>2, <2>3, <2>4, <2>6, <2>7
  <2>9. h = [v \in From(k) |-> h[v]]
    BY DEF h
  <2>10. Loop(h, k)
    BY <2>8, <2>9
  <2> HIDE DEF Loop
  <2> QED
    BY <2>10
<1>5. Limit \in S
  <2> HIDE DEF S
  <2> QED
    BY <1>1, <1>3, <1>4, CountUp
<1>6. From(Limit) = Nat
  BY <1>1
<1> DEFINE All(g) == g = [v \in Nat |-> Body(g, v)]
           from == CHOOSE g : All(g)
<1>7. \E g : All(g)
  <2>1. PICK g : Loop(g, Limit)
    BY <1>5, Zenon
  <2> HIDE DEF From, Body
  <2> QED
    BY <1>6, <2>1
<1>8. find_hole(mm, r, start, count) = from[start]
  BY DEF find_hole, Step, Fits
<1>9. All(from)
  BY <1>7
<1> HIDE DEF from, Body
<1>10. \A v \in Nat : from[v] = Body(from, v)
  BY <1>9
<1> DEFINE T == {k \in 0 .. Limit :
                   \A v \in From(k) : Hole(mm, r, count, v, from[v])}
<1>11. 0 \in T
  <2>1. ASSUME NEW v \in From(0) PROVE Hole(mm, r, count, v, from[v])
    BY <1>1, <1>10, <2>1 DEF Body, Hole
  <2> HIDE DEF From
  <2> QED
    BY <1>1, <2>1
<1>12. ASSUME NEW k \in 1 .. Limit, k - 1 \in T PROVE k \in T
  <2>1. ASSUME NEW v \in From(k) PROVE Hole(mm, r, count, v, from[v])
    <3>1. v \in Nat /\ Step(v) \in Nat \ {0} /\ from[v] = Body(from, v)
      BY <1>2, <1>10
    <3>2. CASE v >= Limit
      BY <3>1, <3>2 DEF Body, Hole
    <3>3. CASE v < Limit /\ Fits(v)
      BY <1>1, <3>1, <3>3 DEF Body, Hole, Fits, Step
    <3>4. CASE v < Limit /\ ~Fits(v)
      <4> DEFINE w == v + Step(v)
      <4>1. w \in From(k - 1) /\ w \in Nat /\ w >= v
        BY <1>1, <3>1, <3>4
      <4>2. from[v] = from[w]
        BY <1>1, <3>1, <3>4 DEF Body
      <4>3. Hole(mm, r, count, w, from[w])
        BY <1>12, <4>1
      <4> HIDE DEF w
      <4> QED
        BY <3>1, <4>1, <4>2, <4>3 DEF Hole
    <3> QED
      BY <1>1, <3>1, <3>2, <3>3, <3>4
  <2> HIDE DEF From
  <2> QED
    BY <2>1
<1>13. Limit \in T
  <2> HIDE DEF T
  <2> QED
    BY <1>1, <1>11, <1>12, CountUp
<1> QED
  BY <1>6, <1>8, <1>13

=============================================================================
