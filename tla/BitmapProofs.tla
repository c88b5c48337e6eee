---------------------------- MODULE BitmapProofs ----------------------------
(***************************************************************************)
(* Proofs about module Bitmap, for every width of a cell and every number  *)
(* of cells: the word-level code computes the operators of module PageSet. *)
(***************************************************************************)
EXTENDS Bitmap, WellFoundedInduction, TLAPS

-----------------------------------------------------------------------------
\* A set of naturals that is not empty has a least element.
LEMMA LeastNat ==
  ASSUME NEW T \in SUBSET Nat, T # {}
  PROVE  \E p \in T : \A q \in T : p <= q
<1> DEFINE Less == {ss \in Nat \X Nat : ss[1] < ss[2]}
<1>1. Less = OpToRel(<, Nat)
  BY Zenon DEF OpToRel
<1>2. IsWellFoundedOn(Less, Nat)
  BY NatLessThanWellFounded, <1>1, Zenon
<1>3. \A a, b \in Nat : a < b => <<a, b>> \in Less
  OBVIOUS
<1> HIDE DEF Less
<1>4. PICK p \in T : \A q \in T : <<q, p>> \notin Less
  BY <1>2, WFMin, Zenon
<1>5. ASSUME NEW q \in T PROVE p <= q
  <2>1. ~(q < p)
    BY <1>3, <1>4, Zenon
  <2> QED BY <2>1
<1> QED BY <1>5

\* Counting up: a set with 0 in it, and with n when it has n - 1, has all.
LEMMA CountUp ==
  ASSUME NEW count \in Nat, NEW S, 0 \in S,
         \A n \in 1 .. count : n - 1 \in S => n \in S
  PROVE  \A n \in 0 .. count : n \in S
<1> DEFINE T == {n \in 0 .. count : n \notin S}
<1>1. SUFFICES ASSUME T # {} PROVE FALSE
  OBVIOUS
<1>2. T \in SUBSET Nat
  OBVIOUS
<1>3. \A n \in 0 .. count : n \in T <=> n \notin S
  OBVIOUS
<1>4. T \subseteq 0 .. count
  OBVIOUS
<1> HIDE DEF T
<1>5. PICK k \in T : \A j \in T : k <= j
  BY <1>1, <1>2, LeastNat
<1>6. k \in 1 .. count /\ k \notin S
  BY <1>3, <1>4
<1>7. k - 1 \in 0 .. count /\ ~(k <= k - 1)
  BY <1>6
<1>8. k - 1 \in S
  BY <1>3, <1>5, <1>7
<1> QED
  BY <1>6, <1>8

\* The quotient and the remainder of a division, and that there are no others.
LEMMA Quotient ==
  ASSUME NEW a \in Int, NEW b \in Nat \ {0}
  PROVE  /\ a \div b \in Int /\ a % b \in 0 .. (b - 1)
         /\ a = (b * (a \div b)) + (a % b)
OBVIOUS

\* The next multiple of b is at most any larger one.
LEMMA TimesNext ==
  ASSUME NEW b \in Nat \ {0}, NEW x \in Int, NEW y \in Int, x < y
  PROVE  (b * x) + b <= b * y
OBVIOUS

\* A quotient and a remainder in range are the ones of \div and %.
LEMMA DivMod ==
  ASSUME NEW a \in Int, NEW b \in Nat \ {0}, NEW q \in Int, NEW r \in 0 .. (b - 1),
         a = (b * q) + r
  PROVE  a \div b = q /\ a % b = r
<1> DEFINE q2 == a \div b
           r2 == a % b
<1>1. a = (b * q2) + r2 /\ q2 \in Int /\ r2 \in 0 .. (b - 1)
  BY Quotient, Zenon
<1> HIDE DEF q2, r2
<1>2. ~(q < q2)
  BY <1>1, TimesNext
<1>3. ~(q2 < q)
  BY <1>1, TimesNext
<1>4. q2 = q
  BY <1>1, <1>2, <1>3
<1>5. r2 = r
  BY <1>1, <1>4
<1> QED
  BY <1>4, <1>5 DEF q2, r2

-----------------------------------------------------------------------------

\* The arrays a call may meet, and the numbers of their bits.
Arrays == [Cells -> SUBSET Bits]
Pages == 0 .. (bit_capacity - 1)

\* The values a loop goes through: step[n] is what its n-th pass does.
Iterates(g, V, count, start, step) ==
  /\ g \in [0 .. count -> V]
  /\ g[0] = start
  /\ \A n \in 1 .. count : g[n] = step[n][g[n - 1]]

(***************************************************************************)
(* A loop that turns a value of V into the next one has a value after each *)
(* number of passes.                                                       *)
(***************************************************************************)
LEMMA Passes ==
  ASSUME NEW V, NEW count \in Nat, NEW start \in V,
         NEW step \in [1 .. count -> [V -> V]]
  PROVE  \E g : Iterates(g, V, count, start, step)
<1> DEFINE Loop(g, k) ==
             g[0] = start /\ \A n \in 1 .. k : g[n] = step[n][g[n - 1]]
           S == {k \in 0 .. count : \E g \in [0 .. k -> V] : Loop(g, k)}
<1>1. 0 \in S
  <2> DEFINE h == [n \in 0 .. 0 |-> start]
  <2>1. h \in [0 .. 0 -> V] /\ Loop(h, 0)
    OBVIOUS
  <2> HIDE DEF h, Loop
  <2> QED
    BY <2>1
<1>2. ASSUME NEW k \in 1 .. count, k - 1 \in S PROVE k \in S
  <2>1. PICK g \in [0 .. (k - 1) -> V] : Loop(g, k - 1)
    BY <1>2
  <2> DEFINE h == [n \in 0 .. k |-> IF n = k THEN step[k][g[k - 1]] ELSE g[n]]
  <2>2. h \in [0 .. k -> V]
    <3>1. step[k][g[k - 1]] \in V
      OBVIOUS
    <3> QED
      BY <3>1
  <2>3. h[k] = step[k][g[k - 1]] /\ \A n \in 0 .. (k - 1) : h[n] = g[n]
    OBVIOUS
  <2> HIDE DEF h
  <2>4. Loop(h, k)
    <3>1. h[0] = start
      BY <2>1, <2>3
    <3>2. ASSUME NEW n \in 1 .. k PROVE h[n] = step[n][h[n - 1]]
      <4>1. n - 1 \in 0 .. (k - 1) /\ h[n - 1] = g[n - 1]
        BY <2>3
      <4>2. CASE n = k
        BY <2>3, <4>1, <4>2
      <4>3. CASE n # k
        <5>1. n \in 1 .. (k - 1) /\ n \in 0 .. (k - 1)
          BY <4>3
        <5> QED
          BY <2>1, <2>3, <4>1, <5>1
      <4> QED
        BY <4>2, <4>3
    <3> QED
      BY <3>1, <3>2
  <2> HIDE DEF Loop
  <2> QED
    BY <2>2, <2>4
<1>3. \A n \in 0 .. count : n \in S
  <2> HIDE DEF S
  <2> QED
    BY <1>1, <1>2, CountUp, Zenon
<1>4. count \in S
  BY <1>3
<1> QED
  BY <1>4 DEF Iterates

\* A page has a cell and a bit in it, and a bit of a cell is one page.
LEMMA PageHasBit ==
  ASSUME NEW n \in Pages
  PROVE  /\ n \in Nat /\ n \div WordBits \in Cells /\ n % WordBits \in Bits
         /\ n = (WordBits * (n \div WordBits)) + (n % WordBits)
<1> DEFINE q == n \div WordBits
           b == n % WordBits
<1>1. n \in Nat /\ WordBits \in Nat \ {0} /\ SIZE \in Nat \ {0} /\ n < WordBits * SIZE
  BY BitmapAssumption DEF Pages, bit_capacity
<1>2. q \in Int /\ b \in 0 .. (WordBits - 1) /\ n = (WordBits * q) + b
  BY <1>1, Quotient
<1> HIDE DEF q, b
<1>3. ~(q < 0)
  <2>1. q < 0 => (WordBits * q) + WordBits <= WordBits * 0
    BY <1>1, <1>2, TimesNext
  <2> QED
    BY <1>1, <1>2, <2>1
<1>4. q < SIZE
  <2>1. SIZE < q => (WordBits * SIZE) + WordBits <= WordBits * q
    BY <1>1, <1>2, TimesNext
  <2> QED
    BY <1>1, <1>2, <2>1
<1>5. q \in Cells /\ b \in Bits
  BY <1>1, <1>2, <1>3, <1>4 DEF Cells, Bits
<1> QED
  BY <1>1, <1>2, <1>5 DEF q, b

\* The page of a bit.
LEMMA BitHasPage ==
  ASSUME NEW c \in Cells, NEW b \in Bits
  PROVE  /\ (WordBits * c) + b \in Pages
         /\ ((WordBits * c) + b) \div WordBits = c
         /\ ((WordBits * c) + b) % WordBits = b
<1>1. /\ WordBits \in Nat \ {0} /\ SIZE \in Nat \ {0}
      /\ c \in Nat /\ c < SIZE /\ b \in 0 .. (WordBits - 1)
  BY BitmapAssumption DEF Cells, Bits
<1>2. (WordBits * c) + WordBits <= WordBits * SIZE
  BY <1>1, TimesNext
<1>3. WordBits * c \in Nat /\ bit_capacity = WordBits * SIZE
  BY <1>1 DEF bit_capacity
<1> DEFINE n == (WordBits * c) + b
<1>4. n \in Pages /\ n \in Int
  BY <1>1, <1>2, <1>3 DEF Pages
<1>5. n = (WordBits * c) + b
  OBVIOUS
<1> HIDE DEF n
<1>6. c \in Int
  BY <1>1
<1>7. n \div WordBits = c /\ n % WordBits = b
  BY <1>1, <1>4, <1>5, <1>6, DivMod, Zenon
<1> QED
  BY <1>4, <1>7 DEF n

\* Two arrays that agree on a page: what a write does to a single one.
Written(bm, bm2, T, value) ==
  /\ bm2 \in Arrays
  /\ \A n \in Pages : get(bm2, n) = IF n \in T THEN value ELSE get(bm, n)

\* set writes its bit and no other.
LEMMA SetWrites ==
  ASSUME NEW bm \in Arrays, NEW idx \in Pages, NEW value \in BOOLEAN
  PROVE  Written(bm, set(bm, idx, value), {idx}, value)
<1> DEFINE c == idx \div WordBits
           b == idx % WordBits
           new == IF value THEN bm[c] \cup {b} ELSE bm[c] \ {b}
           bm2 == set(bm, idx, value)
<1>1. c \in Cells /\ b \in Bits /\ idx = (WordBits * c) + b
  BY PageHasBit
<1>2. bm2 = [bm EXCEPT ![c] = new]
  BY DEF set
<1>3. new \in SUBSET Bits /\ (b \in new <=> value)
      /\ \A x : x # b => (x \in new <=> x \in bm[c])
  BY <1>1 DEF Arrays
<1> HIDE DEF new, bm2
<1>4. bm2 \in Arrays /\ bm2[c] = new /\ \A d \in Cells : d # c => bm2[d] = bm[d]
  BY <1>1, <1>2, <1>3 DEF Arrays
<1>5. ASSUME NEW n \in Pages
      PROVE  get(bm2, n) = IF n \in {idx} THEN value ELSE get(bm, n)
  <2> DEFINE d == n \div WordBits
             e == n % WordBits
  <2>1. d \in Cells /\ e \in Bits /\ n = (WordBits * d) + e
    BY PageHasBit
  <2>2. get(bm2, n) = (e \in bm2[d]) /\ get(bm, n) = (e \in bm[d])
    BY DEF get
  <2>3. CASE n = idx
    BY <1>3, <1>4, <2>2, <2>3
  <2>4. CASE n # idx
    <3> HIDE DEF c, b, d, e
    <3>1. ~(d = c /\ e = b)
      BY <1>1, <2>1, <2>4
    <3>2. e \in bm2[d] <=> e \in bm[d]
      BY <1>3, <1>4, <2>1, <3>1
    <3> QED
      BY <2>2, <2>4, <3>2
  <2> QED
    BY <2>3, <2>4
<1> QED
  BY <1>4, <1>5 DEF Written, bm2

-----------------------------------------------------------------------------
\* The pages of the whole-cell loop lie in the run.
LEMMA WholeCellsInside ==
  ASSUME NEW idx \in Nat, NEW count \in Nat, NEW c \in WholeCells(idx, count)
  PROVE  c \in Nat /\ idx <= WordBits * c /\ (WordBits * c) + WordBits <= idx + count
<1> DEFINE W == WordBits
           q == idx \div W
           x == idx % W
           to_boundary == (W - x) % W
           h == HeadPages(idx, count)
           g == (idx + h) \div W
           t == (count - h) \div W
<1>1. W \in Nat \ {0}
  BY BitmapAssumption
<1>2. q \in Int /\ x \in 0 .. (W - 1) /\ idx = (W * q) + x
  BY <1>1, Quotient
<1>3. h = IF to_boundary < count THEN to_boundary ELSE count
  BY DEF HeadPages
<1>4. c \in g .. (g + t - 1)
  BY DEF WholeCells, Run
<1> HIDE DEF W, q, x, h
<1>5. to_boundary = IF x = 0 THEN 0 ELSE W - x
  <2>1. CASE x = 0
    <3>1. W \in Int /\ 1 \in Int /\ 0 \in 0 .. (W - 1) /\ W = (W * 1) + 0
      BY <1>1
    <3>2. W % W = 0
      BY <1>1, <3>1, DivMod, Zenon
    <3>3. W - x = W
      BY <1>1, <2>1
    <3> QED
      BY <2>1, <3>2, <3>3
  <2>2. CASE x # 0
    <3> DEFINE y == W - x
    <3>1. y \in Int /\ 0 \in Int /\ y \in 0 .. (W - 1) /\ y = (W * 0) + y
      BY <1>1, <1>2, <2>2
    <3> HIDE DEF y
    <3>2. y % W = y
      BY <1>1, <3>1, DivMod
    <3> QED
      BY <2>2, <3>2 DEF y
  <2> QED
    BY <2>1, <2>2
<1>6. PICK u \in Int : idx + to_boundary = W * u
  <2>1. CASE x = 0
    <3>1. idx + to_boundary = W * q
      BY <1>1, <1>2, <1>5, <2>1
    <3> QED
      BY <1>2, <3>1
  <2>2. CASE x # 0
    <3>1. W * (q + 1) = (W * q) + W
      BY <1>1, <1>2
    <3>2. q + 1 \in Int /\ idx + to_boundary = W * (q + 1)
      BY <1>1, <1>2, <1>5, <2>2, <3>1
    <3> QED
      BY <3>2
  <2> QED
    BY <2>1, <2>2
<1>7. to_boundary \in Nat
  BY <1>1, <1>2, <1>5
<1> HIDE DEF to_boundary
<1>8. h \in 0 .. count
  BY <1>3, <1>7
<1>9. t \in Int /\ (count - h) % W \in 0 .. (W - 1) /\ count - h = (W * t) + ((count - h) % W)
  <2>1. count - h \in Int
    BY <1>8
  <2> QED
    BY <1>1, <2>1, Quotient, Zenon
<1>10. g \in Int
  <2>1. idx + h \in Int
    BY <1>8
  <2> QED
    BY <1>1, <2>1, Quotient
<1> HIDE DEF t
<1>11. t > 0
  BY <1>4, <1>9, <1>10
<1>12. W <= W * t
  <2>1. (W * 0) + W <= W * t
    BY <1>1, <1>9, <1>11, TimesNext
  <2> QED
    BY <1>1, <2>1
<1>13. h = to_boundary
  <2>1. W * t \in Int /\ count - h >= W * t
    BY <1>1, <1>8, <1>9
  <2>2. h # count
    BY <1>1, <1>12, <2>1
  <2> QED
    BY <1>3, <2>2
<1>14. g = u
  <2> DEFINE z == idx + h
  <2>1. z \in Int /\ 0 \in 0 .. (W - 1) /\ z = (W * u) + 0
    BY <1>1, <1>6, <1>7, <1>13
  <2> HIDE DEF z
  <2>2. z \div W = u
    BY <1>1, <2>1, DivMod, Zenon
  <2> QED
    BY <2>2 DEF z
<1>15. c \in u .. (u + t - 1)
  BY <1>4, <1>14
<1>16. W * u <= W * c
  <2>1. u < c => (W * u) + W <= W * c
    BY <1>1, <1>15, TimesNext
  <2> QED
    BY <1>1, <1>15, <2>1
<1>17. (W * c) + W <= (W * u) + (W * t)
  <2>1. u + t \in Int /\ c \in Int /\ c < u + t
    BY <1>9, <1>15
  <2>2. (W * c) + W <= W * (u + t)
    BY <1>1, <2>1, TimesNext
  <2>3. W * (u + t) = (W * u) + (W * t)
    BY <1>1, <1>9
  <2> QED
    BY <2>2, <2>3
<1>18. W * c \in Int /\ W * u \in Int /\ W * t \in Int /\ c \in Int
  BY <1>1, <1>9, <1>15
<1>19. idx <= W * c /\ (W * c) + W <= idx + count
  BY <1>1, <1>6, <1>7, <1>8, <1>9, <1>13, <1>16, <1>17, <1>18
<1>20. c >= 0
  <2>1. c < 0 => (W * c) + W <= W * 0
    BY <1>1, <1>18, TimesNext
  <2> QED
    BY <1>1, <1>18, <1>19, <2>1
<1> QED
  BY <1>18, <1>19, <1>20 DEF W

\* The runs that a call does not go out of the array with.
Fits(idx, count) == idx \in Nat /\ count \in Nat /\ (count = 0 \/ idx + count <= bit_capacity)

LEMMA RunInside ==
  ASSUME NEW idx, NEW count, Fits(idx, count)
  PROVE  /\ Run(idx, count) \subseteq Pages
         /\ WholeCells(idx, count) \subseteq Cells
         /\ \A c \in WholeCells(idx, count), b \in Bits :
              (WordBits * c) + b \in Run(idx, count)
         /\ \A n \in Pages :
              n \div WordBits \in WholeCells(idx, count) => n \in Run(idx, count)
<1>1. WordBits \in Nat \ {0} /\ SIZE \in Nat /\ bit_capacity = WordBits * SIZE
  BY BitmapAssumption DEF bit_capacity
<1>2. Run(idx, count) \subseteq Pages
  BY <1>1 DEF Fits, Run, Pages
<1>3. ASSUME NEW c \in WholeCells(idx, count)
      PROVE  /\ c \in Cells
             /\ \A b \in Bits : (WordBits * c) + b \in Run(idx, count)
  <2>1. c \in Nat /\ idx <= WordBits * c /\ (WordBits * c) + WordBits <= idx + count
    BY WholeCellsInside DEF Fits
  <2>2. WordBits * c \in Nat
    BY <1>1, <2>1
  <2>3. (WordBits * c) + WordBits <= WordBits * SIZE
    BY <1>1, <2>1, <2>2 DEF Fits
  <2>4. c < SIZE
    <3>1. SIZE < c => (WordBits * SIZE) + WordBits <= WordBits * c
      BY <1>1, <2>1, TimesNext
    <3> QED
      BY <1>1, <2>1, <2>2, <2>3, <3>1
  <2>5. c \in Cells
    BY <1>1, <2>1, <2>4 DEF Cells
  <2>6. ASSUME NEW b \in Bits PROVE (WordBits * c) + b \in Run(idx, count)
    BY <1>1, <2>1, <2>2 DEF Fits, Bits, Run
  <2> QED
    BY <2>5, <2>6
<1>4. ASSUME NEW n \in Pages, n \div WordBits \in WholeCells(idx, count)
      PROVE  n \in Run(idx, count)
  <2>1. n % WordBits \in Bits /\ n = (WordBits * (n \div WordBits)) + (n % WordBits)
    BY PageHasBit
  <2>2. (WordBits * (n \div WordBits)) + (n % WordBits) \in Run(idx, count)
    BY <1>3, <1>4, <2>1
  <2> QED
    BY <2>1, <2>2
<1> QED
  BY <1>2, <1>3, <1>4

-----------------------------------------------------------------------------
(***************************************************************************)
(* The loops of mark_allocated and free write each page of the run once.   *)
(***************************************************************************)
LEMMA LoopsWrite ==
  ASSUME NEW bm \in Arrays, NEW idx, NEW count, Fits(idx, count),
         NEW value \in BOOLEAN
  PROVE  Written(bm, WriteLoops(bm, idx, count, value), Run(idx, count), value)
<1> DEFINE whole == WholeCells(idx, count)
           single == SinglePages(idx, count)
           fill == IF value THEN Bits ELSE {}
           start == [c \in Cells |-> IF c \notin whole THEN bm[c]
                                    ELSE IF value THEN Bits ELSE {}]
           Pass(a, n) == IF idx + n - 1 \in single THEN set(a, idx + n - 1, value) ELSE a
           Loop(g) == g = [n \in 0 .. count |-> IF n = 0 THEN start ELSE Pass(g[n - 1], n)]
           loop == CHOOSE g : Loop(g)
<1>1. WriteLoops(bm, idx, count, value) = loop[count]
  BY DEF WriteLoops
<1>2. idx \in Nat /\ count \in Nat /\ Run(idx, count) \subseteq Pages
  BY RunInside DEF Fits
<1>3. single \subseteq Run(idx, count)
  BY DEF SinglePages
<1>4. start \in Arrays
  BY DEF Arrays
<1>5. \A n \in Pages : get(start, n) = IF n \div WordBits \in whole THEN value ELSE get(bm, n)
  <2> TAKE n \in Pages
  <2>1. n \div WordBits \in Cells /\ n % WordBits \in Bits
    BY PageHasBit
  <2>2. get(start, n) = (n % WordBits \in start[n \div WordBits])
    BY DEF get
  <2>3. get(bm, n) = (n % WordBits \in bm[n \div WordBits])
    BY DEF get
  <2>4. CASE n \div WordBits \in whole
    <3>1. start[n \div WordBits] = fill
      BY <2>1, <2>4
    <3>2. (n % WordBits \in fill) = value
      BY <2>1
    <3> QED
      BY <2>2, <2>4, <3>1, <3>2
  <2>5. CASE n \div WordBits \notin whole
    <3>1. start[n \div WordBits] = bm[n \div WordBits]
      BY <2>1, <2>5
    <3> QED
      BY <2>2, <2>3, <2>5, <3>1
  <2> QED
    BY <2>4, <2>5
<1>6. ASSUME NEW a \in Arrays, NEW n \in 1 .. count
      PROVE  Written(a, Pass(a, n), {idx + n - 1} \cap single, value)
  <2>1. CASE idx + n - 1 \in single
    <3>1. idx + n - 1 \in Pages
      BY <1>2, <1>3, <2>1
    <3>2. Written(a, set(a, idx + n - 1, value), {idx + n - 1}, value)
      BY <3>1, SetWrites
    <3>3. {idx + n - 1} \cap single = {idx + n - 1}
      BY <2>1
    <3> QED
      BY <2>1, <3>2, <3>3
  <2>2. CASE idx + n - 1 \notin single
    <3>1. {idx + n - 1} \cap single = {} /\ Pass(a, n) = a
      BY <2>2
    <3> QED
      BY <3>1 DEF Written
  <2> QED
    BY <2>1, <2>2
<1> HIDE DEF start, Pass, single, whole
<1>7. \E g : Loop(g)
  <2> DEFINE step == [n \in 1 .. count |-> [a \in Arrays |-> Pass(a, n)]]
  <2>1. step \in [1 .. count -> [Arrays -> Arrays]]
    BY <1>6 DEF Written
  <2>2. \A n \in 1 .. count : \A a \in Arrays : step[n][a] = Pass(a, n)
    OBVIOUS
  <2> HIDE DEF step
  <2>3. PICK g : Iterates(g, Arrays, count, start, step)
    BY <1>2, <1>4, <2>1, Passes
  <2>4. ASSUME NEW n \in 0 .. count
        PROVE  g[n] = IF n = 0 THEN start ELSE Pass(g[n - 1], n)
    <3>1. CASE n = 0
      BY <2>3, <3>1 DEF Iterates
    <3>2. CASE n # 0
      <4>1. n \in 1 .. count /\ n - 1 \in 0 .. count
        BY <1>2, <3>2
      <4>2. g[n - 1] \in Arrays
        BY <2>3, <4>1 DEF Iterates
      <4> QED
        BY <2>2, <2>3, <3>2, <4>1, <4>2 DEF Iterates
    <3> QED
      BY <3>1, <3>2
  <2>5. Loop(g)
    BY <2>3, <2>4 DEF Iterates
  <2> HIDE DEF Loop
  <2> QED
    BY <2>5
<1>8. Loop(loop)
  <2> HIDE DEF Loop
  <2> QED
    BY <1>7
<1> HIDE DEF loop
<1>9. loop[0] = start /\ \A n \in 1 .. count : loop[n] = Pass(loop[n - 1], n)
  BY <1>2, <1>8
<1> DEFINE Done(k) == {n \in Pages : \/ n \div WordBits \in whole
                                     \/ n \in single /\ n < idx + k}
           S == {k \in 0 .. count : Written(bm, loop[k], Done(k), value)}
<1>10. 0 \in S
  <2>1. \A n \in Pages : n \in Done(0) <=> n \div WordBits \in whole
    BY <1>2, <1>3 DEF Run, Pages
  <2> HIDE DEF Done
  <2>2. Written(bm, loop[0], Done(0), value)
    BY <1>4, <1>5, <1>9, <2>1 DEF Written
  <2> QED
    BY <1>2, <2>2
<1>11. ASSUME NEW k \in 1 .. count, k - 1 \in S PROVE k \in S
  <2> DEFINE p == idx + k - 1
  <2>1. Written(bm, loop[k - 1], Done(k - 1), value)
    BY <1>11
  <2>2. Written(loop[k - 1], loop[k], {p} \cap single, value)
    BY <1>6, <1>9, <2>1 DEF Written
  <2>3. \A n \in Pages : n \in Done(k) <=> n \in Done(k - 1) \/ n \in {p} \cap single
    BY <1>2 DEF Pages
  <2> HIDE DEF Done
  <2>4. Written(bm, loop[k], Done(k), value)
    BY <2>1, <2>2, <2>3 DEF Written
  <2> QED
    BY <1>2, <2>4
<1>12. \A k \in 0 .. count : k \in S
  <2> HIDE DEF S
  <2> QED
    BY <1>2, <1>10, <1>11, CountUp
<1>13. Written(bm, loop[count], Done(count), value)
  <2>1. count \in 0 .. count
    BY <1>2
  <2>2. count \in S
    BY <1>12, <2>1, Zenon
  <2> HIDE DEF Done
  <2> QED
    BY <2>2, Zenon
<1>14. \A n \in Pages : n \in Done(count) <=> n \in Run(idx, count)
  <2> TAKE n \in Pages
  <2>1. n \div WordBits \in whole => n \in Run(idx, count)
    BY RunInside DEF whole
  <2>2. n \in single <=> n \in Run(idx, count) /\ n \div WordBits \notin whole
    BY DEF SinglePages, single, whole
  <2>3. n \in Run(idx, count) => n < idx + count
    BY <1>2 DEF Run
  <2> QED
    BY <2>1, <2>2, <2>3
<1> HIDE DEF Done
<1> QED
  BY <1>1, <1>13, <1>14 DEF Written

\* An array in which the pages of a run, and no other, are marked.
LEMMA WrittenIsMarked ==
  ASSUME NEW bm, NEW bm2, NEW idx, NEW count, Fits(idx, count),
         \A n \in Pages : get(bm2, n) <=> n \in Run(idx, count) \/ get(bm, n)
  PROVE  Marked(bm2) = Mark(Marked(bm), idx, count)
<1>1. Run(idx, count) \subseteq Pages
  BY RunInside
<1>2. \A a, n : n \in Marked(a) <=> n \in Pages /\ get(a, n)
  BY DEF Marked, Pages
<1>3. \A n : n \in Marked(bm2) <=> n \in Mark(Marked(bm), idx, count)
  BY <1>1, <1>2 DEF Mark
<1> QED
  BY <1>3

\* An array in which the pages of a run, and no other, are cleared.
LEMMA WrittenIsCleared ==
  ASSUME NEW bm, NEW bm2, NEW idx, NEW count, Fits(idx, count),
         \A n \in Pages : get(bm2, n) <=> n \notin Run(idx, count) /\ get(bm, n)
  PROVE  Marked(bm2) = Clear(Marked(bm), idx, count)
<1>1. \A a, n : n \in Marked(a) <=> n \in Pages /\ get(a, n)
  BY DEF Marked, Pages
<1>2. \A n : n \in Marked(bm2) <=> n \in Clear(Marked(bm), idx, count)
  BY <1>1 DEF Clear
<1> QED
  BY <1>2

\* mark_allocated and free as functions on sets of pages.
LEMMA LoopsMark ==
  ASSUME NEW bm \in Arrays, NEW idx, NEW count, Fits(idx, count)
  PROVE  /\ Marked(mark_allocated(bm, idx, count)) = Mark(Marked(bm), idx, count)
         /\ Marked(free(bm, idx, count)) = Clear(Marked(bm), idx, count)
<1>1. PICK bm1 : bm1 = mark_allocated(bm, idx, count)
  OBVIOUS
<1>2. PICK bm2 : bm2 = free(bm, idx, count)
  OBVIOUS
<1>3. TRUE \in BOOLEAN /\ FALSE \in BOOLEAN
  OBVIOUS
<1>4. Written(bm, bm1, Run(idx, count), TRUE)
  BY <1>1, <1>3, LoopsWrite, Zenon DEF mark_allocated
<1>5. Written(bm, bm2, Run(idx, count), FALSE)
  BY <1>2, <1>3, LoopsWrite, Zenon DEF free
<1>6. \A n \in Pages : get(bm1, n) <=> n \in Run(idx, count) \/ get(bm, n)
  BY <1>4, Zenon DEF Written
<1>7. \A n \in Pages : get(bm2, n) <=> n \notin Run(idx, count) /\ get(bm, n)
  BY <1>5, Zenon DEF Written
<1>8. Marked(bm1) = Mark(Marked(bm), idx, count)
  BY <1>6, WrittenIsMarked
<1>9. Marked(bm2) = Clear(Marked(bm), idx, count)
  BY <1>7, WrittenIsCleared
<1> QED
  BY <1>1, <1>2, <1>8, <1>9

\* The assertions of the loops look at each page of the run.
LEMMA LoopsAssert ==
  ASSUME NEW bm \in Arrays, NEW idx, NEW count, Fits(idx, count)
  PROVE  /\ double_alloc(bm, idx, count) <=> DoubleAlloc(Marked(bm), idx, count)
         /\ double_free(bm, idx, count) <=> DoubleFree(Marked(bm), idx, count)
<1> DEFINE run == Run(idx, count)
           whole == WholeCells(idx, count)
<1>1. /\ run \subseteq Pages /\ whole \subseteq Cells
      /\ \A c \in whole, b \in Bits : (WordBits * c) + b \in run
  BY RunInside
<1>2. \A n : n \in Marked(bm) <=> n \in Pages /\ get(bm, n)
  BY DEF Marked, Pages
<1>3. \A n : n \in SinglePages(idx, count) <=> n \in run /\ n \div WordBits \notin whole
  BY DEF SinglePages
<1>4. ASSUME NEW c \in whole
      PROVE  /\ bm[c] # {} <=> \E n \in run : n \div WordBits = c /\ get(bm, n)
             /\ bm[c] # Bits <=> \E n \in run : n \div WordBits = c /\ ~get(bm, n)
  <2>1. c \in Cells /\ bm[c] \subseteq Bits
    BY <1>1 DEF Arrays
  <2>2. ASSUME NEW b \in Bits
        PROVE  \E n \in run : n \div WordBits = c /\ get(bm, n) = (b \in bm[c])
    <3> DEFINE n == (WordBits * c) + b
    <3>1. n \in run /\ n \div WordBits = c /\ n % WordBits = b
      BY <1>1, <2>1, BitHasPage
    <3> HIDE DEF n
    <3>2. get(bm, n) = (b \in bm[c])
      BY <3>1 DEF get
    <3> QED
      BY <3>1, <3>2
  <2>3. ASSUME NEW n \in run, n \div WordBits = c
        PROVE  n % WordBits \in Bits /\ get(bm, n) = (n % WordBits \in bm[c])
    <3>1. n % WordBits \in Bits
      BY <1>1, PageHasBit
    <3> QED
      BY <2>3, <3>1 DEF get
  <2> HIDE DEF run, whole
  <2>4. bm[c] # {} <=> \E n \in run : n \div WordBits = c /\ get(bm, n)
    <3>1. ASSUME bm[c] # {} PROVE \E n \in run : n \div WordBits = c /\ get(bm, n)
      <4>1. PICK b \in Bits : b \in bm[c]
        BY <2>1, <3>1
      <4> QED
        BY <2>2, <4>1, Zenon
    <3> QED
      BY <2>3, <3>1, Zenon
  <2>5. bm[c] # Bits <=> \E n \in run : n \div WordBits = c /\ ~get(bm, n)
    <3>1. ASSUME bm[c] # Bits PROVE \E n \in run : n \div WordBits = c /\ ~get(bm, n)
      <4>1. PICK b \in Bits : b \notin bm[c]
        BY <2>1, <3>1
      <4> QED
        BY <2>2, <4>1, Zenon
    <3> QED
      BY <2>3, <3>1, Zenon
  <2> QED
    BY <2>4, <2>5
<1>5. double_alloc(bm, idx, count) <=> \E n \in run : get(bm, n)
  BY <1>3, <1>4 DEF double_alloc
<1>6. double_free(bm, idx, count) <=> \E n \in run : ~get(bm, n)
  BY <1>3, <1>4 DEF double_free
<1>7. DoubleAlloc(Marked(bm), idx, count) <=> \E n \in run : get(bm, n)
  BY <1>1, <1>2 DEF DoubleAlloc
<1>8. DoubleFree(Marked(bm), idx, count) <=> \E n \in run : ~get(bm, n)
  BY <1>1, <1>2 DEF DoubleFree
<1> QED
  BY <1>5, <1>6, <1>7, <1>8

-----------------------------------------------------------------------------
\* zero_bit_range clears its run.
LEMMA ZeroWrites ==
  ASSUME NEW bm \in Arrays, NEW idx, NEW count, Fits(idx, count)
  PROVE  Written(bm, zero_bit_range(bm, idx, count), Run(idx, count), FALSE)
<1> DEFINE W == WordBits
           end == idx + count
           first == idx \div W
           x == idx % W
           last == end \div W
           y == end % W
           first_whole == (idx + W - 1) \div W
           bm2 == zero_bit_range(bm, idx, count)
<1>1. W \in Nat \ {0} /\ SIZE \in Nat \ {0} /\ idx \in Nat /\ count \in Nat
  BY BitmapAssumption DEF Fits
<1>2. CASE count = 0
  <2>1. Run(idx, count) = {}
    BY <1>1, <1>2 DEF Run
  <2>2. bm2 = bm
    BY <1>2 DEF zero_bit_range
  <2> QED
    BY <2>1, <2>2 DEF Written
<1>3. CASE count # 0
  <2>1. first \in Int /\ x \in 0 .. (W - 1) /\ idx = (W * first) + x
    BY <1>1, Quotient
  <2>2. last \in Int /\ y \in 0 .. (W - 1) /\ end = (W * last) + y /\ end \in Int
    <3>1. end \in Int
      BY <1>1
    <3> QED
      BY <1>1, <3>1, Quotient, Zenon
  <2>3. first_whole = IF x = 0 THEN first ELSE first + 1
    <3> DEFINE z == idx + W - 1
    <3>1. z \in Int
      BY <1>1
    <3>2. CASE x = 0
      <4>1. W - 1 \in 0 .. (W - 1) /\ z = (W * first) + (W - 1)
        <5> HIDE DEF first, x, W
        <5> QED BY <1>1, <2>1, <3>2
      <4> HIDE DEF z
      <4>2. z \div W = first
        BY <1>1, <2>1, <3>1, <4>1, DivMod, Zenon
      <4> QED
        BY <3>2, <4>2 DEF z
    <3>3. CASE x # 0
      <4> DEFINE u == first + 1
                 v == x - 1
      <4>1. u \in Int /\ v \in 0 .. (W - 1) /\ z = (W * u) + v
        <5> HIDE DEF first, x, W
        <5>1. W * (first + 1) = (W * first) + W
          BY <1>1, <2>1
        <5> QED BY <1>1, <2>1, <3>3, <5>1
      <4> HIDE DEF z, u, v
      <4>2. z \div W = u
        BY <1>1, <3>1, <4>1, DivMod
      <4> QED
        BY <3>3, <4>2 DEF z, u
    <3> QED
      BY <3>2, <3>3
  <2>4. idx \in Pages /\ first \in Cells
    <3>1. idx \in Pages
      BY <1>1, <1>3 DEF Fits, Pages, bit_capacity
    <3> QED
      BY <3>1, PageHasBit
  <2>5. \A b \in Bits : (b \in prefix_mask(idx) <=> b < x) /\ (b \in suffix_mask(end) <=> b >= y)
    BY DEF prefix_mask, suffix_mask
  \* What is kept of bit b of cell c.
  <2> DEFINE Kept(c, b) ==
               IF first = last THEN c = first => b < x \/ b >= y
               ELSE /\ c \notin first_whole .. (last - 1)
                    /\ c = first /\ x # 0 => b < x
                    /\ c = last /\ y # 0 /\ ~(c = first /\ x # 0) => b >= y
  <2>6. bm2 \in Arrays /\ \A c \in Cells, b \in Bits : b \in bm2[c] <=> b \in bm[c] /\ Kept(c, b)
    <3>1. CASE first = last
      <4>1. bm2 = [bm EXCEPT ![first] = @ \cap (prefix_mask(idx) \cup suffix_mask(end))]
        BY <1>3, <3>1 DEF zero_bit_range
      <4> HIDE DEF bm2, W, first, last, x, y, end, first_whole
      <4>2. bm2 \in Arrays
        BY <2>4, <4>1 DEF Arrays
      <4>3. ASSUME NEW c \in Cells, NEW b \in Bits
            PROVE  b \in bm2[c] <=> b \in bm[c] /\ Kept(c, b)
        BY <2>4, <2>5, <3>1, <4>1 DEF Arrays
      <4> QED
        BY <4>2, <4>3
    <3>2. CASE first # last
      <4>1. bm2 = [c \in Cells |->
                IF c \in first_whole .. (last - 1) THEN {}
                ELSE IF c = first /\ x # 0 THEN bm[c] \cap prefix_mask(idx)
                ELSE IF c = last /\ y # 0 THEN bm[c] \cap suffix_mask(end)
                ELSE bm[c]]
        BY <1>3, <3>2 DEF zero_bit_range
      <4> HIDE DEF bm2, W, first, last, x, y, end, first_whole
      <4>2. bm2 \in Arrays
        BY <4>1 DEF Arrays
      <4>3. ASSUME NEW c \in Cells, NEW b \in Bits
            PROVE  b \in bm2[c] <=> b \in bm[c] /\ Kept(c, b)
        BY <2>5, <3>2, <4>1
      <4> QED
        BY <4>2, <4>3
    <3> QED
      BY <3>1, <3>2
  <2>7. ASSUME NEW n \in Pages
        PROVE  get(bm2, n) = IF n \in Run(idx, count) THEN FALSE ELSE get(bm, n)
    <3> DEFINE c == n \div W
               b == n % W
    <3>1. n \in Nat /\ c \in Cells /\ b \in Bits /\ n = (W * c) + b
      BY PageHasBit
    <3>2. get(bm2, n) = (b \in bm2[c]) /\ get(bm, n) = (b \in bm[c])
      BY DEF get
    <3>3. n \in Run(idx, count) <=> idx <= n /\ n < end
      BY <1>1, <3>1 DEF Run
    <3> HIDE DEF c, b, W, first, last, x, y, end, first_whole, bm2
    <3>4. Kept(c, b) <=> ~(idx <= n /\ n < end)
      <4>1. c \in Int /\ b \in 0 .. (W - 1)
        BY <3>1 DEF Cells, Bits, W
      <4> DEFINE wc == W * c
                 wf == W * first
                 wl == W * last
      <4>2. /\ c < first => wc + W <= wf
            /\ first < c => wf + W <= wc
            /\ c < last => wc + W <= wl
            /\ last < c => wl + W <= wc
            /\ first < last => wf + W <= wl
            /\ last < first => wl + W <= wf
        BY <1>1, <2>1, <2>2, <4>1, TimesNext
      <4>3. /\ c = first => wc = wf
            /\ c = last => wc = wl
            /\ first = last => wf = wl
        OBVIOUS
      <4>4. wc \in Int /\ wf \in Int /\ wl \in Int
        BY <1>1, <2>1, <2>2, <4>1
      <4>5. n = wc + b /\ idx = wf + x /\ end = wl + y
        BY <2>1, <2>2, <3>1
      <4>6. idx < end
        BY <1>1, <1>3 DEF end
      <4> HIDE DEF wc, wf, wl
      <4>7. ~(last < first)
        BY <1>1, <2>1, <2>2, <4>2, <4>4, <4>5, <4>6
      <4>8. CASE first = last
        BY <1>1, <2>1, <2>2, <4>1, <4>2, <4>3, <4>4, <4>5, <4>6, <4>8
      <4>9. CASE first < last
        BY <1>1, <2>1, <2>2, <2>3, <4>1, <4>2, <4>3, <4>4, <4>5, <4>6, <4>9
      <4> QED
        BY <2>1, <2>2, <4>7, <4>8, <4>9
    <3> HIDE DEF Kept
    <3>5. b \in bm2[c] <=> b \in bm[c] /\ n \notin Run(idx, count)
      <4>1. b \in bm2[c] <=> b \in bm[c] /\ Kept(c, b)
        BY <2>6, <3>1, Zenon
      <4>2. Kept(c, b) <=> n \notin Run(idx, count)
        BY <3>3, <3>4, Zenon
      <4> QED
        BY <4>1, <4>2, Zenon
    <3>6. CASE n \in Run(idx, count)
      <4>1. (b \in bm2[c]) = FALSE
        BY <3>5, <3>6
      <4>2. get(bm2, n) = FALSE
        BY <3>2, <4>1, Zenon
      <4> QED
        BY <3>6, <4>2, Zenon
    <3>7. CASE n \notin Run(idx, count)
      BY <3>2, <3>5, <3>7
    <3> QED
      BY <3>6, <3>7, Zenon
  <2> QED
    BY <2>6, <2>7, Zenon DEF Written
<1> QED
  BY <1>2, <1>3, Zenon

\* zero_bit_range as a function on sets of pages.
LEMMA ZeroClears ==
  ASSUME NEW bm \in Arrays, NEW idx, NEW count, Fits(idx, count)
  PROVE  Marked(zero_bit_range(bm, idx, count)) = Clear(Marked(bm), idx, count)
<1>1. PICK bm2 : bm2 = zero_bit_range(bm, idx, count)
  OBVIOUS
<1>2. Written(bm, bm2, Run(idx, count), FALSE)
  BY <1>1, ZeroWrites, Zenon
<1>3. \A n \in Pages : get(bm2, n) <=> n \notin Run(idx, count) /\ get(bm, n)
  BY <1>2, Zenon DEF Written
<1>4. Marked(bm2) = Clear(Marked(bm), idx, count)
  BY <1>3, WrittenIsCleared
<1> QED
  BY <1>1, <1>4

-----------------------------------------------------------------------------
\* The array once the bits from i on have been copied.
Copied(bm, a, src, dst, count, i) ==
  /\ a \in Arrays
  /\ \A p \in Pages :
       get(a, p) = IF p \in (dst + i) .. (dst + count - 1)
                   THEN get(bm, (p - dst) + src) ELSE get(bm, p)

\* The descending loop copies the bits the array had before it.
LEMMA MoveLoop ==
  ASSUME NEW bm \in Arrays, NEW src \in Nat, NEW dst \in Nat, NEW count \in Nat,
         src < dst, Fits(dst, count)
  PROVE  Copied(bm, move_bit_range_forward(bm, src, dst, count), src, dst, count, 0)
<1> DEFINE Pass(a, i) == set(a, dst + i, get(a, src + i))
           Loop(g) == g = [i \in 0 .. count |-> IF i = count THEN bm ELSE Pass(g[i + 1], i)]
           loop == CHOOSE g : Loop(g)
<1>1. move_bit_range_forward(bm, src, dst, count) = loop[0]
  BY DEF move_bit_range_forward
<1>2. \A i \in 0 .. (count - 1) : dst + i \in Pages /\ src + i \in Pages
  BY BitmapAssumption DEF Fits, Pages, bit_capacity
<1>3. ASSUME NEW a \in Arrays, NEW i \in 0 .. (count - 1)
      PROVE  Written(a, Pass(a, i), {dst + i}, get(a, src + i))
  <2>1. get(a, src + i) \in BOOLEAN
    BY DEF get
  <2> QED
    BY <1>2, <2>1, SetWrites
<1> HIDE DEF Pass
<1>4. \E g : Loop(g)
  <2> DEFINE step == [n \in 1 .. count |-> [a \in Arrays |-> Pass(a, count - n)]]
  <2>1. step \in [1 .. count -> [Arrays -> Arrays]]
    <3>1. ASSUME NEW n \in 1 .. count, NEW a \in Arrays PROVE Pass(a, count - n) \in Arrays
      <4>1. count - n \in 0 .. (count - 1)
        OBVIOUS
      <4> QED
        BY <1>3, <4>1 DEF Written
    <3> QED
      BY <3>1
  <2>2. \A n \in 1 .. count : \A a \in Arrays : step[n][a] = Pass(a, count - n)
    OBVIOUS
  <2> HIDE DEF step
  <2>3. PICK g : Iterates(g, Arrays, count, bm, step)
    BY <2>1, Passes
  <2> DEFINE h == [i \in 0 .. count |-> g[count - i]]
  <2>4. ASSUME NEW i \in 0 .. count
        PROVE  h[i] = IF i = count THEN bm ELSE Pass(h[i + 1], i)
    <3>1. CASE i = count
      <4>1. count - i = 0
        BY <3>1
      <4> QED
        BY <2>3, <3>1, <4>1 DEF Iterates
    <3>2. CASE i # count
      <4> DEFINE n == count - i
      <4>1. n \in 1 .. count /\ n - 1 \in 0 .. count /\ count - n = i /\ i + 1 \in 0 .. count
            /\ count - (i + 1) = n - 1
        BY <3>2
      <4>2. h[i] = g[n] /\ h[i + 1] = g[n - 1]
        BY <4>1
      <4>3. g[n - 1] \in Arrays /\ g[n] = step[n][g[n - 1]]
        BY <2>3, <4>1 DEF Iterates
      <4> HIDE DEF n, h
      <4>4. g[n] = Pass(g[n - 1], i)
        BY <2>2, <4>1, <4>3
      <4> QED
        BY <3>2, <4>2, <4>4
    <3> QED
      BY <3>1, <3>2
  <2>5. h = [i \in 0 .. count |-> h[i]]
    OBVIOUS
  <2> HIDE DEF h
  <2>6. Loop(h)
    BY <2>4, <2>5, Zenon
  <2> HIDE DEF Loop
  <2> QED
    BY <2>6
<1>5. Loop(loop)
  <2> HIDE DEF Loop
  <2> QED
    BY <1>4
<1> HIDE DEF loop
<1>6. loop[count] = bm /\ \A i \in 0 .. (count - 1) : loop[i] = Pass(loop[i + 1], i)
  BY <1>5
<1> DEFINE S == {n \in 0 .. count : Copied(bm, loop[count - n], src, dst, count, count - n)}
<1>7. 0 \in S
  <2>1. count - 0 = count /\ (dst + count) .. (dst + count - 1) = {}
    OBVIOUS
  <2>2. Copied(bm, bm, src, dst, count, count)
    BY <2>1 DEF Copied
  <2> QED
    BY <1>6, <2>1, <2>2
<1>8. ASSUME NEW n \in 1 .. count, n - 1 \in S PROVE n \in S
  <2> DEFINE i == count - n
             a == loop[i + 1]
  <2>1. i \in 0 .. (count - 1) /\ count - (n - 1) = i + 1
    OBVIOUS
  <2>2. Copied(bm, a, src, dst, count, i + 1)
    BY <1>8, <2>1
  <2> HIDE DEF i
  <2>3. Written(a, loop[i], {dst + i}, get(a, src + i))
    BY <1>3, <1>6, <2>1, <2>2 DEF Copied
  <2> HIDE DEF a
  <2>4. get(a, src + i) = get(bm, src + i)
    <3>1. src + i \in Pages /\ src + i \notin (dst + (i + 1)) .. (dst + count - 1)
      BY <1>2, <2>1
    <3> QED
      BY <2>2, <3>1 DEF Copied
  <2>5. ASSUME NEW p \in Pages
        PROVE  get(loop[i], p) = IF p \in (dst + i) .. (dst + count - 1)
                                 THEN get(bm, (p - dst) + src) ELSE get(bm, p)
    <3>1. p \in Int
      BY DEF Pages
    <3>2. CASE p = dst + i
      <4>1. p \in (dst + i) .. (dst + count - 1) /\ (p - dst) + src = src + i
        BY <2>1, <3>2
      <4>2. get(loop[i], p) = get(a, src + i)
        BY <2>3, <3>2 DEF Written
      <4> QED
        BY <2>4, <4>1, <4>2
    <3>3. CASE p # dst + i
      <4>1. p \in (dst + i) .. (dst + count - 1) <=> p \in (dst + (i + 1)) .. (dst + count - 1)
        BY <2>1, <3>1, <3>3
      <4>2. get(loop[i], p) = get(a, p)
        BY <2>3, <3>3 DEF Written
      <4> QED
        BY <2>2, <4>1, <4>2 DEF Copied
    <3> QED
      BY <3>2, <3>3
  <2>6. Copied(bm, loop[i], src, dst, count, i)
    BY <2>3, <2>5 DEF Copied, Written
  <2> QED
    BY <2>6 DEF i
<1>9. \A n \in 0 .. count : n \in S
  <2> HIDE DEF S
  <2> QED
    BY <1>7, <1>8, CountUp
<1>10. count \in S /\ count - count = 0
  BY <1>9
<1> QED
  BY <1>1, <1>10

\* The move as a function on sets of pages.
LEMMA MoveCopies ==
  ASSUME NEW bm \in Arrays, NEW src \in Nat, NEW dst \in Nat, NEW count \in Nat,
         src <= dst, src = dst \/ Fits(dst, count)
  PROVE  /\ move_bit_range_forward(bm, src, dst, count) \in Arrays
         /\ Fits(dst, count) =>
              Marked(move_bit_range_forward(bm, src, dst, count))
                = MoveRun(Marked(bm), src, dst, count)
<1> DEFINE bm2 == move_bit_range_forward(bm, src, dst, count)
<1>1. \A a, n : n \in Marked(a) <=> n \in Pages /\ get(a, n)
  BY DEF Marked, Pages
<1>2. CASE src = dst
  <2>1. bm2 = bm
    BY <1>2 DEF move_bit_range_forward
  <2>2. \A p \in Run(dst, count) : (p - dst) + src = p
    BY <1>2 DEF Run
  <2>3. Marked(bm) = MoveRun(Marked(bm), src, dst, count)
    BY <2>2 DEF MoveRun, Clear
  <2> QED
    BY <2>1, <2>3
<1>3. CASE src # dst
  <2>1. src < dst /\ Fits(dst, count)
    BY <1>3
  <2>2. Copied(bm, bm2, src, dst, count, 0)
    BY <2>1, MoveLoop
  <2>3. Run(dst, count) \subseteq Pages /\ Run(dst, count) = (dst + 0) .. (dst + count - 1)
    BY <2>1, RunInside DEF Run
  <2>4. \A p \in Run(dst, count) : (p - dst) + src \in Pages
    <3> SUFFICES ASSUME NEW p \in Run(dst, count) PROVE (p - dst) + src \in Pages
      BY Zenon
    <3>1. p \in Int /\ dst <= p /\ p < bit_capacity /\ bit_capacity \in Nat
      BY <2>3, BitmapAssumption DEF Run, Pages, bit_capacity
    <3> QED
      BY <2>1, <3>1 DEF Pages
  <2> HIDE DEF bm2
  <2>5. \A p \in Pages : get(bm2, p) = IF p \in Run(dst, count)
                                      THEN get(bm, (p - dst) + src) ELSE get(bm, p)
    BY <2>2, <2>3 DEF Copied
  <2>6. \A p : p \in Marked(bm2) <=> p \in MoveRun(Marked(bm), src, dst, count)
    <3> TAKE p
    <3>1. CASE p \in Run(dst, count)
      <4>1. p \in Marked(bm2) <=> get(bm, (p - dst) + src)
        BY <1>1, <2>3, <2>5, <3>1
      <4>2. (p - dst) + src \in Marked(bm) <=> get(bm, (p - dst) + src)
        BY <1>1, <2>4, <3>1
      <4> QED
        BY <3>1, <4>1, <4>2 DEF MoveRun, Clear
    <3>2. CASE p \notin Run(dst, count)
      <4>1. p \in Marked(bm2) <=> p \in Marked(bm)
        BY <1>1, <2>5, <3>2
      <4> QED
        BY <3>2, <4>1 DEF MoveRun, Clear
    <3> QED
      BY <3>1, <3>2
  <2>7. Marked(bm2) = MoveRun(Marked(bm), src, dst, count)
    BY <2>6, Zenon
  <2>8. bm2 \in Arrays
    BY <2>2 DEF Copied
  <2> QED
    BY <2>7, <2>8 DEF bm2
<1> QED
  BY <1>2, <1>3

-----------------------------------------------------------------------------
\* The locals of find_hole.
Scans == [page_num : Int, hole_count : Int, returned : Int]

(***************************************************************************)
(* find_hole after n pages without an answer: hole_count is the length of  *)
(* the longest run of free pages that ends there, it is too short, and no  *)
(* hole ends before.                                                       *)
(***************************************************************************)
Searching(bm, count, n, s) ==
  /\ s.returned = NoHole
  /\ s.hole_count \in 0 .. n
  /\ count > 0 => s.hole_count < count
  /\ \A p \in (n - s.hole_count) .. (n - 1) : ~get(bm, p)
  /\ s.hole_count # n => get(bm, n - s.hole_count - 1)
  /\ s.hole_count # 0 => s.page_num = n - s.hole_count
  /\ \A q \in Nat : count > 0 /\ q + count <= n => \E p \in Run(q, count) : get(bm, p)

\* find_hole with an answer: the first of the holes.
Found(bm, count, s) ==
  LET holes == Holes(Marked(bm), bit_capacity, count)
  IN  s.returned \in holes /\ \A q \in holes : s.returned <= q

\* What one page of the scan leaves in the locals.
LEMMA ScanPageIs ==
  ASSUME NEW bm, NEW count, NEW m \in Int, NEW s \in Scans
  PROVE  LET s2 == ScanPage(bm, count, m, s)
             first == IF s.hole_count = 0 THEN m ELSE s.page_num
         IN  /\ s2 \in Scans
             /\ s.returned # NoHole => s2 = s
             /\ s.returned = NoHole /\ get(bm, m) => s2.hole_count = 0 /\ s2.returned = NoHole
             /\ s.returned = NoHole /\ ~get(bm, m) =>
                  /\ s2.page_num = first
                  /\ s2.hole_count = s.hole_count + 1
                  /\ s2.returned = IF s.hole_count + 1 = count THEN first ELSE NoHole
<1> DEFINE s2 == ScanPage(bm, count, m, s)
           first == IF s.hole_count = 0 THEN m ELSE s.page_num
           a == s.page_num + s.hole_count
           r == IF s.hole_count + 1 = count THEN first ELSE NoHole
<1>1. /\ first \in Int /\ a \in Int /\ s.hole_count + 1 \in Int /\ s.returned \in Int
      /\ NoHole \in Int
  BY DEF Scans, NoHole
<1> HIDE DEF first
<1>2. r \in Int
  BY <1>1
<1> HIDE DEF r
<1>3. CASE s.returned # NoHole
  BY <1>3 DEF ScanPage
<1>4. CASE s.returned = NoHole /\ get(bm, m)
  <2>1. s2 = [s EXCEPT !.page_num = a, !.hole_count = 0]
    BY <1>4 DEF ScanPage
  <2> HIDE DEF a, s2
  <2>2. s2 = [page_num |-> a, hole_count |-> 0, returned |-> s.returned]
    BY <2>1, Zenon DEF Scans
  <2>3. s2 \in Scans
    BY <1>1, <2>2 DEF Scans
  <2>4. s2.hole_count = 0 /\ s2.returned = NoHole
    BY <1>4, <2>2
  <2> QED
    BY <1>4, <2>3, <2>4 DEF s2
<1>5. CASE s.returned = NoHole /\ ~get(bm, m)
  <2>1. s2 = [page_num |-> first, hole_count |-> s.hole_count + 1, returned |-> r]
    BY <1>5 DEF ScanPage, first, r
  <2> HIDE DEF s2
  <2>2. s2 \in Scans
    BY <1>1, <1>2, <2>1 DEF Scans
  <2>3. s2.page_num = first /\ s2.hole_count = s.hole_count + 1 /\ s2.returned = r
    BY <2>1
  <2> QED
    BY <1>5, <2>2, <2>3 DEF s2, first, r
<1> QED
  BY <1>3, <1>4, <1>5

\* One page of the scan.
LEMMA ScanPageStep ==
  ASSUME NEW bm \in Arrays, NEW count \in Nat, NEW n \in 1 .. bit_capacity,
         NEW s \in Scans,
         Searching(bm, count, n - 1, s) \/ Found(bm, count, s)
  PROVE  LET s2 == ScanPage(bm, count, n - 1, s)
         IN  s2 \in Scans /\ (Searching(bm, count, n, s2) \/ Found(bm, count, s2))
<1> DEFINE s2 == ScanPage(bm, count, n - 1, s)
           m == n - 1
           hc == s.hole_count
           holes == Holes(Marked(bm), bit_capacity, count)
<1>1. bit_capacity \in Nat
  BY BitmapAssumption DEF bit_capacity
<1>2. m \in Nat /\ n = m + 1 /\ m \in Pages
  BY <1>1 DEF Pages
<1>3. \A q : q \in holes <=> /\ q \in Nat /\ count > 0 /\ q + count <= bit_capacity
                            /\ \A p \in Run(q, count) : ~get(bm, p)
  <2> TAKE q
  <2>1. q \in holes <=> /\ q \in Nat /\ count > 0 /\ q + count <= bit_capacity
                        /\ Run(q, count) \cap Marked(bm) = {}
    BY <1>1 DEF Holes
  <2>2. q \in Nat /\ q + count <= bit_capacity => Run(q, count) \subseteq Pages
    BY <1>1 DEF Run, Pages
  <2>3. \A p : p \in Marked(bm) <=> p \in Pages /\ get(bm, p)
    BY DEF Marked, Pages
  <2> QED
    BY <2>1, <2>2, <2>3
<1>4. CASE Found(bm, count, s)
  <2>1. s.returned # NoHole
    BY <1>3, <1>4 DEF Found, NoHole
  <2>2. s2 = s
    BY <2>1 DEF ScanPage
  <2> QED
    BY <1>4, <2>2
<1>5. CASE Searching(bm, count, m, s)
  <2>1. /\ s.returned = NoHole /\ hc \in 0 .. m /\ (count > 0 => hc < count)
        /\ \A p \in (m - hc) .. (m - 1) : ~get(bm, p)
        /\ hc # m => get(bm, m - hc - 1)
        /\ hc # 0 => s.page_num = m - hc
        /\ \A q \in Nat : count > 0 /\ q + count <= m => \E p \in Run(q, count) : get(bm, p)
    BY <1>5 DEF Searching
  <2>2. CASE get(bm, m)
    <3>1. m \in Int
      BY <1>2
    <3>2. s2 \in Scans /\ s2.returned = NoHole /\ s2.hole_count = 0
      BY <2>1, <2>2, <3>1, ScanPageIs
    <3> HIDE DEF s2, m
    <3>3. ASSUME NEW q \in Nat, count > 0, q + count <= n
          PROVE  \E p \in Run(q, count) : get(bm, p)
      <4>1. CASE q + count <= m
        BY <2>1, <3>3, <4>1
      <4>2. CASE ~(q + count <= m)
        <5>1. m \in Run(q, count)
          BY <1>2, <3>3, <4>2 DEF Run
        <5> QED
          BY <2>2, <5>1
      <4> QED
        BY <4>1, <4>2
    <3>4. n - 0 - 1 = m /\ (n - 0) .. (n - 1) = {}
      BY <1>2
    <3>5. Searching(bm, count, n, s2)
      BY <1>2, <2>2, <3>2, <3>3, <3>4 DEF Searching
    <3> QED
      BY <3>2, <3>5 DEF s2
  <2>3. CASE ~get(bm, m)
    <3> DEFINE first == IF hc = 0 THEN m ELSE s.page_num
    <3>1. s2 = [page_num |-> first, hole_count |-> hc + 1,
                returned |-> IF hc + 1 = count THEN first ELSE NoHole]
      BY <2>1, <2>3 DEF ScanPage
    <3>2. first = m - hc
      BY <1>2, <2>1
    <3> HIDE DEF s2, m, hc, first
    <3>3. s2 \in Scans /\ s2.hole_count = hc + 1 /\ s2.page_num = m - hc
      BY <1>2, <2>1, <3>1, <3>2 DEF Scans, NoHole
    <3>4. \A p \in (m - hc) .. m : ~get(bm, p)
      BY <1>2, <2>1, <2>3
    <3>5. CASE hc + 1 = count
      <4>1. s2.returned = m - hc
        BY <3>1, <3>2, <3>5
      <4>2. /\ m - hc \in Nat /\ count > 0 /\ (m - hc) + count = n
            /\ Run(m - hc, count) = (m - hc) .. m
        BY <1>2, <2>1, <3>5 DEF Run
      <4>3. m - hc \in holes
        <5>1. (m - hc) + count <= bit_capacity
          BY <1>1, <4>2
        <5> HIDE DEF holes
        <5> QED
          BY <1>3, <3>4, <4>2, <5>1, Zenon
      <4>4. ASSUME NEW q \in holes PROVE m - hc <= q
        <5>1. /\ q \in Nat /\ \A p \in Run(q, count) : ~get(bm, p)
          BY <1>3
        <5>2. ~(q + count <= m)
          BY <2>1, <4>2, <5>1
        <5> QED
          BY <1>2, <2>1, <4>2, <5>1, <5>2
      <4>5. Found(bm, count, s2)
        BY <4>1, <4>3, <4>4 DEF Found
      <4> QED
        BY <3>3, <4>5 DEF s2
    <3>6. CASE hc + 1 # count
      <4>1. s2.returned = NoHole
        BY <3>1, <3>6
      <4>2. /\ hc + 1 \in 0 .. n /\ (count > 0 => hc + 1 < count)
            /\ n - (hc + 1) = m - hc /\ n - 1 = m
            /\ (hc + 1 # n => hc # m) /\ n - (hc + 1) - 1 = m - hc - 1
        BY <1>2, <2>1, <3>6
      <4>3. ASSUME NEW q \in Nat, count > 0, q + count <= n
            PROVE  \E p \in Run(q, count) : get(bm, p)
        <5>1. CASE q + count <= m
          BY <2>1, <4>3, <5>1
        <5>2. CASE ~(q + count <= m)
          <6>1. hc # m /\ m - hc - 1 \in Run(q, count)
            BY <1>2, <2>1, <4>2, <4>3, <5>2 DEF Run
          <6> QED
            BY <2>1, <6>1
        <5> QED
          BY <5>1, <5>2
      <4>4. \A p \in (n - (hc + 1)) .. (n - 1) : ~get(bm, p)
        BY <3>4, <4>2
      <4>5. hc + 1 # n => get(bm, n - (hc + 1) - 1)
        BY <2>1, <4>2
      <4>6. Searching(bm, count, n, s2)
        BY <3>3, <4>1, <4>2, <4>3, <4>4, <4>5 DEF Searching
      <4> QED
        BY <3>3, <4>6 DEF s2
    <3> QED
      BY <3>5, <3>6
  <2> QED
    BY <2>2, <2>3
<1> QED
  BY <1>4, <1>5

\* The scan of the whole array finds the first hole.
LEMMA FindHoleFirst ==
  ASSUME NEW bm \in Arrays, NEW count \in Nat
  PROVE  /\ find_hole(bm, count) = FirstHole(Marked(bm), bit_capacity, count)
         /\ find_hole(bm, count) = NoHole \/ find_hole(bm, count) \in Nat
<1> DEFINE start == [page_num |-> 0, hole_count |-> 0, returned |-> NoHole]
           Pass(s, n) == ScanPage(bm, count, n - 1, s)
           Loop(g) == g = [n \in 0 .. bit_capacity |->
                             IF n = 0 THEN start ELSE Pass(g[n - 1], n)]
           loop == CHOOSE g : Loop(g)
           holes == Holes(Marked(bm), bit_capacity, count)
<1>1. find_hole(bm, count) = loop[bit_capacity].returned
  BY DEF find_hole
<1>2. bit_capacity \in Nat
  BY BitmapAssumption DEF bit_capacity
<1>3. start \in Scans /\ start.hole_count = 0 /\ start.returned = NoHole
  BY DEF Scans, NoHole
<1>4. ASSUME NEW s \in Scans, NEW n \in 1 .. bit_capacity PROVE Pass(s, n) \in Scans
  <2>1. n - 1 \in Int
    BY <1>2
  <2> QED
    BY <2>1, ScanPageIs
<1> HIDE DEF start, Pass
<1>5. \E g : Loop(g)
  <2> DEFINE step == [n \in 1 .. bit_capacity |-> [s \in Scans |-> Pass(s, n)]]
  <2>1. step \in [1 .. bit_capacity -> [Scans -> Scans]]
    BY <1>4
  <2>2. \A n \in 1 .. bit_capacity : \A s \in Scans : step[n][s] = Pass(s, n)
    OBVIOUS
  <2> HIDE DEF step
  <2>3. PICK g : Iterates(g, Scans, bit_capacity, start, step)
    BY <1>2, <1>3, <2>1, Passes
  <2>4. ASSUME NEW n \in 0 .. bit_capacity
        PROVE  g[n] = IF n = 0 THEN start ELSE Pass(g[n - 1], n)
    <3>1. CASE n = 0
      BY <2>3, <3>1 DEF Iterates
    <3>2. CASE n # 0
      <4>1. n \in 1 .. bit_capacity /\ n - 1 \in 0 .. bit_capacity
        BY <1>2, <3>2
      <4>2. g[n - 1] \in Scans
        BY <2>3, <4>1 DEF Iterates
      <4> QED
        BY <2>2, <2>3, <3>2, <4>1, <4>2 DEF Iterates
    <3> QED
      BY <3>1, <3>2
  <2>5. Loop(g)
    BY <2>3, <2>4 DEF Iterates
  <2> HIDE DEF Loop
  <2> QED
    BY <2>5
<1>6. Loop(loop)
  <2> HIDE DEF Loop
  <2> QED
    BY <1>5
<1> HIDE DEF loop
<1>7. loop[0] = start /\ \A n \in 1 .. bit_capacity : loop[n] = Pass(loop[n - 1], n)
  BY <1>2, <1>6
<1> DEFINE Good(n) == /\ loop[n] \in Scans
                      /\ Searching(bm, count, n, loop[n]) \/ Found(bm, count, loop[n])
           S == {n \in 0 .. bit_capacity : Good(n)}
<1>8. 0 \in S
  <2>1. Searching(bm, count, 0, start)
    <3>1. \A q \in Nat : ~(count > 0 /\ q + count <= 0)
      OBVIOUS
    <3>2. (0 - 0) .. (0 - 1) = {}
      OBVIOUS
    <3> QED
      BY <1>3, <3>1, <3>2 DEF Searching
  <2> QED
    BY <1>2, <1>3, <1>7, <2>1
<1>9. ASSUME NEW n \in 1 .. bit_capacity, n - 1 \in S PROVE n \in S
  <2>1. Good(n - 1)
    BY <1>9
  <2>2. loop[n] = ScanPage(bm, count, n - 1, loop[n - 1])
    BY <1>7 DEF Pass
  <2>3. Good(n)
    BY <2>1, <2>2, ScanPageStep
  <2> HIDE DEF Good
  <2> QED
    BY <1>2, <2>3
<1>10. Good(bit_capacity)
  <2>1. \A n \in 0 .. bit_capacity : n \in S
    <3> HIDE DEF S
    <3> QED
      BY <1>2, <1>8, <1>9, CountUp
  <2> HIDE DEF Good
  <2> QED
    BY <1>2, <2>1
<1> DEFINE s == loop[bit_capacity]
<1>11. CASE Searching(bm, count, bit_capacity, s)
  <2>1. \A q \in Nat : count > 0 /\ q + count <= bit_capacity =>
          \E p \in Run(q, count) : get(bm, p)
    BY <1>11 DEF Searching
  <2>2. ASSUME NEW q \in holes PROVE FALSE
    <3>1. q \in Nat /\ count > 0 /\ q + count <= bit_capacity /\ Run(q, count) \cap Marked(bm) = {}
      BY <1>2 DEF Holes
    <3>2. PICK p \in Run(q, count) : get(bm, p)
      BY <2>1, <3>1
    <3>3. p \in Marked(bm)
      BY <1>2, <3>1, <3>2 DEF Run, Marked
    <3> QED
      BY <3>1, <3>3
  <2>3. holes = {}
    BY <2>2
  <2>4. s.returned = NoHole
    BY <1>11 DEF Searching
  <2> QED
    BY <1>1, <2>3, <2>4 DEF FirstHole
<1>12. CASE Found(bm, count, s)
  <2>1. s.returned \in holes /\ \A q \in holes : s.returned <= q
    BY <1>12 DEF Found
  <2>2. holes \subseteq Nat
    BY <1>2 DEF Holes
  <2>3. FirstHole(Marked(bm), bit_capacity, count) = CHOOSE p \in holes : \A q \in holes : p <= q
    BY <2>1 DEF FirstHole
  <2> HIDE DEF holes, s
  <2> DEFINE r == CHOOSE p \in holes : \A q \in holes : p <= q
  <2>4. r \in holes /\ \A q \in holes : r <= q
    BY <2>1
  <2> HIDE DEF r
  <2>5. r \in Nat /\ s.returned \in Nat /\ r <= s.returned /\ s.returned <= r
    BY <2>1, <2>2, <2>4, Zenon
  <2>6. r = s.returned
    BY <2>5
  <2> QED
    BY <1>1, <2>3, <2>5, <2>6 DEF r, s
<1> QED
  BY <1>10, <1>11, <1>12

-----------------------------------------------------------------------------
\* A call that leaves an array keeps the types.
LEMMA CallTypes ==
  ASSUME NEW fails \in BOOLEAN, NEW result, TypeOK, Call(fails, result),
         ~fails => result \in Arrays
  PROVE  TypeOK'
<1>1. panicked' \in BOOLEAN
  BY DEF Call
<1>2. bitmap' \in Arrays
  BY DEF Call, TypeOK, Arrays
<1> QED
  BY <1>1, <1>2 DEF TypeOK, Arrays

\* A run in the index range that is not out of bounds.
LEMMA InBoundsFits ==
  ASSUME NEW idx \in Nat, NEW count \in Nat, ~OutOfBounds(idx, count)
  PROVE  Fits(idx, count)
BY BitmapAssumption DEF OutOfBounds, Fits, bit_capacity

\* The words stay words in a step.
LEMMA NextTypes ==
  ASSUME TypeOK, [Next]_bmvars
  PROVE  TypeOK'
<1>1. bitmap \in Arrays /\ Index \subseteq Nat
  BY BitmapAssumption DEF TypeOK, Arrays, Index
<1>2. ASSUME NEW idx \in Nat, NEW count \in Nat, MarkAllocated(idx, count) PROVE TypeOK'
  <2> DEFINE fails == \/ OutOfBounds(idx, count)
                      \/ DebugAssertions /\ double_alloc(bitmap, idx, count)
  <2>1. Call(fails, mark_allocated(bitmap, idx, count)) /\ fails \in BOOLEAN
    BY <1>2, Zenon DEF MarkAllocated
  <2>2. ~fails => mark_allocated(bitmap, idx, count) \in Arrays
    <3>1. TRUE \in BOOLEAN
      OBVIOUS
    <3> QED
      BY <1>1, <3>1, InBoundsFits, LoopsWrite, Zenon DEF mark_allocated, Written
  <2> HIDE DEF fails
  <2> QED
    BY <2>1, <2>2, CallTypes
<1>3. ASSUME NEW count \in Index, Alloc(count) PROVE TypeOK'
  <2> DEFINE page_num == find_hole(bitmap, count)
  <2>1. count \in Nat
    BY <1>1
  <2>2. page_num = NoHole \/ page_num \in Nat
    BY <1>1, <2>1, FindHoleFirst
  <2>3. CASE page_num = NoHole
    <3>1. Call(FALSE, bitmap)
      BY <1>3, <2>3, Zenon DEF Alloc
    <3> QED
      BY <1>1, <3>1, CallTypes, Zenon
  <2>4. CASE page_num # NoHole
    <3>1. MarkAllocated(page_num, count)
      BY <1>3, <2>4 DEF Alloc
    <3> HIDE DEF page_num
    <3> QED
      BY <1>2, <2>1, <2>2, <2>4, <3>1
  <2> QED
    BY <2>3, <2>4
<1>4. ASSUME NEW idx \in Index, NEW count \in Index, Free(idx, count) PROVE TypeOK'
  <2> DEFINE fails == \/ OutOfBounds(idx, count)
                      \/ DebugAssertions /\ double_free(bitmap, idx, count)
  <2>1. Call(fails, free(bitmap, idx, count)) /\ fails \in BOOLEAN
    BY <1>4, Zenon DEF Free
  <2>2. ~fails => free(bitmap, idx, count) \in Arrays
    <3>1. FALSE \in BOOLEAN /\ idx \in Nat /\ count \in Nat
      BY <1>1
    <3> QED
      BY <1>1, <3>1, InBoundsFits, LoopsWrite, Zenon DEF free, Written
  <2> HIDE DEF fails
  <2> QED
    BY <2>1, <2>2, CallTypes
<1>5. ASSUME NEW src \in Index, NEW dst \in Index, NEW count \in Index,
             MoveBitRangeForward(src, dst, count)
      PROVE  TypeOK'
  <2> DEFINE fails == src # dst /\ (src > dst \/ OutOfBounds(dst, count))
             result == move_bit_range_forward(bitmap, src, dst, count)
  <2>1. Call(fails, result) /\ fails \in BOOLEAN
    BY <1>5 DEF MoveBitRangeForward
  <2>2. ASSUME ~fails PROVE result \in Arrays
    <3>1. src \in Nat /\ dst \in Nat /\ count \in Nat
      BY <1>1
    <3>2. src <= dst /\ (src = dst \/ Fits(dst, count))
      BY <2>2, <3>1, InBoundsFits
    <3> QED
      BY <1>1, <3>1, <3>2, MoveCopies
  <2> HIDE DEF fails, result
  <2> QED
    BY <2>1, <2>2, CallTypes
<1>6. ASSUME NEW idx \in Index, NEW count \in Index, ZeroBitRange(idx, count) PROVE TypeOK'
  <2> DEFINE fails == OutOfBounds(idx, count)
  <2>1. Call(fails, zero_bit_range(bitmap, idx, count))
    BY <1>6 DEF ZeroBitRange
  <2>2. fails \in BOOLEAN
    BY DEF OutOfBounds
  <2>3. ~fails => zero_bit_range(bitmap, idx, count) \in Arrays
    <3>1. idx \in Nat /\ count \in Nat
      BY <1>1
    <3> QED
      BY <1>1, <3>1, InBoundsFits, ZeroWrites, Zenon DEF Written
  <2> HIDE DEF fails
  <2> QED
    BY <2>1, <2>2, <2>3, CallTypes
<1>7. CASE UNCHANGED bmvars
  BY <1>7 DEF bmvars, TypeOK
<1>8. CASE Next
  BY <1>1, <1>2, <1>3, <1>4, <1>5, <1>6, <1>8 DEF Next
<1> QED
  BY <1>7, <1>8

(***************************************************************************)
(* Whatever calls are made, every cell holds bits of a word only: no shift *)
(* of the code goes over the width of a cell.                              *)
(***************************************************************************)
THEOREM BitmapTypes == Spec => []TypeOK
<1>1. Init => TypeOK
  BY Zenon DEF Init, TypeOK
<1>2. TypeOK /\ [Next]_bmvars => TypeOK'
  BY NextTypes
<1> QED
  BY <1>1, <1>2, PTL DEF Spec

(***************************************************************************)
(* find_hole returns the lowest hole of page_count free pages whatever the *)
(* calls before it left in the array, and None only if there is none.      *)
(***************************************************************************)
THEOREM FindHoleIsExact == Spec => []FindHoleIsFirstFit
<1>1. TypeOK => FindHoleIsFirstFit
  BY BitmapAssumption, FindHoleFirst DEF TypeOK, Arrays, FindHoleIsFirstFit, bit_capacity
<1> QED
  BY <1>1, BitmapTypes, PTL

(***************************************************************************)
(* mark_allocated and free write the pages of their run and no other, for  *)
(* every way the run can lie across the cells, and their assertions fire   *)
(* exactly if a page of the run was marked (was free) before.              *)
(***************************************************************************)
THEOREM RangeLoopsAreExact == Spec => []RangeLoopsExact
<1>1. ASSUME TypeOK, NEW r \in Runs
      PROVE  /\ Marked(mark_allocated(bitmap, r[1], r[2])) = Mark(Marked(bitmap), r[1], r[2])
             /\ Marked(free(bitmap, r[1], r[2])) = Clear(Marked(bitmap), r[1], r[2])
             /\ double_alloc(bitmap, r[1], r[2]) <=> DoubleAlloc(Marked(bitmap), r[1], r[2])
             /\ double_free(bitmap, r[1], r[2]) <=> DoubleFree(Marked(bitmap), r[1], r[2])
  <2>1. bitmap \in Arrays
    BY <1>1 DEF TypeOK, Arrays
  <2>2. Fits(r[1], r[2])
    BY BitmapAssumption DEF Runs, Index, Fits, bit_capacity
  <2> QED
    BY <2>1, <2>2, LoopsMark, LoopsAssert
<1>2. TypeOK => RangeLoopsExact
  BY <1>1 DEF RangeLoopsExact
<1> QED
  BY <1>2, BitmapTypes, PTL

(***************************************************************************)
(* zero_bit_range clears its run and keeps all else, whichever of its two  *)
(* masks and of its whole cells the run needs.                             *)
(***************************************************************************)
THEOREM ZeroRangeIsExact == Spec => []ZeroRangeExact
<1>1. ASSUME TypeOK, NEW r \in Runs
      PROVE  Marked(zero_bit_range(bitmap, r[1], r[2])) = Clear(Marked(bitmap), r[1], r[2])
  <2>1. bitmap \in Arrays
    BY <1>1 DEF TypeOK, Arrays
  <2>2. Fits(r[1], r[2])
    BY BitmapAssumption DEF Runs, Index, Fits, bit_capacity
  <2> QED
    BY <2>1, <2>2, ZeroClears
<1>2. TypeOK => ZeroRangeExact
  BY <1>1 DEF ZeroRangeExact
<1> QED
  BY <1>2, BitmapTypes, PTL

(***************************************************************************)
(* move_bit_range_forward copies the bits that were there before the call, *)
(* also when the two runs overlap.                                         *)
(***************************************************************************)
THEOREM MoveForwardIsExact == Spec => []MoveForwardExact
<1>1. ASSUME TypeOK, NEW r \in Runs, NEW src \in 0 .. r[1]
      PROVE  Marked(move_bit_range_forward(bitmap, src, r[1], r[2]))
               = MoveRun(Marked(bitmap), src, r[1], r[2])
  <2>1. bitmap \in Arrays
    BY <1>1 DEF TypeOK, Arrays
  <2>2. Fits(r[1], r[2]) /\ r[1] \in Nat /\ r[2] \in Nat /\ src \in Nat /\ src <= r[1]
    BY BitmapAssumption DEF Runs, Index, Fits, bit_capacity
  <2> QED
    BY <2>1, <2>2, MoveCopies
<1>2. TypeOK => MoveForwardExact
  BY <1>1 DEF MoveForwardExact
<1> QED
  BY <1>2, BitmapTypes, PTL

=============================================================================
