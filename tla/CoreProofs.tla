----------------------------- MODULE CoreProofs -----------------------------
(***************************************************************************)
(* Proofs about module Core, for tables, images, devices, registers and    *)
(* interrupts of any number: that the boot never loses its code, that the  *)
(* exception vectors keep the context they interrupt, and that interrupts  *)
(* are ended.  The inductive invariant has a part for each of the modules  *)
(* that Core is made of.                                                   *)
(***************************************************************************)
EXTENDS Core, TLAPS

\* Stages of the boot with code at its physical address, with the MMU on, and
\* after eject_lowmem has cleared TTBR0.
Physical == {"kmain_nommu", "panic", "init", "tlbi", "enable", "jump"}
Ejected == {"flush", "kmain", "thread"}
Translated == {"jump", "vbar", "sp", "uart", "eject"} \cup Ejected

\* A TLB entry that agrees with the tables of the boot.
Agrees(e) ==
  /\ e[1] \in Nat
  /\ L0((e[1] \div R) % R) # "none"
  /\ e[2] = e[1] % R
  /\ at \in {"kmain", "thread"} => e[1] >= R * R

\* Where the boot has moved what at each stage.
BootInv ==
  /\ image \in Images /\ uart \in Uarts
  /\ at \in {"_start"} \cup Physical \cup Translated
  /\ mmu \in BOOLEAN /\ (mmu <=> at \in Translated)
  /\ at \in {"tlbi", "enable"} \cup Translated => ttbr1 = "boot"
  /\ at \in {"tlbi", "enable"} \cup (Translated \ Ejected) => ttbr0 = "boot"
  /\ at \in Ejected => ttbr0 # "boot"
  /\ at \in Physical => code = image
  /\ at \in Translated \ Physical => code = virt(image)
  /\ at \in Physical \cup {"vbar"} => vbar = image
  /\ at \in Translated \ {"jump", "vbar"} => vbar = virt(image)
  /\ at \in Physical \cup {"vbar", "sp"} => sp = image
  /\ at \in {"uart", "eject"} \cup Ejected => sp = virt(image)
  /\ at \notin {"eject"} \cup Ejected => uart0_addr = uart
  /\ at \in {"eject"} \cup Ejected => uart0_addr = virt(uart)
  /\ at = "enable" => tlb = {}
  /\ mmu => \A e \in tlb : Agrees(e)

-----------------------------------------------------------------------------
\* The quotient and the remainder of a division, and that there are no others.
LEMMA Quotient ==
  ASSUME NEW a \in Int, NEW b \in Nat \ {0}
  PROVE  /\ a \div b \in Int /\ a % b \in 0 .. (b - 1)
         /\ a = (b * (a \div b)) + (a % b)
OBVIOUS

\* The next multiple of b is at most any larger one.
LEMMA TimesNext ==
  ASSUME NEW b \in Nat \ {0}, NEW x \in Int, NEW y \in Int, x < y
  PROVE  (b * x) + b <= b * y
OBVIOUS

\* A quotient and a remainder in range are the ones of \div and %.
LEMMA DivMod ==
  ASSUME NEW a \in Int, NEW b \in Nat \ {0}, NEW q \in Int, NEW r \in 0 .. (b - 1),
         a = (b * q) + r
  PROVE  a \div b = q /\ a % b = r
<1> DEFINE q2 == a \div b
           r2 == a % b
<1>1. a = (b * q2) + r2 /\ q2 \in Int /\ r2 \in 0 .. (b - 1)
  BY Quotient, Zenon
<1> HIDE DEF q2, r2
<1>2. ~(q < q2)
  BY <1>1, TimesNext
<1>3. ~(q2 < q)
  BY <1>1, TimesNext
<1>4. q2 = q
  BY <1>1, <1>2, <1>3
<1>5. r2 = r
  BY <1>1, <1>4
<1> QED
  BY <1>4, <1>5 DEF q2, r2

\* HighBase is R times 2 * R - 2.
LEMMA HighBaseIs == HighBase = R * (2 * R - 2) /\ HighBase \in Nat
                    /\ HighBase >= R * R /\ HighBase + R = R * (2 * R - 1)
BY BootAssumption DEF HighBase

\* The addresses that virt and virt_dev make of a physical block: which entries
\* of the tables translate them, and which block is meant.
LEMMA HighAddress ==
  ASSUME NEW p \in 0 .. (R - 1)
  PROVE  /\ virt(p) \in Nat /\ virt(p) >= R * R
         /\ (virt(p) \div R) % R = R - 2 /\ virt(p) % R = p
         /\ from_virt(virt(p)) = p
         /\ virt_dev(p) \in Nat /\ virt_dev(p) >= R * R
         /\ (virt_dev(p) \div R) % R = R - 1 /\ virt_dev(p) % R = p
<1> USE BootAssumption
<1>1. /\ virt(p) = (R * (2 * R - 2)) + p /\ virt(p) \in Nat /\ virt(p) >= R * R
      /\ virt_dev(p) = (R * (2 * R - 1)) + p /\ virt_dev(p) \in Nat
      /\ virt_dev(p) >= R * R
  BY HighBaseIs DEF virt, virt_dev
<1>2. /\ virt(p) \div R = 2 * R - 2 /\ virt(p) % R = p
      /\ virt_dev(p) \div R = 2 * R - 1 /\ virt_dev(p) % R = p
  <2> DEFINE v == virt(p)
             d == virt_dev(p)
             q1 == 2 * R - 2
             q2 == 2 * R - 1
  <2>1. /\ R \in Nat \ {0} /\ q1 \in Int /\ q2 \in Int
        /\ v \in Int /\ d \in Int /\ v = (R * q1) + p /\ d = (R * q2) + p
    BY <1>1
  <2> HIDE BootAssumption DEF v, d, q1, q2
  <2>2. v \div R = q1 /\ v % R = p
    BY <2>1, DivMod
  <2>3. d \div R = q2 /\ d % R = p
    BY <2>1, DivMod
  <2> QED
    BY <2>2, <2>3 DEF v, d, q1, q2
<1>3. (2 * R - 2) % R = R - 2 /\ (2 * R - 1) % R = R - 1
  <2> DEFINE q1 == 2 * R - 2
             q2 == 2 * R - 1
             r1 == R - 2
             r2 == R - 1
  <2>1. /\ R \in Nat \ {0} /\ q1 \in Int /\ q2 \in Int
        /\ r1 \in 0 .. (R - 1) /\ r2 \in 0 .. (R - 1)
        /\ q1 = (R * 1) + r1 /\ q2 = (R * 1) + r2
    OBVIOUS
  <2> HIDE BootAssumption DEF q1, q2, r1, r2
  <2>2. q1 % R = r1
    BY <2>1, DivMod
  <2>3. q2 % R = r2
    BY <2>1, DivMod
  <2> QED
    BY <2>2, <2>3 DEF q1, q2, r1, r2
<1>4. from_virt(virt(p)) = p
  <2>1. R * (2 * R - 2) = (2 * R) * (R - 1)
    OBVIOUS
  <2> DEFINE v == virt(p)
             b == 2 * R
             q == R - 1
  <2>2. /\ v \in Int /\ b \in Nat \ {0} /\ q \in Int /\ p \in 0 .. (b - 1)
        /\ v = (b * q) + p
    BY <1>1, <2>1
  <2> HIDE BootAssumption DEF v, b, q
  <2>3. v % b = p
    BY <2>2, DivMod
  <2> QED
    BY <2>3 DEF from_virt, v, b
<1> QED
  BY <1>1, <1>2, <1>3, <1>4

\* The 32 bits of a linked address of the image are its physical address.
LEMMA LinkedAddress ==
  ASSUME NEW p \in Images
  PROVE  virt(p) % Word = p /\ p \in 0 .. (R - 1)
<1> USE BootAssumption
<1>1. p \in 0 .. (Word - 1) /\ p \in 0 .. (R - 1)
  OBVIOUS
<1>2. PICK k \in Int : R = Word * k
  <2>1. R \in Int /\ Word \in Nat \ {0}
    OBVIOUS
  <2>2. R \div Word \in Int /\ R = (Word * (R \div Word)) + 0
    BY <2>1, Quotient
  <2> QED
    BY <2>1, <2>2
<1>3. virt(p) = (R * (2 * R - 2)) + p /\ virt(p) \in Int
  BY <1>1, HighBaseIs DEF virt
<1>4. R * (2 * R - 2) = Word * (k * (2 * R - 2)) /\ k * (2 * R - 2) \in Int
  BY <1>2
<1> DEFINE v == virt(p)
           q == k * (2 * R - 2)
<1>5. v \in Int /\ q \in Int /\ Word \in Nat \ {0} /\ v = (Word * q) + p
  BY <1>3, <1>4
<1> HIDE BootAssumption DEF v, q
<1>6. v % Word = p
  BY <1>1, <1>5, DivMod
<1> QED
  BY <1>1, <1>6 DEF v

-----------------------------------------------------------------------------
\* Registers are a function on x0 to x30 and a frame is one on its words;
\* sequences of one and of two elements.
Full(r) == r = [i \in 0 .. 30 |-> r[i]]
Frame(f) == f = [i \in 0 .. SP |-> f[i]]
One(s) == Len(s) = 1 /\ s = <<s[1]>>
Two(s) == Len(s) = 2 /\ s = <<s[1], s[2]>>

\* What an exception may interrupt: the thread, outside of the kernel.
UserCode == {Code("user"), Code("user2")}
FromThread(t) ==
  t.ret \in UserCode /\ t.el = 0 /\ t.mask = {"A", "F"} /\ Full(t.regs)

\* The frame that holds all of what exception t interrupted, and those from
\* which t may return.
StatusOf(t) == [el |-> t.el, mask |-> t.mask]
FrameOf(t) ==
  [i \in 0 .. SP |-> IF i <= LR THEN t.regs[i]
                     ELSE IF i = PC THEN t.ret
                     ELSE IF i = SPSR THEN StatusOf(t) ELSE t.sp_el0]
Returns(t) ==
  {FrameOf(t)} \cup
    IF t.svc THEN {[FrameOf(t) EXCEPT ![0] = <<"result", 0>>]} ELSE {}

\* The system registers and the registers of the code that t interrupted.
SystemOf(t) == elr = t.ret /\ spsr = StatusOf(t) /\ sp_el0 = t.sp_el0

\* How far the vectors, the handler and __exception_restore_context are with
\* the exception t.
Progress(t) ==
  \/ pc.place = "save" /\ frames = <<>> /\ SystemOf(t) /\ regs = t.regs
  \/ /\ pc.place = "save_system" /\ SystemOf(t) /\ regs = t.regs
     /\ One(frames) /\ Frame(frames[1])
     /\ \A i \in 0 .. (LR - 1) : frames[1][i] = t.regs[i]
  \/ pc.place = "handle" /\ frames = <<FrameOf(t)>>
  \/ pc.place = "restore" /\ \E f \in Returns(t) : frames = <<f>>
  \/ /\ pc.place = "restore_gprs" /\ SystemOf(t) /\ regs[LR] = t.regs[LR]
     /\ \E f \in Returns(t) : frames = <<f>>

\* Before the thread, in the thread, in an exception of the thread, in a fault
\* of a syscall, and in the loop after a fault.
Entering ==
  /\ el = 1 /\ frames = <<>> /\ taken = <<>>
  /\ \/ pc = Code("kmain") /\ mask = {"A", "I", "F"}
     \/ pc = Code("start") /\ mask = {"A", "F"}
     \/ pc = Code("eret") /\ mask = {"A", "F"} /\ elr = Code("user") /\ spsr = ThreadStatus
InThread ==
  pc \in UserCode /\ el = 0 /\ mask = {"A", "F"} /\ frames = <<>> /\ taken = <<>>
InException ==
  /\ el = 1 /\ mask = {"A", "I", "F"}
  /\ \E place \in {"save", "save_system", "handle", "restore", "restore_gprs"},
       vector \in {"sync", "irq"} : pc = At(place, vector)
  /\ One(taken) /\ FromThread(taken[1]) /\ Progress(taken[1])
  /\ taken[1].svc <=> (pc.vector = "sync" /\ esr = "svc")
InFault ==
  /\ el = 1 /\ mask = {"A", "I", "F"} /\ esr = "fault"
  /\ Two(taken)
  /\ \/ pc = At("save", "sync") /\ One(frames)
     \/ pc \in {At("save_system", "sync"), At("handle", "sync")} /\ Two(frames)
Stopped ==
  /\ el = 1 /\ mask = {"A", "I", "F"} /\ esr = "fault" /\ pc = Code("stopped")
  /\ One(frames) \/ Two(frames)
  /\ One(taken) \/ Two(taken)

ContextInv ==
  /\ Full(regs)
  /\ Entering \/ InThread \/ InException \/ InFault \/ Stopped

-----------------------------------------------------------------------------
\* handle_irq runs in the handler of an interrupt and nowhere else, and holds
\* the interrupt it has acknowledged until it ends it.
GicInv ==
  /\ line \subseteq Ids
  /\ Entering => gicd_ctlr = 0
  /\ \/ handler = "idle" /\ active = {} /\ pc \notin {At("save", "irq"), At("save_system", "irq")}
     \/ /\ handler = "handle_irq" /\ active = {}
        /\ \E place \in {"save", "save_system", "handle"} : pc = At(place, "irq")
     \/ /\ handler = "route" /\ pc = At("handle", "irq")
        /\ active = IF iar = Spurious THEN {} ELSE {iar}
     \/ /\ handler = "eoi" /\ pc = At("handle", "irq")
        /\ iar # Spurious /\ active = {iar}

CoreInv == BootInv /\ ContextInv /\ GicInv

-----------------------------------------------------------------------------
\* Low and high addresses of the orr in eject_lowmem.
LEMMA OrHighMoves ==
  ASSUME NEW p \in 0 .. (R - 1)
  PROVE  OrHigh(p) = virt(p)
BY BootAssumption DEF OrHigh, virt

\* Each step of the boot goes on to its next stage.
LEMMA AdvanceStep ==
  ASSUME BootInv, Advance
  PROVE  BootInv'
<1> USE DEF BootInv, Physical, Ejected, Translated, places, control, pointers
<1>1. image \in 0 .. (R - 1) /\ uart \in 0 .. (R - 1) /\ virt(image) % Word = image
  BY BootAssumption, LinkedAddress
<1>2. CASE Reset
  BY <1>1, <1>2 DEF Reset
<1>3. CASE KmainNommu
  BY <1>3 DEF KmainNommu
<1>4. CASE SetTables
  BY <1>4 DEF SetTables
<1>5. CASE Invalidate
  BY <1>5 DEF Invalidate
<1>6. CASE EnableMmu
  BY <1>6 DEF EnableMmu
<1>7. CASE JumpHigh
  BY <1>7 DEF JumpHigh, Agrees
<1>8. CASE SetVbar
  BY <1>8 DEF SetVbar, Agrees
<1>9. CASE MoveSp
  BY <1>1, <1>9, OrHighMoves DEF MoveSp, Agrees
<1>10. CASE MoveUart
  BY <1>1, <1>10, OrHighMoves DEF MoveUart, Agrees
<1>11. CASE ClearTtbr0
  BY <1>11 DEF ClearTtbr0, Agrees
<1>12. CASE Flush
  BY <1>12 DEF Flush
<1> QED
  BY <1>2, <1>3, <1>4, <1>5, <1>6, <1>7, <1>8, <1>9, <1>10, <1>11, <1>12, Zenon DEF Advance

\* A translation that the core caches is one of the tables, and not one of
\* TTBR0 once that is cleared.
LEMMA TlbFillStep ==
  ASSUME BootInv, NEW v \in 0 .. (2 * R * R - 1), TlbFill(v)
  PROVE  BootInv'
<1> USE DEF Physical, Ejected, Translated
<1>1. /\ mmu /\ UNCHANGED <<at, places, control, pointers>>
      /\ \E b \in Walk(v) : tlb' = tlb \cup {<<v, b>>}
  BY DEF TlbFill
<1>2. v \in Nat
  BY BootAssumption
<1>3. PICK b \in Walk(v) : tlb' = tlb \cup {<<v, b>>}
  BY <1>1
<1>4. /\ L0((v \div R) % R) # "none" /\ b = v % R
      /\ (IF v < R * R THEN ttbr0 ELSE ttbr1) = "boot"
  BY <1>1 DEF Walk, L1
<1>5. at \in {"kmain", "thread"} => v >= R * R
  BY <1>2, <1>4, BootAssumption DEF BootInv
<1>6. \A e \in tlb' : Agrees(e)'
  BY <1>1, <1>2, <1>3, <1>4, <1>5 DEF BootInv, Agrees
<1> QED
  BY <1>1, <1>6 DEF BootInv, places, control, pointers

\* Thread::enter flushes what TTBR0 has translated.
LEMMA SetThreadStep ==
  ASSUME BootInv, SetThreadTable
  PROVE  BootInv'
BY DEF BootInv, SetThreadTable, Physical, Ejected, Translated, places, pointers

\* Entries of the level 0 table: the first one and the last two.
LEMMA L0Entries ==
  /\ L0(0) = "mem" /\ L0(R - 2) = "mem" /\ L0(R - 1) = "dev"
BY BootAssumption DEF L0

\* With the MMU on, an address that the tables translate is seen as the block
\* that they give: no entry of the TLB says anything else.
LEMMA SeenByTables ==
  ASSUME BootInv, mmu, NEW v \in Nat, L0((v \div R) % R) # "none",
         (IF v < R * R THEN ttbr0 ELSE ttbr1) = "boot"
  PROVE  Seen(v) = {v % R}
<1>1. Walk(v) = {v % R}
  BY DEF Walk, L1
<1>2. \A e \in tlb : e[1] = v => e[2] = v % R
  BY DEF BootInv, Agrees
<1> QED
  BY <1>1, <1>2 DEF Seen

\* A block seen at its physical address, as long as TTBR0 is the boot table.
LEMMA SeenLow ==
  ASSUME BootInv, mmu, ttbr0 = "boot", NEW p \in 0 .. (R - 1)
  PROVE  Seen(p) = {p}
<1> USE BootAssumption
<1>1. p = (R * 0) + p /\ p \in Nat /\ R \in Nat \ {0}
  OBVIOUS
<1>2. p \div R = 0 /\ p % R = p
  BY <1>1, DivMod
<1>3. 0 % R = 0 /\ p < R * R
  <2>1. 0 = (R * 0) + 0
    OBVIOUS
  <2>2. 0 % R = 0
    BY <2>1, <1>1, DivMod
  <2>3. R <= R * R
    OBVIOUS
  <2> QED
    BY <2>2, <2>3
<1> QED
  BY <1>1, <1>2, <1>3, L0Entries, SeenByTables

\* A block seen through virt and virt_dev, as long as TTBR1 is the boot table.
LEMMA SeenHigh ==
  ASSUME BootInv, mmu, ttbr1 = "boot", NEW p \in 0 .. (R - 1)
  PROVE  Seen(virt(p)) = {p} /\ Seen(virt_dev(p)) = {p}
<1>1. ~(virt(p) < R * R) /\ ~(virt_dev(p) < R * R)
  BY HighAddress, BootAssumption
<1> QED
  BY <1>1, HighAddress, L0Entries, SeenByTables

\* The part of the invariant about the boot says what the core sees.
LEMMA BootInvCore == BootInv => CoreFindsImage
<1> SUFFICES ASSUME BootInv, at # "_start", NEW v \in {code, sp, vbar}
             PROVE  Seen(v) = {image}
  BY DEF CoreFindsImage
<1>1. image \in 0 .. (R - 1)
  BY BootAssumption, LinkedAddress DEF BootInv
<1>2. CASE ~mmu
  <2>1. v = image
    BY <1>2 DEF BootInv, Physical, Translated, Ejected
  <2> QED
    BY <1>2, <2>1 DEF Seen, Walk
<1>3. CASE mmu
  <2>1. v = virt(image) \/ (v = image /\ ttbr0 = "boot")
    BY <1>3 DEF BootInv, Physical, Translated, Ejected
  <2>2. ttbr1 = "boot"
    BY <1>3 DEF BootInv
  <2> QED
    BY <1>1, <1>3, <2>1, <2>2, SeenLow, SeenHigh
<1> QED
  BY <1>2, <1>3

\* Physical memory is seen where virt and virt_dev say, and the UART where
\* uart0_addr does.
LEMMA BootInvHigh == BootInv => HighMemory
<1> SUFFICES ASSUME BootInv, at \in {"kmain", "thread"}
             PROVE  HighMemory
  BY DEF HighMemory
<1>1. /\ uart \in 0 .. (R - 1) /\ uart0_addr = virt(uart)
      /\ mmu /\ ttbr1 = "boot"
  BY BootAssumption DEF BootInv, Translated, Ejected
<1>2. Seen(uart0_addr) = {uart}
  BY <1>1, SeenHigh
<1>3. \A p \in 0 .. (R - 1) : Seen(virt(p)) = {p} /\ Seen(virt_dev(p)) = {p}
  BY <1>1, SeenHigh
<1>4. \A p \in 0 .. (R - 1) :
        /\ from_virt(virt(p)) = p
        /\ L0((virt(p) \div R) % R) = "mem"
        /\ L0((virt_dev(p) \div R) % R) = "dev"
  BY HighAddress, L0Entries
<1> QED
  BY <1>2, <1>3, <1>4 DEF HighMemory

\* No low address is translated once kmain runs: no table holds one, and the
\* TLB neither.
LEMMA BootInvLow == BootInv => LowMemoryGone
<1> SUFFICES ASSUME BootInv, at \in {"kmain", "thread"}, NEW v \in 0 .. (R * R - 1)
             PROVE  Seen(v) = {}
  BY DEF LowMemoryGone
<1>1. mmu /\ ttbr0 # "boot" /\ v < R * R
  BY BootAssumption DEF BootInv, Translated, Ejected
<1>2. Walk(v) = {}
  BY <1>1 DEF Walk
<1>3. \A e \in tlb : e[1] # v
  BY <1>1, BootAssumption DEF BootInv, Agrees
<1> QED
  BY <1>2, <1>3 DEF Seen

-----------------------------------------------------------------------------
\* Sequences of at most two elements.
LEMMA AppendFirst ==
  ASSUME NEW x
  PROVE  One(Append(<<>>, x)) /\ Append(<<>>, x)[1] = x
BY DEF One

\* A second element comes after the first.
LEMMA AppendSecond ==
  ASSUME NEW s, One(s), NEW x
  PROVE  Two(Append(s, x)) /\ Append(s, x)[1] = s[1] /\ Append(s, x)[2] = x
<1> DEFINE a == s[1]
           t == Append(<<a>>, x)
           S == {a, x}
<1>1. /\ <<a>> \in Seq(S) /\ <<a, x>> \in Seq(S)
      /\ Len(<<a>>) = 1 /\ Len(<<a, x>>) = 2
  OBVIOUS
<1>2. /\ t \in Seq(S) /\ Len(t) = 2 /\ t[1] = a /\ t[2] = x
  BY <1>1
<1>3. \A i \in 1 .. 2 : t[i] = <<a, x>>[i]
  BY <1>2
<1>4. t = <<a, x>>
  <2> HIDE DEF t
  <2>1. t \in [1 .. 2 -> S] /\ <<a, x>> \in [1 .. 2 -> S]
    BY <1>1, <1>2
  <2> QED
    BY <1>3, <2>1
<1>5. s = <<a>>
  BY DEF One
<1> QED
  BY <1>2, <1>4, <1>5, Zenon DEF Two

\* Writing to the last element keeps the length.
LEMMA ReplaceLast ==
  ASSUME NEW s, NEW x
  PROVE  /\ One(s) => One([s EXCEPT ![1] = x]) /\ [s EXCEPT ![1] = x][1] = x
         /\ Two(s) => Two([s EXCEPT ![2] = x])
<1>1. ASSUME One(s)
      PROVE  One([s EXCEPT ![1] = x]) /\ [s EXCEPT ![1] = x][1] = x
  <2>1. PICK a : s = <<a>>
    BY <1>1 DEF One
  <2>2. [<<a>> EXCEPT ![1] = x] = <<x>>
    OBVIOUS
  <2> QED
    BY <2>1, <2>2 DEF One
<1>2. ASSUME Two(s)
      PROVE  Two([s EXCEPT ![2] = x])
  <2>1. PICK a, b : s = <<a, b>>
    BY <1>2 DEF Two
  <2>2. [<<a, b>> EXCEPT ![2] = x] = <<a, x>>
    OBVIOUS
  <2> QED
    BY <2>1, <2>2 DEF Two
<1> QED
  BY <1>1, <1>2

\* Dropping the only element leaves nothing.
LEMMA DropOne ==
  ASSUME NEW s, One(s)
  PROVE  Outer(s) = <<>> /\ s[Len(s)] = s[1]
<1>1. PICK a : s = <<a>>
  BY DEF One
<1>2. Outer(<<a>>) = <<>> /\ Len(<<a>>) = 1
  BY DEF Outer
<1> QED
  BY <1>1, <1>2

\* Values written to the registers.
LEMMA RegistersFull ==
  /\ \A by : Full(Written(by))
  /\ \A set : Full(Scratch(set))
BY DEF Full, Written, Scratch

\* Writing x30 keeps the others.
LEMMA LinkRegister ==
  ASSUME NEW r, Full(r), NEW x
  PROVE  Full([r EXCEPT ![LR] = x]) /\ [r EXCEPT ![LR] = x][LR] = x
<1> DEFINE q == [r EXCEPT ![LR] = x]
<1>1. DOMAIN r = 0 .. 30
  BY DEF Full
<1>2. q = [i \in 0 .. 30 |-> q[i]]
  BY <1>1, Zenon DEF LR
<1>3. q[LR] = x
  BY <1>1 DEF LR
<1> QED
  BY <1>2, <1>3, Zenon DEF Full

-----------------------------------------------------------------------------
\* Where the core is, from what it is about to do.
LEMMA PlacesDiffer ==
  ASSUME ContextInv
  PROVE  /\ pc \in {Code("kmain"), Code("start"), Code("eret")} => Entering
         /\ el = 0 => InThread
         /\ pc.place \in {"save", "save_system"} => InException \/ InFault
         /\ pc = At("handle", "sync") => InException \/ InFault
         /\ pc = At("handle", "sync") /\ esr = "svc" => InException
         /\ pc = At("handle", "irq") => InException
         /\ pc.place \in {"restore", "restore_gprs"} => InException
         /\ "I" \notin mask => InThread \/ (Entering /\ pc # Code("kmain"))
<1> USE DEF At, Code, UserCode
<1>1. Entering => /\ el = 1
                  /\ pc \in {Code("kmain"), Code("start"), Code("eret")}
                  /\ pc = Code("kmain") => "I" \in mask
  BY DEF Entering
<1>2. InThread => el = 0 /\ pc \in UserCode
  BY DEF InThread
<1>3. InException =>
        /\ el = 1 /\ "I" \in mask
        /\ pc.vector \in {"sync", "irq"}
        /\ pc.place \in {"save", "save_system", "handle", "restore", "restore_gprs"}
  BY DEF InException
<1>4. InFault => /\ el = 1 /\ "I" \in mask /\ esr = "fault"
                 /\ pc.vector = "sync"
                 /\ pc.place \in {"save", "save_system", "handle"}
  BY DEF InFault
<1>5. Stopped => el = 1 /\ "I" \in mask /\ pc = Code("stopped")
  BY DEF Stopped
<1> QED
  BY <1>1, <1>2, <1>3, <1>4, <1>5 DEF ContextInv

\* Nothing disturbs the way from kmain into the thread.
LEMMA EnteringSteps ==
  ASSUME ContextInv,
         EnableInterrupts \/ SetThreadRegisters \/ EnterThread
  PROVE  ContextInv' /\ (Entering' \/ InThread')
<1> USE DEF At, Code, UserCode, system
<1>1. Entering
  BY PlacesDiffer DEF EnableInterrupts, SetThreadRegisters, EnterThread
<1>2. CASE EnableInterrupts
  <2>1. Entering'
    BY <1>1, <1>2 DEF EnableInterrupts, Entering
  <2> QED
    BY <1>2, <2>1 DEF EnableInterrupts, ContextInv, Full
<1>3. CASE SetThreadRegisters
  <2>1. Entering'
    BY <1>1, <1>3 DEF SetThreadRegisters, Entering
  <2> QED
    BY <1>3, <2>1 DEF SetThreadRegisters, ContextInv, Full
<1>4. CASE EnterThread
  <2>1. InThread'
    BY <1>1, <1>4 DEF EnterThread, Eret, Entering, InThread, ThreadStatus
  <2> QED
    BY <1>4, <2>1 DEF EnterThread, ContextInv, Full
<1> QED
  BY <1>2, <1>3, <1>4

\* The thread changes its registers only.
LEMMA UserStep ==
  ASSUME ContextInv, NEW stamp, User(stamp)
  PROVE  ContextInv' /\ InThread'
<1>1. InThread
  BY PlacesDiffer DEF User
<1>2. InThread'
  BY <1>1 DEF User, InThread, UserCode
<1>3. Full(regs')
  BY RegistersFull DEF User
<1> QED
  BY <1>2, <1>3 DEF ContextInv

\* An exception of the thread records what it interrupts.
LEMMA TakeStep ==
  ASSUME ContextInv, InThread, NEW vector \in {"sync", "irq"}, NEW ret \in UserCode,
         NEW cause, vector = "sync" => cause \in {"svc", "fault"}, Take(vector, ret, cause)
  PROVE  ContextInv' /\ InException' /\ pc' = At("save", vector)
<1>0. PICK t : t = [ret |-> ret, el |-> el, mask |-> mask, sp_el0 |-> sp_el0,
                    regs |-> regs, svc |-> vector = "sync" /\ cause = "svc"]
  BY Zenon
<1>1. /\ elr' = ret /\ spsr' = [el |-> el, mask |-> mask] /\ esr' = cause
      /\ el' = 1 /\ mask' = {"A", "I", "F"} /\ pc' = At("save", vector)
      /\ taken' = Append(taken, t) /\ UNCHANGED <<sp_el0, regs, frames>>
  BY <1>0 DEF Take
<1>2. el = 0 /\ mask = {"A", "F"} /\ frames = <<>> /\ taken = <<>> /\ Full(regs)
  BY DEF InThread, ContextInv
<1>3. One(taken') /\ taken'[1] = t
  BY <1>1, <1>2, AppendFirst
<1>4. FromThread(t)
  BY <1>0, <1>2, Zenon DEF FromThread
<1>5. Progress(t)'
  BY <1>0, <1>1, <1>2 DEF Progress, SystemOf, StatusOf, At
<1>6. t.svc <=> (pc'.vector = "sync" /\ esr' = "svc")
  BY <1>0, <1>1, Zenon DEF At
<1>7. InException'
  BY <1>1, <1>3, <1>4, <1>5, <1>6 DEF InException, One, FromThread
<1> QED
  BY <1>1, <1>2, <1>7 DEF ContextInv, Full

\* A fault of copy_from_user is on top of the exception of the syscall.
LEMMA KernelFaultStep ==
  ASSUME ContextInv, KernelFault
  PROVE  ContextInv' /\ InFault' /\ pc' = At("save", "sync")
<1>1. InException /\ pc = At("handle", "sync")
  BY PlacesDiffer DEF KernelFault
<1>2. One(taken) /\ One(frames)
  <2>1. pc.place = "handle"
    BY <1>1, Zenon DEF At
  <2> QED
    BY <1>1, <2>1 DEF InException, Progress, One
<1>3. Two(taken')
  BY <1>2, AppendSecond DEF KernelFault, Take
<1>4. /\ el' = 1 /\ mask' = {"A", "I", "F"} /\ esr' = "fault"
      /\ pc' = At("save", "sync") /\ frames' = frames /\ regs' = regs
  BY DEF KernelFault, Take
<1>5. InFault'
  BY <1>2, <1>3, <1>4 DEF InFault, One
<1> QED
  BY <1>4, <1>5 DEF ContextInv, Full

\* The words of a frame.
LEMMA FrameWords ==
  ASSUME NEW t
  PROVE  /\ Frame(FrameOf(t))
         /\ \A i \in 0 .. LR : FrameOf(t)[i] = t.regs[i]
         /\ FrameOf(t)[PC] = t.ret /\ FrameOf(t)[SPSR] = StatusOf(t)
         /\ FrameOf(t)[SP] = t.sp_el0
BY DEF Frame, FrameOf, LR, PC, SPSR, SP

\* What the two halves of the vectors write makes up the frame.
LEMMA SavedFrame ==
  ASSUME NEW t, NEW g, Frame(g), \A i \in 0 .. (LR - 1) : g[i] = t.regs[i]
  PROVE  [g EXCEPT ![LR] = t.regs[LR], ![PC] = t.ret, ![SPSR] = StatusOf(t),
                   ![SP] = t.sp_el0] = FrameOf(t)
<1> DEFINE f == [g EXCEPT ![LR] = t.regs[LR], ![PC] = t.ret, ![SPSR] = StatusOf(t),
                          ![SP] = t.sp_el0]
<1> USE DEF LR, PC, SPSR, SP
<1>1. DOMAIN g = 0 .. SP
  BY DEF Frame
<1>2. f = [i \in 0 .. SP |-> f[i]]
  BY <1>1, Zenon
<1>3. /\ \A i \in 0 .. (LR - 1) : f[i] = g[i]
      /\ f[LR] = t.regs[LR] /\ f[PC] = t.ret /\ f[SPSR] = StatusOf(t) /\ f[SP] = t.sp_el0
  BY <1>1
<1> HIDE DEF f
<1>4. \A i \in 0 .. SP : i \in 0 .. (LR - 1) \/ i \in {LR, PC, SPSR, SP}
  BY SMTT(30)
<1>5. \A i \in 0 .. (LR - 1) : f[i] = FrameOf(t)[i]
  BY <1>3, FrameWords
<1>6. \A i \in {LR, PC, SPSR, SP} : f[i] = FrameOf(t)[i]
  BY <1>3, FrameWords
<1>7. FrameOf(t) = [i \in 0 .. SP |-> FrameOf(t)[i]]
  BY FrameWords DEF Frame
<1>8. \A i \in 0 .. SP : f[i] = FrameOf(t)[i]
  BY <1>4, <1>5, <1>6
<1>9. f = FrameOf(t)
  BY <1>2, <1>7, <1>8
<1> QED
  BY <1>9 DEF f

\* In an exception a step that leaves level, mask, cause and the record of the
\* exception alone only has to make progress.
LEMMA ExceptionGoesOn ==
  ASSUME InException, UNCHANGED <<el, mask, esr, taken>>, Full(regs'),
         NEW place \in {"save", "save_system", "handle", "restore", "restore_gprs"},
         pc' = At(place, pc.vector), Progress(taken[1])'
  PROVE  ContextInv' /\ InException'
<1>1. pc'.vector = pc.vector /\ pc.vector \in {"sync", "irq"}
  BY DEF InException, At
<1>2. InException'
  BY <1>1 DEF InException, One, FromThread
<1> QED
  BY <1>2 DEF ContextInv

\* The first half of a vector pushes a frame with x0 to x29.
LEMMA SaveGprsStep ==
  ASSUME ContextInv, SaveGprs
  PROVE  ContextInv' /\ (InException' \/ InFault') /\ pc' = At("save_system", pc.vector)
<1> DEFINE f == [i \in 0 .. SP |-> IF i < LR THEN regs[i] ELSE <<"stack", i>>]
<1>1. /\ pc.place = "save" /\ pc' = At("save_system", pc.vector)
      /\ frames' = Append(frames, f)
      /\ UNCHANGED <<el, mask, elr, spsr, sp_el0, esr, regs, taken>>
  BY DEF SaveGprs, system
<1>2. Full(regs')
  BY <1>1 DEF ContextInv, Full
<1>3. CASE InException
  <2>1. /\ frames = <<>> /\ regs = taken[1].regs
        /\ elr = taken[1].ret /\ spsr = StatusOf(taken[1]) /\ sp_el0 = taken[1].sp_el0
    BY <1>1, <1>3 DEF InException, Progress, SystemOf
  <2>2. One(frames') /\ frames'[1] = f
    <3> HIDE DEF f
    <3> QED
      BY <1>1, <2>1, AppendFirst
  <2>3. /\ Frame(frames'[1])
        /\ \A i \in 0 .. (LR - 1) : frames'[1][i] = taken[1].regs[i]
    <3>1. Frame(f)
      BY Zenon DEF Frame
    <3>2. \A i \in 0 .. (LR - 1) : f[i] = regs[i]
      BY DEF LR, SP
    <3> HIDE DEF f
    <3> QED
      BY <2>1, <2>2, <3>1, <3>2, Zenon
  <2>4. Progress(taken[1])'
    <3> HIDE DEF f
    <3> QED
      BY <1>1, <2>1, <2>2, <2>3 DEF Progress, SystemOf, StatusOf, At
  <2> HIDE DEF f
  <2> QED
    BY <1>1, <1>2, <1>3, <2>4, ExceptionGoesOn, Zenon
<1>4. CASE InFault
  <2> HIDE DEF f
  <2>1. One(frames) /\ pc.vector = "sync"
    BY <1>1, <1>4 DEF InFault, At
  <2>2. Two(frames')
    BY <1>1, <2>1, AppendSecond
  <2>3. InFault'
    BY <1>1, <1>4, <2>1, <2>2 DEF InFault, Two
  <2> QED
    BY <1>1, <1>2, <2>3 DEF ContextInv
<1> QED
  BY <1>1, <1>3, <1>4, PlacesDiffer

\* After the vectors the frame has all that was interrupted.
LEMMA SaveSystemStep ==
  ASSUME ContextInv, SaveSystem
  PROVE  ContextInv' /\ (InException' \/ InFault') /\ pc' = At("handle", pc.vector)
<1> DEFINE f == [frames[Inner] EXCEPT ![LR] = regs[LR], ![PC] = elr, ![SPSR] = spsr,
                                      ![SP] = sp_el0]
<1>1. /\ pc.place = "save_system" /\ pc' = At("handle", pc.vector)
      /\ frames' = [frames EXCEPT ![Inner] = f]
      /\ regs' = Scratch({0, 1, 2})
      /\ UNCHANGED <<el, mask, esr, taken>>
  BY DEF SaveSystem
<1>2. Full(regs')
  BY <1>1, RegistersFull
<1>3. CASE InException
  <2>1. /\ One(frames) /\ regs = taken[1].regs
        /\ elr = taken[1].ret /\ spsr = StatusOf(taken[1]) /\ sp_el0 = taken[1].sp_el0
        /\ Frame(frames[1])
        /\ \A i \in 0 .. (LR - 1) : frames[1][i] = taken[1].regs[i]
    BY <1>1, <1>3 DEF InException, Progress, SystemOf
  <2>2. Inner = 1
    BY <2>1, ZenonT(30) DEF Inner, One
  <2>3. f = FrameOf(taken[1])
    <3>1. f = [frames[1] EXCEPT ![LR] = regs[LR], ![PC] = elr, ![SPSR] = spsr,
                                ![SP] = sp_el0]
      BY <2>2
    <3> QED
      BY <2>1, <3>1, SavedFrame
  <2> HIDE DEF f
  <2>4. One(frames') /\ frames'[1] = f
    <3>1. frames' = [frames EXCEPT ![1] = f]
      BY <1>1, <2>2
    <3> QED
      BY <2>1, <3>1, ReplaceLast, Zenon
  <2>5. frames' = <<FrameOf(taken[1])>>
    BY <2>3, <2>4 DEF One
  <2>6. Progress(taken[1])'
    BY <1>1, <2>5, Zenon DEF Progress, FrameOf, StatusOf, At
  <2> QED
    BY <1>1, <1>2, <1>3, <2>6, ExceptionGoesOn, Zenon
<1>4. CASE InFault
  <2> HIDE DEF f
  <2>1. Two(frames) /\ pc.vector = "sync"
    BY <1>1, <1>4 DEF InFault, At
  <2>2. Two(frames')
    BY <1>1, <2>1, ReplaceLast DEF Inner, Two
  <2>3. InFault'
    BY <1>1, <1>4, <2>1, <2>2, Zenon DEF InFault, Two
  <2> QED
    BY <1>2, <1>1, <2>3 DEF ContextInv
<1> QED
  BY <1>1, <1>3, <1>4, PlacesDiffer

\* A frame from which an exception may return has what it interrupted, but
\* for the x0 of a syscall.
LEMMA ReturnWords ==
  ASSUME NEW t, NEW f \in Returns(t)
  PROVE  /\ \A i \in 1 .. LR : f[i] = t.regs[i]
         /\ f[0] = t.regs[0] \/ (t.svc /\ f[0] = <<"result", 0>>)
         /\ f[PC] = t.ret /\ f[SPSR] = StatusOf(t) /\ f[SP] = t.sp_el0
<1> USE DEF LR, PC, SPSR, SP
<1>1. CASE f = FrameOf(t)
  BY <1>1, FrameWords, SMTT(30)
<1>2. CASE t.svc /\ f = [FrameOf(t) EXCEPT ![0] = <<"result", 0>>]
  <2>1. DOMAIN FrameOf(t) = 0 .. SP
    BY DEF FrameOf
  <2>2. f[0] = <<"result", 0>> /\ \A i \in 1 .. SP : f[i] = FrameOf(t)[i]
    BY <1>2, <2>1, SMTT(30)
  <2>3. /\ \A i \in 1 .. LR : f[i] = FrameOf(t)[i]
        /\ f[PC] = FrameOf(t)[PC] /\ f[SPSR] = FrameOf(t)[SPSR] /\ f[SP] = FrameOf(t)[SP]
    BY <2>2
  <2>4. /\ \A i \in 1 .. LR : FrameOf(t)[i] = t.regs[i]
        /\ FrameOf(t)[PC] = t.ret /\ FrameOf(t)[SPSR] = StatusOf(t)
        /\ FrameOf(t)[SP] = t.sp_el0
    BY FrameWords
  <2> HIDE DEF LR, PC, SPSR, SP
  <2> QED
    BY <1>2, <2>2, <2>3, <2>4
<1> QED
  BY <1>1, <1>2, Zenon DEF Returns

\* The handlers change registers and, for a syscall, word 0 of the frame.
LEMMA SvcResultStep ==
  ASSUME ContextInv, SvcResult
  PROVE  ContextInv' /\ InException' /\ pc' = At("restore", pc.vector)
<1>1. /\ pc = At("handle", "sync") /\ esr = "svc" /\ pc' = At("restore", pc.vector)
      /\ UNCHANGED <<el, mask, esr, taken>> /\ regs' = Scratch(CallerSaved)
  BY DEF SvcResult
<1>2. InException
  BY <1>1, PlacesDiffer
<1>3. pc.place = "handle" /\ pc.vector = "sync"
  BY <1>1, Zenon DEF At
<1>4. frames = <<FrameOf(taken[1])>> /\ taken[1].svc
  BY <1>1, <1>2, <1>3 DEF InException, Progress
<1>5. PICK t : t = taken[1]
  OBVIOUS
<1>6. Len(frames) = 1 /\ frames[1] = FrameOf(t)
  BY <1>4, <1>5
<1>7. PICK x0 \in {<<"result", 0>>, FrameOf(t)[0]} :
        frames' = [frames EXCEPT ![1] = [frames[1] EXCEPT ![0] = x0]]
  BY <1>6, Zenon DEF SvcResult, Inner
<1>8. [FrameOf(t) EXCEPT ![0] = x0] \in Returns(t)
  <2>1. [FrameOf(t) EXCEPT ![0] = FrameOf(t)[0]] = FrameOf(t)
    BY Zenon DEF FrameOf
  <2> QED
    BY <1>4, <1>5, <1>7, <2>1 DEF Returns
<1>9. frames' = <<[FrameOf(t) EXCEPT ![0] = x0]>>
  BY <1>4, <1>5, <1>6, <1>7
<1>10. Progress(t)'
  BY <1>1, <1>8, <1>9, Zenon DEF Progress, At
<1>11. Full(regs')
  BY <1>1, RegistersFull
<1>12. taken[1]' = t
  BY <1>1, <1>5
<1> QED
  BY <1>1, <1>2, <1>10, <1>11, <1>12, ExceptionGoesOn

\* The interrupt handler changes no word of the frame.
LEMMA HandleIrqStep ==
  ASSUME ContextInv, HandleIrq
  PROVE  ContextInv' /\ InException' /\ pc' = At("restore", pc.vector)
<1>1. /\ pc = At("handle", "irq") /\ pc' = At("restore", pc.vector)
      /\ UNCHANGED <<el, mask, esr, taken, frames>> /\ regs' = Scratch(CallerSaved)
  BY DEF HandleIrq
<1>2. InException
  BY <1>1, PlacesDiffer
<1>3. pc.place = "handle"
  BY <1>1, ZenonT(30) DEF At
<1>4. frames = <<FrameOf(taken[1])>>
  BY <1>2, <1>3 DEF InException, Progress
<1>5. FrameOf(taken[1]) \in Returns(taken[1])
  BY DEF Returns
<1>6. PICK t : t = taken[1]
  OBVIOUS
<1>7. Progress(t)'
  BY <1>1, <1>4, <1>5, <1>6, Zenon DEF Progress, At
<1>8. Full(regs') /\ taken[1]' = t
  BY <1>1, <1>6, RegistersFull
<1> QED
  BY <1>1, <1>2, <1>7, <1>8, ExceptionGoesOn

\* The handler of a fault does not return.
LEMMA HandleFaultStep ==
  ASSUME ContextInv, HandleFault
  PROVE  ContextInv' /\ Stopped'
<1>1. /\ pc = At("handle", "sync") /\ esr = "fault" /\ pc' = Code("stopped")
      /\ UNCHANGED <<el, mask, esr, regs, frames, taken>>
  BY DEF HandleFault
<1>2. pc.place = "handle" /\ pc # At("save", "sync")
  BY <1>1 DEF At
<1>3. /\ el = 1 /\ mask = {"A", "I", "F"}
      /\ One(frames) \/ Two(frames)
      /\ One(taken) \/ Two(taken)
  <2>1. CASE InException
    BY <1>2, <2>1 DEF InException, Progress, One
  <2>2. CASE InFault
    BY <1>2, <2>2 DEF InFault
  <2> QED
    BY <1>1, <2>1, <2>2, PlacesDiffer
<1>4. Stopped'
  BY <1>1, <1>3, ZenonT(30) DEF Stopped, One, Two
<1> QED
  BY <1>1, <1>4 DEF ContextInv, Full

\* __exception_restore_context, in its two parts.
LEMMA RestoreSystemStep ==
  ASSUME ContextInv, RestoreSystem
  PROVE  ContextInv' /\ InException' /\ pc' = At("restore_gprs", pc.vector)
<1>1. /\ pc.place = "restore" /\ pc' = At("restore_gprs", pc.vector)
      /\ spsr' = frames[Inner][SPSR] /\ sp_el0' = frames[Inner][SP]
      /\ elr' = frames[Inner][PC]
      /\ regs' = [Scratch({19, 20}) EXCEPT ![LR] = frames[Inner][LR]]
      /\ UNCHANGED <<el, mask, esr, frames, taken>>
  BY DEF RestoreSystem
<1>2. InException
  BY <1>1, PlacesDiffer, ZenonT(30)
<1>3. PICK t : t = taken[1]
  OBVIOUS
<1>4. PICK f \in Returns(t) : frames = <<f>>
  BY <1>1, <1>2, <1>3 DEF InException, Progress
<1>5. frames[Inner] = f
  BY <1>4, ZenonT(30) DEF Inner
<1>6. f[PC] = t.ret /\ f[SPSR] = StatusOf(t) /\ f[SP] = t.sp_el0 /\ f[LR] = t.regs[LR]
  <2>1. LR \in 1 .. LR
    BY DEF LR
  <2> QED
    BY <2>1, ReturnWords
<1>7. Full(regs') /\ regs'[LR] = f[LR]
  <2>1. Full(Scratch({19, 20}))
    BY RegistersFull
  <2>2. regs' = [Scratch({19, 20}) EXCEPT ![LR] = f[LR]]
    BY <1>1, <1>5
  <2> QED
    BY <2>1, <2>2, LinkRegister, Zenon
<1>8. Progress(t)'
  BY <1>1, <1>4, <1>5, <1>6, <1>7, Zenon DEF Progress, SystemOf, StatusOf, At
<1>9. taken[1]' = t
  BY <1>1, <1>3
<1> QED
  BY <1>1, <1>2, <1>7, <1>8, <1>9, ExceptionGoesOn

\* The eret of a vector gives back what the exception interrupted.
LEMMA RestoreGprsStep ==
  ASSUME ContextInv, RestoreGprs
  PROVE  ContextInv' /\ InThread' /\ ReturnsExactly
<1>1. /\ pc.place = "restore_gprs"
      /\ regs' = [i \in 0 .. 30 |-> IF i = LR THEN regs[i] ELSE frames[Inner][i]]
      /\ frames' = Outer(frames) /\ taken' = Outer(taken)
      /\ pc' = elr /\ el' = spsr.el /\ mask' = spsr.mask /\ sp_el0' = sp_el0
  BY DEF RestoreGprs, Eret, system
<1>2. InException
  BY <1>1, PlacesDiffer
<1>3. PICK t : t = taken[1]
  OBVIOUS
<1>4. /\ One(taken) /\ FromThread(t)
      /\ elr = t.ret /\ spsr = StatusOf(t) /\ sp_el0 = t.sp_el0
      /\ regs[LR] = t.regs[LR]
      /\ \E f \in Returns(t) : frames = <<f>>
  BY <1>1, <1>2, <1>3, Zenon DEF InException, Progress, SystemOf
<1>5. PICK f \in Returns(t) : frames = <<f>>
  BY <1>4
<1>6. frames[Inner] = f /\ One(frames)
  BY <1>5, Zenon DEF Inner, One
<1>7. frames' = <<>> /\ taken' = <<>> /\ taken[Len(taken)] = t
  BY <1>1, <1>3, <1>4, <1>6, DropOne, Zenon
<1>8. pc' = t.ret /\ el' = t.el /\ mask' = t.mask /\ sp_el0' = t.sp_el0
  BY <1>1, <1>4, Zenon DEF StatusOf
<1>9. regs' = [i \in 0 .. 30 |-> IF i = LR THEN t.regs[LR] ELSE f[i]]
  BY <1>1, <1>4, <1>6, Zenon DEF LR
<1>10. /\ \A i \in 1 .. LR : f[i] = t.regs[i]
       /\ f[0] = t.regs[0] \/ (t.svc /\ f[0] = <<"result", 0>>)
  BY ReturnWords, Zenon
<1>11. regs' \in {t.regs} \cup
                 IF t.svc THEN {[t.regs EXCEPT ![0] = <<"result", 0>>]} ELSE {}
  <2>1. t.regs = [i \in 0 .. 30 |-> t.regs[i]]
    BY <1>4 DEF FromThread, Full
  <2>2. CASE f[0] = t.regs[0]
    <3>1. regs' = [i \in 0 .. 30 |-> t.regs[i]]
      BY <1>9, <1>10, <2>2 DEF LR
    <3> QED
      BY <2>1, <3>1
  <2>3. CASE t.svc /\ f[0] = <<"result", 0>>
    <3>1. regs' = [i \in 0 .. 30 |-> IF i = 0 THEN <<"result", 0>> ELSE t.regs[i]]
      BY <1>9, <1>10, <2>3 DEF LR
    <3>2. [t.regs EXCEPT ![0] = <<"result", 0>>]
            = [i \in 0 .. 30 |-> IF i = 0 THEN <<"result", 0>> ELSE t.regs[i]]
      BY <2>1, Zenon
    <3> QED
      BY <2>3, <3>1, <3>2
  <2> QED
    BY <1>10, <2>2, <2>3, ZenonT(30)
<1>12. ReturnsExactly
  BY <1>7, <1>8, <1>11, Zenon DEF ReturnsExactly
<1>13. InThread'
  BY <1>4, <1>7, <1>8, Zenon DEF InThread, FromThread, UserCode
<1>14. Full(regs')
  BY <1>1 DEF Full
<1> QED
  BY <1>12, <1>13, <1>14, ZenonT(30) DEF ContextInv

-----------------------------------------------------------------------------
\* Steps that do not concern the controller, outside of an interrupt.
EntryCode == {Code("kmain"), Code("start"), Code("eret")}
IrqPlaces == {At("save", "irq"), At("save_system", "irq"), At("handle", "irq")}

\* Outside of the interrupt vector no interrupt is being handled.
LEMMA IdleOutside ==
  ASSUME GicInv, pc \notin IrqPlaces
  PROVE  handler = "idle" /\ active = {}
BY DEF GicInv, IrqPlaces, At

\* A step outside of the interrupt vector leaves the controller idle.
LEMMA QuietStep ==
  ASSUME GicInv, pc \notin IrqPlaces, pc' \notin IrqPlaces,
         line' \subseteq Ids, UNCHANGED <<active, handler, iar>>,
         gicd_ctlr' = gicd_ctlr \/ pc' \notin EntryCode,
         Entering \/ pc' \notin EntryCode
  PROVE  GicInv'
<1>1. handler' = "idle" /\ active' = {}
  BY IdleOutside
<1>2. (Entering => gicd_ctlr = 0)'
  <2>1. Entering' => pc' \in EntryCode
    BY DEF Entering, EntryCode
  <2> QED
    BY <2>1 DEF GicInv
<1>3. pc' \notin {At("save", "irq"), At("save_system", "irq")}
  BY DEF IrqPlaces
<1> QED
  BY <1>1, <1>2, <1>3 DEF GicInv

\* A step that returns from no exception has nothing to give back.
LEMMA NothingReturned ==
  ASSUME ContextInv, taken' = taken
  PROVE  ReturnsExactly
<1>1. Len(taken) \in Nat
  BY DEF ContextInv, Entering, InThread, InException, InFault, Stopped, One, Two
<1>2. ~(Len(taken') < Len(taken))
  BY <1>1
<1> QED
  BY <1>2 DEF ReturnsExactly

\* Steps of others leave the context alone.
LEMMA UnchangedContext ==
  ASSUME ContextInv, UNCHANGED context
  PROVE  ContextInv' /\ ReturnsExactly /\ (Entering' <=> Entering)
<1>1. /\ el' = el /\ mask' = mask /\ pc' = pc /\ elr' = elr /\ spsr' = spsr /\ esr' = esr
      /\ sp_el0' = sp_el0 /\ regs' = regs /\ frames' = frames /\ taken' = taken
  BY DEF context
<1>2. Entering' <=> Entering
  BY <1>1 DEF Entering
<1>3. InThread' <=> InThread
  BY <1>1 DEF InThread
<1>4. InException' <=> InException
  BY <1>1, Zenon DEF InException, Progress, SystemOf
<1>5. InFault' <=> InFault
  BY <1>1 DEF InFault
<1>6. Stopped' <=> Stopped
  BY <1>1 DEF Stopped
<1>7. Full(regs') <=> Full(regs)
  BY <1>1
<1>8. ContextInv'
  BY <1>2, <1>3, <1>4, <1>5, <1>6, <1>7, Zenon DEF ContextInv
<1> QED
  BY <1>1, <1>2, <1>8, NothingReturned

\* Steps of the core that leave the controller alone.
LEMMA RegistersStep ==
  ASSUME ContextInv, GicInv, Registers
  PROVE  ContextInv' /\ GicInv' /\ ReturnsExactly
<1> USE DEF EntryCode, IrqPlaces, At, Code
<1>1. /\ line' = line /\ active' = active /\ handler' = handler /\ iar' = iar
      /\ gicd_ctlr' = gicd_ctlr /\ line' \subseteq Ids
  BY DEF Registers, gic, GicInv
<1>2. CASE EnterThread
  <2>1. ContextInv' /\ pc' = Code("user") /\ taken' = taken
    BY <1>2, EnteringSteps, PlacesDiffer, Zenon DEF EnterThread, Eret, Entering
  <2>2. GicInv'
    BY <1>1, <1>2, <2>1, QuietStep DEF EnterThread
  <2> QED
    BY <2>1, <2>2, NothingReturned
<1>3. CASE \E stamp \in Stamps : User(stamp)
  <2>1. ContextInv' /\ pc' = Code("user2") /\ taken' = taken /\ InThread
    BY <1>3, UserStep, PlacesDiffer DEF User
  <2>2. GicInv'
    BY <1>1, <2>1, QuietStep DEF InThread, UserCode
  <2> QED
    BY <2>1, <2>2, NothingReturned
<1>4. CASE Svc \/ ThreadFault
  <2>1. InThread
    BY <1>4, PlacesDiffer DEF Svc, ThreadFault
  <2>2. PICK ret \in UserCode, cause \in {"svc", "fault"} : Take("sync", ret, cause)
    BY <1>4, <2>1 DEF Svc, ThreadFault, InThread, UserCode
  <2>3. ContextInv' /\ pc' = At("save", "sync") /\ InException'
    BY <2>1, <2>2, TakeStep
  <2>4. GicInv'
    BY <1>1, <2>1, <2>3, QuietStep DEF InThread, UserCode
  <2>5. ReturnsExactly
    <3>1. taken = <<>> /\ One(taken')
      BY <2>1, <2>3 DEF InThread, InException, One
    <3>2. ~(Len(taken') < Len(taken))
      BY <3>1, SMTT(30) DEF One
    <3> QED
      BY <3>2 DEF ReturnsExactly
  <2> QED
    BY <2>3, <2>4, <2>5
<1>5. CASE KernelFault
  <2>1. ContextInv' /\ pc' = At("save", "sync") /\ pc = At("handle", "sync") /\ Two(taken')
    BY <1>5, KernelFaultStep DEF KernelFault, InFault, Two
  <2>2. GicInv'
    BY <1>1, <2>1, QuietStep, ZenonT(30)
  <2>3. One(taken)
    BY <1>5, PlacesDiffer DEF KernelFault, InException
  <2>4. ~(Len(taken') < Len(taken))
    BY <2>1, <2>3 DEF One, Two
  <2> QED
    BY <2>1, <2>2, <2>4 DEF ReturnsExactly
<1>6. CASE SaveGprs
  <2>1. /\ ContextInv' /\ pc' = At("save_system", pc.vector) /\ taken' = taken
        /\ pc \in {At("save", "sync"), At("save", "irq")}
    BY <1>6, SaveGprsStep, PlacesDiffer, Zenon DEF SaveGprs, InException, InFault
  <2>2. GicInv'
    <3>1. CASE pc = At("save", "sync")
      BY <1>1, <2>1, <3>1, QuietStep, Zenon
    <3>2. CASE pc = At("save", "irq")
      <4>1. handler = "handle_irq" /\ active = {}
        BY <3>2 DEF GicInv
      <4>2. pc' = At("save_system", "irq")
        BY <2>1, <3>2
      <4>3. ~Entering'
        BY <4>2 DEF Entering
      <4> QED
        BY <1>1, <4>1, <4>2, <4>3, Zenon DEF GicInv
    <3> QED
      BY <2>1, <3>1, <3>2
  <2> QED
    BY <2>1, <2>2, NothingReturned
<1>7. CASE SaveSystem
  <2>1. /\ ContextInv' /\ pc' = At("handle", pc.vector) /\ taken' = taken
        /\ pc \in {At("save_system", "sync"), At("save_system", "irq")}
    BY <1>7, SaveSystemStep, PlacesDiffer, Zenon DEF SaveSystem, InException, InFault
  <2>2. GicInv'
    <3>1. CASE pc = At("save_system", "sync")
      BY <1>1, <2>1, <3>1, QuietStep, ZenonT(30)
    <3>2. CASE pc = At("save_system", "irq")
      <4>1. handler = "handle_irq" /\ active = {}
        BY <3>2 DEF GicInv
      <4>2. pc' = At("handle", "irq")
        BY <2>1, <3>2
      <4>3. ~Entering'
        BY <4>2 DEF Entering
      <4> QED
        BY <1>1, <4>1, <4>2, <4>3 DEF GicInv
    <3> QED
      BY <2>1, <3>1, <3>2
  <2> QED
    BY <2>1, <2>2, NothingReturned
<1>8. CASE HandleFault
  <2>1. ContextInv' /\ pc' = Code("stopped") /\ pc = At("handle", "sync") /\ taken' = taken
    BY <1>8, HandleFaultStep DEF HandleFault
  <2>2. GicInv'
    BY <1>1, <2>1, QuietStep
  <2> QED
    BY <2>1, <2>2, NothingReturned
<1>9. CASE RestoreSystem
  <2>1. /\ ContextInv' /\ pc' = At("restore_gprs", pc.vector) /\ pc.place = "restore"
        /\ taken' = taken
    BY <1>9, RestoreSystemStep DEF RestoreSystem
  <2>2. GicInv'
    BY <1>1, <2>1, QuietStep
  <2> QED
    BY <2>1, <2>2, NothingReturned, ZenonT(30)
<1>10. CASE RestoreGprs
  <2>1. ContextInv' /\ pc' \in UserCode /\ pc.place = "restore_gprs" /\ ReturnsExactly
    BY <1>10, RestoreGprsStep DEF RestoreGprs, InThread, UserCode
  <2>2. GicInv'
    BY <1>1, <2>1, QuietStep DEF UserCode
  <2> QED
    BY <2>1, <2>2, ZenonT(30)
<1> QED
  BY <1>2, <1>3, <1>4, <1>5, <1>6, <1>7, <1>8, <1>9, <1>10, ZenonT(30) DEF Registers

\* Steps of the core and the controller together.
LEMMA EnterSteps ==
  ASSUME ContextInv, GicInv, Enable \/ SetThread
  PROVE  ContextInv' /\ GicInv' /\ ReturnsExactly
<1> USE DEF EntryCode, IrqPlaces, At, Code
<1>1. /\ EnableInterrupts \/ SetThreadRegisters
      /\ line' = line /\ active' = active /\ handler' = handler /\ iar' = iar
      /\ gicd_ctlr' = gicd_ctlr /\ line' \subseteq Ids
  BY DEF Enable, SetThread, gic, GicInv
<1>2. /\ pc \in {Code("kmain"), Code("start")} /\ pc' \in {Code("start"), Code("eret")}
      /\ taken' = taken
  BY <1>1 DEF EnableInterrupts, SetThreadRegisters
<1>3. ContextInv' /\ Entering
  BY <1>1, <1>2, EnteringSteps, PlacesDiffer
<1>4. GicInv'
  BY <1>1, <1>2, <1>3, QuietStep
<1> QED
  BY <1>2, <1>3, <1>4, NothingReturned

\* A syscall may set the controller up, and interrupts nothing.
LEMMA HandleSvcStep ==
  ASSUME ContextInv, GicInv, HandleSvc
  PROVE  ContextInv' /\ GicInv' /\ ReturnsExactly
<1> USE DEF EntryCode, IrqPlaces, At, Code
<1>1. SvcResult /\ pc = At("handle", "sync") /\ taken' = taken
  BY Zenon DEF HandleSvc, SvcResult
<1>2. ContextInv' /\ pc' = At("restore", "sync")
  BY <1>1, SvcResultStep, ZenonT(30)
<1>3. /\ line' = line /\ active' = active /\ handler' = handler /\ iar' = iar
      /\ line' \subseteq Ids
  BY DEF HandleSvc, InitGic, gic, GicInv
<1>4. GicInv'
  BY <1>1, <1>2, <1>3, QuietStep
<1> QED
  BY <1>1, <1>2, <1>4, NothingReturned

\* Before the thread has had init_gic called, no interrupt is signalled.
LEMMA IrqStep ==
  ASSUME ContextInv, GicInv, Irq
  PROVE  ContextInv' /\ GicInv' /\ ReturnsExactly
<1>1. /\ "I" \notin mask /\ Take("irq", pc, esr)
      /\ handler = "idle" /\ Candidates # {} /\ handler' = "handle_irq"
      /\ UNCHANGED <<line, active>>
  BY DEF Irq, VectorIrq, SignalIrq
<1>2. gicd_ctlr = 1
  BY <1>1 DEF Candidates
<1>3. InThread
  BY <1>1, <1>2, PlacesDiffer DEF GicInv
<1>4. ContextInv' /\ InException' /\ pc' = At("save", "irq")
  BY <1>1, <1>3, TakeStep DEF InThread
<1>5. ~Entering'
  BY <1>4 DEF Entering, At, Code
<1>6. active = {} /\ line \subseteq Ids
  BY <1>1, ZenonT(30) DEF GicInv
<1>7. GicInv'
  BY <1>1, <1>4, <1>5, <1>6 DEF GicInv
<1>8. taken = <<>> /\ One(taken')
  BY <1>3, <1>4 DEF InThread, InException, One
<1>9. ~(Len(taken') < Len(taken))
  BY <1>8 DEF One
<1> QED
  BY <1>4, <1>7, <1>9, Zenon DEF ReturnsExactly

\* handle_irq ends what it acknowledges.
LEMMA IrqHandlerStep ==
  ASSUME ContextInv, GicInv, IrqHandler
  PROVE  ContextInv' /\ GicInv' /\ ReturnsExactly
<1>1. /\ pc = At("handle", "irq")
      /\ Acknowledge \/ Route \/ EndOfInterrupt
      /\ IF handler' = "idle" THEN HandleIrq ELSE UNCHANGED context
  BY DEF IrqHandler
<1>2. CASE handler' = "idle"
  <2>1. ContextInv' /\ pc' = At("restore", "irq") /\ taken' = taken
    BY <1>1, <1>2, HandleIrqStep DEF HandleIrq, At
  <2>2. active' = {} /\ line' \subseteq Ids
    <3>1. CASE Acknowledge
      BY <1>2, <3>1 DEF Acknowledge
    <3>2. CASE Route
      BY <1>2, <3>2 DEF Route, GicInv
    <3>3. CASE EndOfInterrupt
      BY <3>3 DEF EndOfInterrupt, GicInv
    <3> QED
      BY <1>1, <3>1, <3>2, <3>3
  <2>3. ~Entering'
    BY <2>1 DEF Entering, At, Code
  <2>4. pc' \notin {At("save", "irq"), At("save_system", "irq")}
    BY <2>1, Zenon DEF At
  <2>5. GicInv'
    BY <1>2, <2>2, <2>3, <2>4 DEF GicInv
  <2> QED
    BY <2>1, <2>5, NothingReturned, Zenon
<1>3. CASE handler' # "idle"
  <2>1. pc' = pc
    BY <1>1, <1>3 DEF context
  <2>2. ContextInv' /\ ReturnsExactly
    BY <1>1, <1>3, UnchangedContext
  <2>3. pc' = At("handle", "irq") /\ ~Entering'
    <3>1. pc' = At("handle", "irq")
      BY <1>1, <2>1
    <3>2. ~Entering'
      BY <3>1 DEF Entering, At, Code
    <3> QED
      BY <3>1, <3>2
  <2>4. CASE Acknowledge
    <3>1. handler = "handle_irq" /\ active = {} /\ line' = line /\ handler' = "route"
      BY <2>4 DEF Acknowledge, GicInv
    <3>2. active' = IF iar' = Spurious THEN {} ELSE {iar'}
      <4>1. CASE Candidates = {}
        BY <2>4, <3>1, <4>1 DEF Acknowledge
      <4>2. CASE Candidates # {}
        <5>1. PICK i \in Highest : iar' = i /\ active' = active \cup {i}
          BY <2>4, <4>2 DEF Acknowledge
        <5>2. i \in Ids
          BY Zenon DEF Highest, Candidates, GicInv
        <5> QED
          BY <3>1, <5>1, <5>2, GicAssumption
      <4> QED
        BY <4>1, <4>2
    <3>3. GicInv'
      BY <2>3, <3>1, <3>2 DEF GicInv
    <3> QED
      BY <2>2, <3>3, Zenon
  <2>5. CASE Route
    <3>1. /\ handler = "route" /\ active' = active /\ iar' = iar /\ line' \subseteq line
          /\ iar # Spurious /\ handler' = "eoi"
      BY <1>3, <2>5, Zenon DEF Route
    <3>2. GicInv'
      BY <2>3, <3>1 DEF GicInv
    <3> QED
      BY <2>2, <3>2
  <2>6. CASE EndOfInterrupt
    BY <1>3, <2>6, Zenon DEF EndOfInterrupt
  <2> QED
    BY <1>1, <2>4, <2>5, <2>6
<1> QED
  BY <1>2, <1>3

-----------------------------------------------------------------------------
LEMMA CoreStep ==
  ASSUME CoreInv, [Next]_vars
  PROVE  CoreInv' /\ [ReturnsExactly]_context
<1> USE DEF CoreInv
<1>1. ASSUME UNCHANGED boot
      PROVE  BootInv'
  BY <1>1 DEF boot, BootInv, Agrees
<1>2. ASSUME UNCHANGED context, UNCHANGED <<gicd_ctlr, active, handler, iar>>,
             line' \subseteq Ids
      PROVE  ContextInv' /\ GicInv' /\ ReturnsExactly
  <2>1. pc' = pc
    BY <1>2 DEF context
  <2>2. ContextInv' /\ ReturnsExactly /\ (Entering' <=> Entering)
    BY <1>2, UnchangedContext, Zenon
  <2>3. GicInv'
    BY <1>2, <2>1, <2>2, ZenonT(30) DEF GicInv
  <2> QED
    BY <2>2, <2>3
<1>3. CASE Booting
  <2>1. BootInv'
    BY <1>3, AdvanceStep, TlbFillStep DEF Booting
  <2>2. UNCHANGED context /\ UNCHANGED gic
    BY <1>3 DEF Booting
  <2> QED
    BY <1>2, <2>1, <2>2 DEF gic, GicInv
<1>4. CASE Enable
  BY <1>1, <1>4, EnterSteps DEF Enable
<1>5. CASE SetThread
  BY <1>5, EnterSteps, SetThreadStep DEF SetThread
<1>6. CASE Registers
  BY <1>1, <1>6, RegistersStep DEF Registers
<1>7. CASE HandleSvc
  BY <1>1, <1>7, HandleSvcStep DEF HandleSvc
<1>8. CASE Lines
  <2>1. /\ UNCHANGED boot /\ UNCHANGED context
        /\ UNCHANGED <<gicd_ctlr, active, handler, iar>> /\ line' \subseteq Ids
    BY <1>8 DEF Lines, Raise, Lower, registers, GicInv
  <2> QED
    BY <1>1, <1>2, <2>1, ZenonT(30)
<1>9. CASE Irq
  BY <1>1, <1>9, IrqStep DEF Irq
<1>10. CASE IrqHandler
  BY <1>1, <1>10, IrqHandlerStep, ZenonT(30) DEF IrqHandler
<1>11. CASE UNCHANGED vars
  <2>1. UNCHANGED boot /\ UNCHANGED context /\ UNCHANGED gic
    BY <1>11 DEF vars
  <2> QED
    BY <1>1, <1>2, <2>1 DEF gic, GicInv
<1> QED
  BY <1>3, <1>4, <1>5, <1>6, <1>7, <1>8, <1>9, <1>10, <1>11, ZenonT(30) DEF Next

(***************************************************************************)
(* The invariant of the core: where the boot has moved its pointers and    *)
(* what the TLB may hold, what each word of a frame holds at each place of *)
(* the vectors, and where handle_irq is while an interrupt is active.      *)
(***************************************************************************)
THEOREM CoreInvariant == Spec => []CoreInv
<1>1. Init => CoreInv
  <2> SUFFICES ASSUME Init PROVE CoreInv
    OBVIOUS
  <2>1. BootInv
    BY Zenon DEF Init, BootInit, BootInv, Physical, Translated, Ejected
  <2>2. Entering /\ Full(regs)
    BY RegistersFull, Zenon DEF Init, ContextInit, Entering
  <2>3. GicInv
    BY Zenon DEF Init, ContextInit, GicInit, GicInv, At, Code
  <2> QED
    BY <2>1, <2>2, <2>3 DEF CoreInv, ContextInv
<1> QED
  BY <1>1, CoreStep, PTL DEF Spec

(***************************************************************************)
(* From reset to the thread the core finds its code, its stack and its     *)
(* vectors in the kernel image, for tables of any size, wherever the image *)
(* is, and whatever translations firmware left in the TLB.                 *)
(***************************************************************************)
THEOREM ImageAlwaysFound == Spec => []CoreFindsImage
BY CoreInvariant, BootInvCore, PTL DEF CoreInv

(***************************************************************************)
(* virt and virt_dev reach every block of physical memory, and putc the    *)
(* UART, from kmain on.                                                    *)
(***************************************************************************)
THEOREM HighMemoryMapped == Spec => []HighMemory
BY CoreInvariant, BootInvHigh, PTL DEF CoreInv

(***************************************************************************)
(* Nothing translates a low address once eject_lowmem is done.             *)
(***************************************************************************)
THEOREM LowMemoryEjected == Spec => []LowMemoryGone
BY CoreInvariant, BootInvLow, PTL DEF CoreInv

(***************************************************************************)
(* No interrupt comes between the registers that Thread::enter writes and  *)
(* its eret.                                                               *)
(***************************************************************************)
THEOREM EnterIsUndisturbed == Spec => []EnterUndisturbed
<1>1. CoreInv => EnterUndisturbed
  <2> SUFFICES ASSUME ContextInv, pc = Code("eret")
               PROVE  elr = Code("user") /\ spsr = ThreadStatus /\ frames = <<>>
    BY DEF CoreInv, EnterUndisturbed
  <2>1. Entering
    BY PlacesDiffer
  <2> QED
    BY <2>1 DEF Entering, Code, At
<1> QED
  BY <1>1, CoreInvariant, PTL

(***************************************************************************)
(* The kernel's stack has one frame, or two on the way to the loop of a    *)
(* fault, and FIQ and SError stay masked.                                  *)
(***************************************************************************)
THEOREM FramesDoNotPile == Spec => []OneFrame
<1>1. CoreInv => OneFrame
  <2> SUFFICES ASSUME ContextInv PROVE OneFrame
    BY ZenonT(30) DEF CoreInv
  <2>1. {"A", "F"} \subseteq mask
    BY DEF ContextInv, Entering, InThread, InException, InFault, Stopped
  <2>2. Len(frames) > 1 => esr = "fault" /\ Len(frames) = 2
    <3>1. CASE Entering \/ InThread
      BY <3>1 DEF Entering, InThread
    <3>2. CASE InException
      <4>1. frames = <<>> \/ One(frames) \/ \E f : frames = <<f>>
        BY <3>2, Zenon DEF InException, Progress
      <4>2. PICK n \in {0, 1} : Len(frames) = n
        BY <4>1 DEF One
      <4>3. ~(n > 1)
        OBVIOUS
      <4> QED
        BY <4>2, <4>3
    <3>3. CASE InFault \/ Stopped
      BY <3>3 DEF InFault, Stopped, One, Two
    <3> QED
      BY <3>1, <3>2, <3>3 DEF ContextInv
  <2> QED
    BY <2>1, <2>2 DEF OneFrame, Fatal
<1> QED
  BY <1>1, CoreInvariant, PTL

(***************************************************************************)
(* Every interrupt that handle_irq acknowledges is ended before the core   *)
(* leaves irq_handler, for any interrupt numbers and priorities.           *)
(***************************************************************************)
THEOREM InterruptsEnd == Spec => []AllEnded
<1>1. CoreInv => AllEnded
  BY DEF CoreInv, GicInv, AllEnded, At
<1> QED
  BY <1>1, CoreInvariant, PTL

(***************************************************************************)
(* A return from an exception continues the code that was interrupted with *)
(* its level, mask, stack pointer and registers; only x0 of a syscall may  *)
(* differ.                                                                 *)
(***************************************************************************)
THEOREM ContextIsKept == Spec => ContextKept
BY CoreInvariant, CoreStep, PTL DEF Spec, ContextKept

=============================================================================
