-------------------------------- MODULE Boot --------------------------------
(***************************************************************************)
(* How the kernel gets from physical to virtual addresses: _start of       *)
(* init.s, mmu::init, the jump of kmain_nommu into high memory,            *)
(* eject_lowmem and Thread::enter.  The core uses addresses for the next   *)
(* instruction, the stack, the exception vectors and the UART throughout;  *)
(* each has to be moved before its mapping goes away.                      *)
(*                                                                         *)
(* The unit is a block of 1 GiB, which a level 1 entry maps, and a table   *)
(* has R entries (512).  Addresses below R^2 are translated by TTBR0 and   *)
(* those from R^2 to 2 R^2 stand for the upper half, translated by TTBR1.  *)
(***************************************************************************)
EXTENDS Integers, FiniteSets

CONSTANTS
  R,            \* entries of a table
  Word,         \* blocks that 32 bits can address (4)
  Images,       \* the blocks in which the kernel image may be
  Uarts,        \* the blocks in which the UART may be
  Stale,        \* translations that firmware may have left in the TLB
  TlbSize       \* translations the TLB can hold

ASSUME BootAssumption ==
  /\ R \in Nat /\ R > 2 /\ Word \in 1 .. R /\ R % Word = 0
  /\ Images \subseteq 0 .. (Word - 1) /\ Uarts \subseteq 0 .. (R - 1)
  /\ TlbSize \in Nat

VARIABLES
  at,           \* how far the boot has come
  image, uart,  \* where image and UART are
  started_el,   \* the exception level the kernel is started at
  mmu,          \* SCTLR_EL1.M
  ttbr0, ttbr1, \* "reset", "boot" (TABLE_L0), "zero" or "thread"
  code, sp,     \* the address of the code (pc) and of the stack
  vbar,         \* the address of the vectors
  uart0_addr,   \* UART0_ADDR
  tlb           \* <<address, block>> pairs

boot == <<at, image, uart, started_el, mmu, ttbr0, ttbr1, code, sp, vbar, uart0_addr, tlb>>
places == <<image, uart, started_el>>
control == <<mmu, ttbr0, ttbr1>>
pointers == <<code, sp, vbar, uart0_addr>>

\* PhyAddr::virt, virt_dev and from_virt, which keeps 40 bits.
HighBase == R * R + (R - 2) * R
virt(p) == p + HighBase
virt_dev(p) == p + HighBase + R
from_virt(v) == v % (2 * R)

\* The orr of eject_lowmem, on an address in low or in high memory.
OrHigh(v) == IF v < R THEN v + HighBase ELSE v

\* The two high entries are swapped.
L0Swapped(i) == CASE i \in {0, R - 1} -> "mem" [] i = R - 2 -> "dev" [] OTHER -> "none"

\* make_page_table_l0: the level 1 table of entry i.
L0(i) == CASE i \in {0, R - 2} -> "mem" [] i = R - 1 -> "dev" [] OTHER -> "none"

\* make_page_table_l1: entry i of either table is block i.
L1(i) == i

\* The blocks a walk of the tables finds for v, and those the core can see.
\* A table at physical address 0, where there is no RAM, has no entries.
Walk(v) ==
  IF ~mmu THEN {v}
  ELSE IF /\ L0((v \div R) % R) # "none"
          /\ (IF v < R * R THEN ttbr0 ELSE ttbr1) = "boot"
       THEN {L1(v % R)} ELSE {}
Seen(v) == Walk(v) \cup (IF mmu THEN {e[2] : e \in {f \in tlb : f[1] = v}} ELSE {})

BootInit ==
  /\ at = "_start"
  /\ image \in Images /\ uart \in Uarts /\ started_el \in {1, 2}
  /\ mmu = FALSE /\ ttbr0 = "reset" /\ ttbr1 = "reset"
  /\ code = image /\ sp = 0 /\ vbar = 0
  /\ uart0_addr = uart
  /\ \E s \in SUBSET Stale : Cardinality(s) <= TlbSize /\ tlb = s

-----------------------------------------------------------------------------
\* _start: the linked address of the vectors and of kmain_nommu is a high
\* one, cut to 32 bits; that of the stack is physical.
Reset ==
  /\ at = "_start" /\ at' = "kmain_nommu"
  /\ vbar' = virt(image) % Word /\ code' = virt(image) % Word
  /\ sp' = image
  /\ UNCHANGED <<places, control, uart0_addr, tlb>>

KmainNommu ==
  /\ at = "kmain_nommu"
  /\ at' = IF started_el = 1 THEN "init" ELSE "panic"
  /\ UNCHANGED <<places, control, pointers, tlb>>

\* mmu::init: tables, MAIR, TCR and both base registers.
SetTables ==
  /\ at = "init" /\ at' = "tlbi"
  /\ ttbr0' = "boot" /\ ttbr1' = "boot"
  /\ UNCHANGED <<places, mmu, pointers, tlb>>

Invalidate ==
  /\ at = "tlbi" /\ at' = "enable"
  /\ tlb' = {}
  /\ UNCHANGED <<places, control, pointers>>

EnableMmu ==
  /\ at = "enable" /\ at' = "jump"
  /\ mmu' = TRUE
  /\ UNCHANGED <<places, ttbr0, ttbr1, pointers, tlb>>

\* himem_func(kmain)().
JumpHigh ==
  /\ at = "jump" /\ at' = "vbar"
  /\ code' = virt(code)
  /\ UNCHANGED <<places, control, sp, vbar, uart0_addr, tlb>>

\* eject_lowmem.  The address of _vectors is taken relative to pc.
SetVbar ==
  /\ at = "vbar" /\ at' = "sp"
  /\ vbar' = code
  /\ UNCHANGED <<places, control, code, sp, uart0_addr, tlb>>

\* The stack stays where it is.
KeepSp ==
  /\ at = "sp" /\ at' = "uart"
  /\ UNCHANGED <<places, control, pointers, tlb>>

MoveSp ==
  /\ at = "sp" /\ at' = "uart"
  /\ sp' = OrHigh(sp)
  /\ UNCHANGED <<places, control, code, vbar, uart0_addr, tlb>>

MoveUart ==
  /\ at = "uart" /\ at' = "eject"
  /\ uart0_addr' = OrHigh(uart0_addr)
  /\ UNCHANGED <<places, control, code, sp, vbar, tlb>>

ClearTtbr0 ==
  /\ at = "eject" /\ at' = "flush"
  /\ ttbr0' = "zero"
  /\ UNCHANGED <<places, mmu, ttbr1, pointers, tlb>>

\* No flush after TTBR0 is cleared.
FlushNothing ==
  /\ at = "flush" /\ at' = "kmain"
  /\ UNCHANGED <<places, control, pointers, tlb>>

Flush ==
  /\ at = "flush" /\ at' = "kmain"
  /\ tlb' = {}
  /\ UNCHANGED <<places, control, pointers>>

\* Thread::enter: the thread's table, and a flush.
SetThreadTable ==
  /\ at = "kmain" /\ at' = "thread"
  /\ ttbr0' = "thread" /\ tlb' = {}
  /\ UNCHANGED <<places, mmu, ttbr1, pointers>>

\* The core may walk the tables for any address at any time.
TlbFill(v) ==
  /\ mmu /\ Cardinality(tlb) < TlbSize
  /\ \E b \in Walk(v) : tlb' = tlb \cup {<<v, b>>}
  /\ UNCHANGED <<at, places, control, pointers>>

Advance ==
  \/ Reset \/ KmainNommu \/ SetTables \/ Invalidate \/ EnableMmu \/ JumpHigh
  \/ SetVbar \/ MoveSp \/ MoveUart \/ ClearTtbr0 \/ Flush

BootNext ==
  \/ Advance
  \/ SetThreadTable
  \/ \E v \in 0 .. (2 * R * R - 1) : TlbFill(v)

BootSpec == BootInit /\ [][BootNext]_boot

=============================================================================
