-------------------------------- MODULE Gic ---------------------------------
(***************************************************************************)
(* init_gic and handle_irq of kernel/src/drv/arm_gic.rs on the registers   *)
(* of the interrupt controller.  SleepTimer has the timer's side.          *)
(*                                                                         *)
(* An enable register has a bit for each of EnableBits interrupts (32) and *)
(* a priority register a byte, of ByteValues values, for each of PrioBytes *)
(* (4).  A lower number is a higher priority.                              *)
(***************************************************************************)
EXTENDS Integers, FiniteSets

CONSTANTS
  Ids,          \* interrupt numbers of the machine
  Timer,        \* 30, the number handle_irq knows
  Spurious,     \* 1023
  EnableBits, PrioBytes, ByteValues,
  TimerPrio,    \* 0xA0
  PMR,          \* 0xF0
  Requested,    \* values of timer_ppi_interrupt
  Firmware      \* contents of a priority register that firmware may leave

ASSUME GicAssumption ==
  /\ Ids \subseteq Nat /\ Timer \in Ids /\ Requested \subseteq Ids
  /\ Spurious \in Nat \ Ids
  /\ {EnableBits, PrioBytes, ByteValues} \subseteq Nat \ {0}
  /\ {TimerPrio, PMR} \subseteq 0 .. (ByteValues - 1)
  /\ Firmware \subseteq 0 .. (ByteValues ^ PrioBytes - 1)

VARIABLES
  isenabler, ipriorityr,  \* registers of the distributor, by index
  gicd_ctlr, gicc_ctlr, gicc_pmr,
  line,         \* interrupts that a device asks for
  active,       \* interrupts acknowledged and not yet ended
  handler, iar  \* how far handle_irq is, and its local

gic == <<isenabler, ipriorityr, gicd_ctlr, gicc_ctlr, gicc_pmr, line, active, handler, iar>>
registers == <<isenabler, ipriorityr, gicd_ctlr, gicc_ctlr, gicc_pmr>>

\* A digit of a word in some base: a bit or a byte.
Digit(word, k, base) == (word \div base ^ k) % base

\* The distributor and the CPU interface.
Enabled(i) == Digit(isenabler[i \div EnableBits], i % EnableBits, 2) = 1
Priority(i) == Digit(ipriorityr[i \div PrioBytes], i % PrioBytes, ByteValues)
Candidates ==
  {i \in line \ active : gicd_ctlr = 1 /\ gicc_ctlr = 1 /\ Enabled(i) /\ Priority(i) < gicc_pmr
                         /\ \A a \in active : Priority(i) < Priority(a)}
Highest == {i \in Candidates : \A j \in Candidates : Priority(i) <= Priority(j)}

GicInit ==
  /\ isenabler = [k \in {i \div EnableBits : i \in Ids} |-> 0]
  /\ ipriorityr \in [{i \div PrioBytes : i \in Ids} -> Firmware]
  /\ gicd_ctlr = 0 /\ gicc_ctlr = 0 /\ gicc_pmr = 0
  /\ line = {} /\ active = {}
  /\ handler = "idle" /\ iar = Spurious

-----------------------------------------------------------------------------
\* enable_bits | (1 << shift).
SetBit(word, k) == word + (1 - Digit(word, k, 2)) * 2 ^ k

\* The old priority is not cleared first.
OrByte(word, k, value) ==
  LET old == Digit(word, k, ByteValues)
  IN  word + (value - (old - (old % value))) * ByteValues ^ k

\* priority &= !(0xFF << shift); priority |= 0xA0 << shift.
SetByte(word, k, value) == word + (value - Digit(word, k, ByteValues)) * ByteValues ^ k

\* LoadKernelDevice calls init_gic, with interrupts masked.
InitGic(n) ==
  /\ handler = "idle"
  /\ isenabler' = [isenabler EXCEPT ![n \div EnableBits] = SetBit(@, n % EnableBits)]
  /\ ipriorityr' = [ipriorityr EXCEPT ![n \div PrioBytes] = SetByte(@, n % PrioBytes, TimerPrio)]
  /\ gicd_ctlr' = 1 /\ gicc_ctlr' = 1 /\ gicc_pmr' = PMR
  /\ UNCHANGED <<line, active, handler, iar>>

\* Devices: a line may also fall before the core has looked.
Raise(i) ==
  /\ i \notin line /\ line' = line \cup {i}
  /\ UNCHANGED <<registers, active, handler, iar>>
Lower(i) ==
  /\ i \in line /\ line' = line \ {i}
  /\ UNCHANGED <<registers, active, handler, iar>>

SignalIrq ==
  /\ handler = "idle" /\ Candidates # {}
  /\ handler' = "handle_irq"
  /\ UNCHANGED <<registers, line, active, iar>>

\* handle_irq: reading GICC_IAR acknowledges the interrupt.
Acknowledge ==
  /\ handler = "handle_irq"
  /\ IF Candidates = {} THEN iar' = Spurious /\ UNCHANGED active
     ELSE \E i \in Highest : iar' = i /\ active' = active \cup {i}
  /\ handler' = "route"
  /\ UNCHANGED <<registers, line>>

\* An interrupt it does not know is not ended.
RouteReturns ==
  /\ handler = "route"
  /\ line' = IF iar = Timer THEN line \ {Timer} ELSE line
  /\ handler' = IF iar = Timer THEN "eoi" ELSE "idle"
  /\ UNCHANGED <<registers, active, iar>>

\* timer_clear; nothing to end for a spurious one; others are printed.
Route ==
  /\ handler = "route"
  /\ line' = IF iar = Timer THEN line \ {Timer} ELSE line
  /\ handler' = IF iar = Spurious THEN "idle" ELSE "eoi"
  /\ UNCHANGED <<registers, active, iar>>

EndOfInterrupt ==
  /\ handler = "eoi"
  /\ active' = active \ {iar}
  /\ handler' = "idle"
  /\ UNCHANGED <<registers, line, iar>>

GicNext ==
  \/ \E n \in Requested : InitGic(n)
  \/ \E i \in Ids : Raise(i) \/ Lower(i)
  \/ SignalIrq \/ Acknowledge \/ Route \/ EndOfInterrupt

GicSpec == GicInit /\ [][GicNext]_gic

=============================================================================
