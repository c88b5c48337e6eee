-------------------------------- MODULE Core --------------------------------
(***************************************************************************)
(* The one core of the machine from reset to the thread: the boot and the  *)
(* address translation of module Boot, then the exceptions of module       *)
(* ExceptionFrame, with the interrupts that the controller of module Gic   *)
(* signals.  kmain runs when Boot has come to it; Thread::enter switches   *)
(* the tables of Boot and the level of ExceptionFrame; an interrupt is     *)
(* taken when Gic has one and the mask of ExceptionFrame lets it through;  *)
(* irq_handler runs the steps of handle_irq; and a syscall may be          *)
(* LoadKernelDevice, which runs init_gic.                                  *)
(***************************************************************************)
EXTENDS Boot, ExceptionFrame, Gic

vars == <<boot, context, gic>>

Init == BootInit /\ ContextInit /\ GicInit

-----------------------------------------------------------------------------
\* Up to kmain, with interrupts masked; the TLB is filled at any time.
Booting ==
  /\ Advance \/ \E v \in 0 .. (2 * R * R - 1) : TlbFill(v)
  /\ UNCHANGED <<context, gic>>

\* kmain sets up the interrupt controller itself.
EnableWithGic ==
  /\ at = "kmain" /\ EnableInterrupts
  /\ \E n \in Requested : InitGic(n)
  /\ UNCHANGED boot

\* interrupts::enable in kmain.
Enable ==
  /\ at = "kmain" /\ EnableInterrupts
  /\ UNCHANGED <<boot, gic>>

\* Thread::enter: table, status, stack and address of the thread, a flush.
SetThread == SetThreadRegisters /\ SetThreadTable /\ UNCHANGED gic

\* Steps of the core that concern its registers only.
Registers ==
  /\ \/ EnterThread
     \/ \E stamp \in Stamps : User(stamp)
     \/ Svc \/ ThreadFault \/ KernelFault
     \/ SaveGprs \/ SaveSystem
     \/ HandleFault
     \/ RestoreSystem \/ RestoreGprs
  /\ UNCHANGED <<boot, gic>>

\* handle_syscall: LoadKernelDevice calls init_gic, the others do not.
HandleSvc ==
  /\ SvcResult
  /\ UNCHANGED gic \/ \E n \in Requested : InitGic(n)
  /\ UNCHANGED boot

\* Lines of devices.
Lines ==
  /\ \E i \in Ids : Raise(i) \/ Lower(i)
  /\ UNCHANGED <<boot, context>>

Irq == VectorIrq /\ SignalIrq /\ UNCHANGED boot

\* irq_handler is handle_irq, which ends with a spurious read or an EOI.
IrqHandler ==
  /\ pc = At("handle", "irq")
  /\ Acknowledge \/ Route \/ EndOfInterrupt
  /\ IF handler' = "idle" THEN HandleIrq ELSE UNCHANGED context
  /\ UNCHANGED boot

Next ==
  \/ Booting \/ Enable \/ SetThread \/ Registers \/ HandleSvc
  \/ Lines \/ Irq \/ IrqHandler

Spec == Init /\ [][Next]_vars

-----------------------------------------------------------------------------
(***************************************************************************)
(* From kmain_nommu on, whenever an exception may come, the core finds its *)
(* code, its stack and its vectors in the kernel image, whether the TLB or *)
(* the tables translate the address: during the boot, in the thread and in *)
(* the handlers.                                                           *)
(***************************************************************************)
CoreFindsImage ==
  at # "_start" => \A v \in {code, sp, vbar} : Seen(v) = {image}

(***************************************************************************)
(* From kmain's first message on, putc writes to the UART, and a physical  *)
(* address that the kernel accesses through virt or virt_dev is the one it *)
(* means, for all of the 512 GiB that it maps.                             *)
(***************************************************************************)
HighMemory ==
  at \in {"kmain", "thread"} =>
    /\ Seen(uart0_addr) = {uart}
    /\ \A p \in 0 .. (R - 1) :
         /\ Seen(virt(p)) = {p} /\ from_virt(virt(p)) = p
         /\ Seen(virt_dev(p)) = {p}
         /\ L0((virt(p) \div R) % R) = "mem"
         /\ L0((virt_dev(p) \div R) % R) = "dev"

(***************************************************************************)
(* eject_lowmem leaves nothing behind: no low address is translated by the *)
(* boot table any more, from the tables or from the TLB, so that a thread  *)
(* has all of them for itself.                                             *)
(***************************************************************************)
LowMemoryGone ==
  at \in {"kmain", "thread"} => \A v \in 0 .. (R * R - 1) : Seen(v) = {}

(***************************************************************************)
(* Code that an exception interrupts goes on where it was, at its level,   *)
(* with its mask, its stack and all of its registers, although the vectors *)
(* and __exception_restore_context use some of them.  A syscall may change *)
(* x0 and nothing else.                                                    *)
(***************************************************************************)
ContextKept == [][ReturnsExactly]_context

(***************************************************************************)
(* Thread::enter writes ELR_EL1 and SPSR_EL1 with interrupts enabled, and  *)
(* an interrupt before its eret would overwrite both.  None comes: the GIC *)
(* delivers nothing before the thread's LoadKernelDevice, whatever lines   *)
(* devices raise.                                                          *)
(***************************************************************************)
EnterUndisturbed ==
  pc = Code("eret") =>
    elr = Code("user") /\ spsr = ThreadStatus /\ frames = <<>>

(***************************************************************************)
(* Handlers are not interrupted: the kernel's stack has one frame at most, *)
(* and a second one only on the way to the loop of a fault; FIQ and        *)
(* SError, whose vectors panic, stay masked in the thread and everywhere.  *)
(***************************************************************************)
OneFrame ==
  /\ ~Fatal
  /\ Len(frames) > 1 => esr = "fault" /\ Len(frames) = 2

(***************************************************************************)
(* Neither the thread nor a syscall runs with an interrupt still active:   *)
(* every interrupt that handle_irq acknowledges it also ends, a known one  *)
(* or not, and it ends nothing for a spurious read.  One left active would *)
(* keep the timer interrupt, which has no higher priority, from coming.    *)
(***************************************************************************)
AllEnded ==
  /\ pc.vector # "irq" => active = {}
  /\ active \subseteq {iar}

(***************************************************************************)
(* init_gic(n) leaves interrupt n enabled, with the priority of the timer, *)
(* which the mask lets pass, and every other interrupt as it was, also     *)
(* those in the same register, whatever firmware left there.               *)
(***************************************************************************)
OnlyRequested ==
  [][\A n \in Requested : InitGic(n) =>
       /\ Enabled(n)' /\ Priority(n)' = TimerPrio /\ Priority(n)' < gicc_pmr'
       /\ \A i \in Ids \ {n} : Enabled(i)' = Enabled(i) /\ Priority(i)' = Priority(i)]_gic

=============================================================================
