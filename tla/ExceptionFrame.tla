--------------------------- MODULE ExceptionFrame ---------------------------
(***************************************************************************)
(* The exception vectors and __exception_restore_context of init.s, the    *)
(* handlers of exceptions.rs and Thread::enter: whether the code that an   *)
(* exception interrupts finds its registers as it left them.               *)
(*                                                                         *)
(* A frame is the 34 words that the vectors write, which the handlers see  *)
(* as an ExceptionContext.  The four groups of vectors are copies of each  *)
(* other.  A register's value is a pair of who wrote it and which register *)
(* it was written to; only the words of a frame that hold a pc or a status *)
(* have values of another kind.                                            *)
(***************************************************************************)
EXTENDS Integers, Sequences

CONSTANT Stamps   \* what the thread puts into its registers

VARIABLES
  el, mask,     \* current exception level and masked exceptions (DAIF)
  pc,           \* what the core executes
  elr, spsr,    \* ELR_EL1 and SPSR_EL1
  esr,          \* ESR_EL1: "svc" or "fault"
  sp_el0,
  regs,         \* x0 to x30
  frames,       \* the frames on the kernel's stack, innermost last
  taken         \* history: what each exception in progress interrupted

context == <<el, mask, pc, elr, spsr, esr, sp_el0, regs, frames, taken>>
system == <<elr, spsr, sp_el0>>

At(place, vector) == [place |-> place, vector |-> vector]
Code(place) == At(place, "none")
Written(by) == [i \in 0 .. 30 |-> <<by, i>>]
Scratch(set) == [i \in 0 .. 30 |-> IF i \in set THEN <<"scratch", i>> ELSE regs[i]]
Inner == Len(frames)
Outer(s) == SubSeq(s, 1, Len(s) - 1)

\* Words of an ExceptionContext; those before are gpr.
LR == 30
PC == 31
SPSR == 32
SP == 33

\* Thread::init with nothing masked.
ThreadStatusClear == [el |-> 0, mask |-> {}]

\* Thread::init: spsr = 0x140 masks SError and FIQ.
ThreadStatus == [el |-> 0, mask |-> {"A", "F"}]

ContextInit ==
  /\ el = 1 /\ mask = {"A", "I", "F"}
  /\ pc = Code("kmain")
  /\ elr = Code("none") /\ spsr = [el |-> 1, mask |-> mask] /\ esr = "svc"
  /\ sp_el0 = "none"
  /\ regs = Written("kernel")
  /\ frames = <<>> /\ taken = <<>>

-----------------------------------------------------------------------------
\* interrupts::enable, and what kmain does until it enters the thread.
EnableInterrupts ==
  /\ pc = Code("kmain")
  /\ mask' = mask \ {"I"}
  /\ pc' = Code("start")
  /\ UNCHANGED <<el, system, esr, regs, frames, taken>>

\* Thread::enter up to its eret.
SetThreadRegisters ==
  /\ pc = Code("start")
  /\ spsr' = ThreadStatus /\ sp_el0' = "DEFAULT_SP" /\ elr' = Code("user")
  /\ pc' = Code("eret")
  /\ UNCHANGED <<el, mask, esr, regs, frames, taken>>

\* eret, of Thread::enter and of __exception_restore_context.
Eret == pc' = elr /\ el' = spsr.el /\ mask' = spsr.mask

EnterThread ==
  /\ pc = Code("eret")
  /\ Eret
  /\ UNCHANGED <<system, esr, regs, frames, taken>>

\* The thread computes.
User(stamp) ==
  /\ el = 0
  /\ regs' = Written(stamp)
  /\ pc' = Code("user2")
  /\ UNCHANGED <<el, mask, system, esr, frames, taken>>

-----------------------------------------------------------------------------
\* The core takes an exception that is to return to ret.
Take(vector, ret, cause) ==
  /\ elr' = ret /\ spsr' = [el |-> el, mask |-> mask]
  /\ el' = 1 /\ mask' = {"A", "I", "F"}
  /\ esr' = cause
  /\ pc' = At("save", vector)
  /\ taken' = Append(taken, [ret |-> ret, el |-> el, mask |-> mask, sp_el0 |-> sp_el0,
                             regs |-> regs, svc |-> vector = "sync" /\ cause = "svc"])
  /\ UNCHANGED <<sp_el0, regs, frames>>

Svc == el = 0 /\ Take("sync", Code("user2"), "svc")
ThreadFault == el = 0 /\ Take("sync", pc, "fault")

\* copy_from_user of a page that is not mapped.
KernelFault == pc = At("handle", "sync") /\ esr = "svc" /\ Take("sync", pc, "fault")

\* An interrupt that the controller signals (module Core says when).
VectorIrq == "I" \notin mask /\ Take("irq", pc, esr)

\* FIQ and SError go to exception_handler, which panics; one of them is taken
\* as soon as it is not masked.
Fatal == {"A", "F"} \ mask # {}

\* The vectors: x0 to x29 ...
SaveGprs ==
  /\ pc.place = "save"
  /\ frames' = Append(frames, [i \in 0 .. SP |-> IF i < LR THEN regs[i] ELSE <<"stack", i>>])
  /\ pc' = At("save_system", pc.vector)
  /\ UNCHANGED <<el, mask, system, esr, regs, taken>>

\* ... then lr and the system registers by way of x1 and x2, and x0.
SaveSystem ==
  /\ pc.place = "save_system"
  /\ frames' = [frames EXCEPT ![Inner] =
                  [@ EXCEPT ![LR] = regs[LR], ![PC] = elr, ![SPSR] = spsr, ![SP] = sp_el0]]
  /\ regs' = Scratch({0, 1, 2})
  /\ pc' = At("handle", pc.vector)
  /\ UNCHANGED <<el, mask, system, esr, taken>>

\* The registers a handler may change, by the calling convention.
CallerSaved == (0 .. 18) \cup {LR}

\* exception_handler2 for a syscall: gpr[0] is the result, or stays (Log).
SvcResult ==
  /\ pc = At("handle", "sync") /\ esr = "svc"
  /\ \E x0 \in {<<"result", 0>>, frames[Inner][0]} :
       frames' = [frames EXCEPT ![Inner][0] = x0]
  /\ regs' = Scratch(CallerSaved)
  /\ pc' = At("restore", pc.vector)
  /\ UNCHANGED <<el, mask, system, esr, taken>>

\* exception_handler2 for anything else: the registers are printed.
HandleFault ==
  /\ pc = At("handle", "sync") /\ esr = "fault"
  /\ pc' = Code("stopped")
  /\ UNCHANGED <<el, mask, system, esr, regs, frames, taken>>

\* irq_handler.
HandleIrq ==
  /\ pc = At("handle", "irq")
  /\ regs' = Scratch(CallerSaved)
  /\ pc' = At("restore", pc.vector)
  /\ UNCHANGED <<el, mask, system, esr, frames, taken>>

\* __exception_restore_context: the system registers by way of x19 and x20.
RestoreSystem ==
  /\ pc.place = "restore"
  /\ spsr' = frames[Inner][SPSR] /\ sp_el0' = frames[Inner][SP]
  /\ elr' = frames[Inner][PC]
  /\ regs' = [Scratch({19, 20}) EXCEPT ![LR] = frames[Inner][LR]]
  /\ pc' = At("restore_gprs", pc.vector)
  /\ UNCHANGED <<el, mask, esr, frames, taken>>

\* The registers are restored first, and x19 and x20 are used after that.
RestoreGprsFirst ==
  /\ pc.place = "restore_gprs"
  /\ regs' = [i \in 0 .. 30 |-> IF i \in {19, 20, LR} THEN regs[i] ELSE frames[Inner][i]]
  /\ frames' = Outer(frames) /\ taken' = Outer(taken)
  /\ Eret
  /\ UNCHANGED <<system, esr>>

RestoreGprs ==
  /\ pc.place = "restore_gprs"
  /\ regs' = [i \in 0 .. 30 |-> IF i = LR THEN regs[i] ELSE frames[Inner][i]]
  /\ frames' = Outer(frames) /\ taken' = Outer(taken)
  /\ Eret
  /\ UNCHANGED <<system, esr>>

ContextNext ==
  \/ EnableInterrupts \/ SetThreadRegisters \/ EnterThread
  \/ \E stamp \in Stamps : User(stamp)
  \/ Svc \/ ThreadFault \/ KernelFault \/ VectorIrq
  \/ SaveGprs \/ SaveSystem
  \/ SvcResult \/ HandleFault \/ HandleIrq
  \/ RestoreSystem \/ RestoreGprs

ContextSpec == ContextInit /\ [][ContextNext]_context

-----------------------------------------------------------------------------
(***************************************************************************)
(* A step that returns from an exception continues the code that it        *)
(* interrupted with its level, mask, stack and registers.  A syscall may   *)
(* change x0.                                                              *)
(***************************************************************************)
ReturnsExactly ==
  Len(taken') < Len(taken) =>
    LET t == taken[Len(taken)]
    IN  /\ pc' = t.ret /\ el' = t.el /\ mask' = t.mask /\ sp_el0' = t.sp_el0
        /\ regs' \in {t.regs} \cup
             IF t.svc THEN {[t.regs EXCEPT ![0] = <<"result", 0>>]} ELSE {}

=============================================================================
