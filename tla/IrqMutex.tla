------------------------------ MODULE IrqMutex ------------------------------
(***************************************************************************)
(* IrqMutex and IrqGuard of kernel/src/aarch64/interrupts.rs: a lock for   *)
(* one core that works by masking interrupts.  Each guard saves the mask   *)
(* it found, so that guards can be nested and can be taken where           *)
(* interrupts are already off.                                             *)
(*                                                                         *)
(* The kernel runs in four contexts: kmain before and after it enables     *)
(* interrupts, the handler of a syscall and the handler of an interrupt.   *)
(* Each may take locks, and drops the innermost guard first as Rust's      *)
(* scopes do.  lock does not look at whether the mutex is locked; as its   *)
(* callers, no context locks a mutex that it has locked already.           *)
(***************************************************************************)
EXTENDS Integers, Sequences

CONSTANTS
  Mutexes,      \* the statics of type IrqMutex (PAGE_ALLOC is one)
  MaxGuards     \* bound: guards a context holds at a time

ASSUME GuardsAssumption == MaxGuards \in Nat \ {0}

VARIABLES
  masked,       \* the I bit of DAIF
  pending,      \* a device asks for an interrupt
  ctx,          \* the context that runs, in the kernel or "user"
  interrupted,  \* the context an interrupt returns to
  guards,       \* guards[c]: the guards of context c, innermost last
  locking       \* locking[c]: the guard lock() is about to return, if any

vars == <<masked, pending, ctx, interrupted, guards, locking>>
locks == <<guards, locking>>

Contexts == {"early", "started", "svc", "irq"}
Guard(mutex, prev_state) == [mutex |-> mutex, prev_state |-> prev_state]
NoGuard == <<>>
Outer(s) == SubSeq(s, 1, Len(s) - 1)

\* The core comes out of reset with interrupts masked.
Init ==
  /\ masked = TRUE
  /\ pending = FALSE
  /\ ctx = "early"
  /\ interrupted = "early"
  /\ guards = [c \in Contexts |-> <<>>]
  /\ locking = [c \in Contexts |-> NoGuard]

\* An interrupt is taken before the next instruction once it is not masked.
Preempted == pending /\ ~masked

\* The context c runs, and is not inside lock() or a guard's scope.
Outside(c) ==
  /\ ctx = c /\ ~Preempted
  /\ c \in Contexts => guards[c] = <<>> /\ locking[c] = NoGuard

-----------------------------------------------------------------------------
\* A lock whose read of DAIF comes after the disable.
LockReadLate(mutex) ==
  /\ ctx \in Contexts /\ ~Preempted
  /\ locking[ctx] = NoGuard
  /\ Len(guards[ctx]) < MaxGuards
  /\ \A i \in 1 .. Len(guards[ctx]) : guards[ctx][i].mutex # mutex
  /\ locking' = [locking EXCEPT ![ctx] = Guard(mutex, TRUE)]
  /\ UNCHANGED <<masked, pending, ctx, interrupted, guards>>

\* lock: the state of DAIF is read ...
LockRead(mutex) ==
  /\ ctx \in Contexts /\ ~Preempted
  /\ locking[ctx] = NoGuard
  /\ Len(guards[ctx]) < MaxGuards
  /\ \A i \in 1 .. Len(guards[ctx]) : guards[ctx][i].mutex # mutex
  /\ locking' = [locking EXCEPT ![ctx] = Guard(mutex, masked)]
  /\ UNCHANGED <<masked, pending, ctx, interrupted, guards>>

\* A lock that reads DAIF and forgets to disable interrupts.
LockNoDisable ==
  /\ ctx \in Contexts /\ ~Preempted
  /\ locking[ctx] # NoGuard
  /\ guards' = [guards EXCEPT ![ctx] = Append(@, locking[ctx])]
  /\ locking' = [locking EXCEPT ![ctx] = NoGuard]
  /\ UNCHANGED <<masked, pending, ctx, interrupted>>

\* ... then interrupts are disabled, and the guard is returned.
LockDisable ==
  /\ ctx \in Contexts /\ ~Preempted
  /\ locking[ctx] # NoGuard
  /\ masked' = TRUE
  /\ guards' = [guards EXCEPT ![ctx] = Append(@, locking[ctx])]
  /\ locking' = [locking EXCEPT ![ctx] = NoGuard]
  /\ UNCHANGED <<pending, ctx, interrupted>>

\* A drop that enables interrupts instead of restoring the saved state.
DropEnables ==
  /\ ctx \in Contexts /\ ~Preempted
  /\ locking[ctx] = NoGuard
  /\ guards[ctx] # <<>>
  /\ masked' = FALSE
  /\ guards' = [guards EXCEPT ![ctx] = Outer(@)]
  /\ UNCHANGED <<pending, ctx, interrupted, locking>>

\* A drop that leaves interrupts disabled.
DropKeeps ==
  /\ ctx \in Contexts /\ ~Preempted
  /\ locking[ctx] = NoGuard
  /\ guards[ctx] # <<>>
  /\ guards' = [guards EXCEPT ![ctx] = Outer(@)]
  /\ UNCHANGED <<masked, pending, ctx, interrupted, locking>>

\* Drop for IrqGuard.
DropGuard ==
  /\ ctx \in Contexts /\ ~Preempted
  /\ locking[ctx] = NoGuard
  /\ guards[ctx] # <<>>
  /\ masked' = guards[ctx][Len(guards[ctx])].prev_state
  /\ guards' = [guards EXCEPT ![ctx] = Outer(@)]
  /\ UNCHANGED <<pending, ctx, interrupted, locking>>

\* kmain, after init_early_heap: interrupts::enable.
Enable ==
  /\ Outside("early")
  /\ ctx' = "started"
  /\ masked' = FALSE
  /\ UNCHANGED <<pending, interrupted, locks>>

\* usermode::start ends in Thread::enter, with a spsr that masks no IRQ.
Enter ==
  /\ Outside("started")
  /\ ctx' = "user"
  /\ masked' = FALSE
  /\ UNCHANGED <<pending, interrupted, locks>>

\* svc: the exception sets the mask, and the vector goes to handle_syscall.
SvcEnter ==
  /\ Outside("user")
  /\ ctx' = "svc"
  /\ masked' = TRUE
  /\ UNCHANGED <<pending, interrupted, locks>>

\* __exception_restore_context: eret restores the thread's state.
SvcReturn ==
  /\ Outside("svc")
  /\ ctx' = "user"
  /\ masked' = FALSE
  /\ UNCHANGED <<pending, interrupted, locks>>

\* A device raises its interrupt.
Raise ==
  /\ ~pending
  /\ pending' = TRUE
  /\ UNCHANGED <<masked, ctx, interrupted, locks>>

\* The interrupt's exception: the mask is set, and irq_handler runs.
IrqEnter ==
  /\ Preempted
  /\ ctx' = "irq"
  /\ interrupted' = ctx
  /\ masked' = TRUE
  /\ pending' = FALSE
  /\ UNCHANGED locks

\* __exception_restore_context: the mask was clear.
IrqReturn ==
  /\ Outside("irq")
  /\ ctx' = interrupted
  /\ masked' = FALSE
  /\ UNCHANGED <<pending, interrupted, locks>>

Next ==
  \/ \E mutex \in Mutexes : LockRead(mutex)
  \/ LockDisable
  \/ DropGuard
  \/ Enable
  \/ Enter
  \/ SvcEnter
  \/ SvcReturn
  \/ Raise
  \/ IrqEnter
  \/ IrqReturn

(***************************************************************************)
(* The core executes.  Boot, handlers and the scopes of guards are finite  *)
(* code, however many locks they take: each comes to its end if it can     *)
(* again and again.  An interrupt that is not masked is taken.  Nothing is *)
(* assumed of the thread or of devices.                                    *)
(***************************************************************************)
Fairness ==
  /\ WF_vars(LockDisable)
  /\ \A c \in Contexts, depth \in 1 .. MaxGuards :
       SF_vars(ctx = c /\ Len(guards[c]) = depth /\ DropGuard)
  /\ SF_vars(Enable)
  /\ SF_vars(SvcReturn)
  /\ SF_vars(IrqReturn)
  /\ WF_vars(IrqEnter)

Spec == Init /\ [][Next]_vars /\ Fairness

-----------------------------------------------------------------------------
\* The shape of the state, with the nesting bound of lock's callers.
Guards == [mutex : Mutexes, prev_state : BOOLEAN]
TypeOK ==
  /\ masked \in BOOLEAN /\ pending \in BOOLEAN
  /\ ctx \in Contexts \cup {"user"}
  /\ interrupted \in Contexts \cup {"user"}
  /\ guards \in [Contexts -> Seq(Guards)]
  /\ locking \in [Contexts -> Guards \cup {NoGuard}]
  /\ \A c \in Contexts :
       Len(guards[c]) + (IF locking[c] = NoGuard THEN 0 ELSE 1) <= MaxGuards

(***************************************************************************)
(* Guarded data has one user at a time: while a context holds a guard, no  *)
(* other runs, whatever guards are nested inside it and dropped again, so  *)
(* that deref_mut never gives two contexts the same data.                  *)
(***************************************************************************)
MutualExclusion ==
  \A c \in Contexts : guards[c] # <<>> => masked /\ ctx = c

\* The contexts that start with interrupts masked.
MaskedContexts == {"early", "svc", "irq"}

(***************************************************************************)
(* Guards leave the mask as they found it, also if an interrupt comes      *)
(* between the two halves of lock.  With no guard alive, interrupts are on *)
(* after kmain has enabled them and in the thread, and off during boot and *)
(* in both handlers, which are not written to be interrupted.              *)
(***************************************************************************)
MaskRestored ==
  (ctx \in Contexts => guards[ctx] = <<>>) =>
    (masked <=> ctx \in MaskedContexts)

(***************************************************************************)
(* What a guard of IrqMutex::lock has saved, for its drop to write back:   *)
(* the outermost one the mask its context started with, every inner one a  *)
(* set mask, also if an interrupt came between the read of DAIF and the    *)
(* disable; and only contexts that started with a clear mask are           *)
(* interrupted.  So guards dropped in the reverse order unmask once, at    *)
(* the last of them.                                                       *)
(***************************************************************************)
SavedMasks ==
  /\ ctx = "irq" => interrupted \notin MaskedContexts
  /\ \A c \in Contexts :
       /\ \A i \in 1 .. Len(guards[c]) :
            guards[c][i].prev_state = (i > 1 \/ c \in MaskedContexts)
       /\ locking[c] # NoGuard =>
            locking[c].prev_state = (guards[c] # <<>> \/ c \in MaskedContexts)

\* The inductive invariant.
LockInv == TypeOK /\ MutualExclusion /\ MaskRestored /\ SavedMasks

\* An interrupt raised is taken in the end: no guard leaves the mask set.
IrqTaken == pending ~> ctx = "irq"

=============================================================================
