----------------------------- MODULE SleepTimer -----------------------------
(***************************************************************************)
(* SleepSec of kernel/src/aarch64/usermode.rs with the timer and interrupt *)
(* controller code of kernel/src/drv/arm_gic.rs, and the hardware they     *)
(* drive: the system counter, the physical timer, the GIC and wfi.         *)
(*                                                                         *)
(* The counter runs at Freq ticks per second of Milli milliseconds (1000   *)
(* in the code), so that the roundings of freq / 1000 and of ticks * 1000  *)
(* / freq happen with small numbers.  Time passes between any two steps.   *)
(***************************************************************************)
EXTENDS Integers

CONSTANTS
  Freq,         \* cntfrq_el0
  Milli,        \* 1000
  TvalBits,     \* width of the signed cntp_tval_el0, 32 in hardware
  CounterBits,  \* width of the counter and of the compare value, 64
  DebugAssertions, \* the dev profile: an arithmetic overflow panics
  Seconds,      \* the arguments of SleepSec
  LastStart,    \* bound: no call of more than 0 seconds after this tick
  MaxTicks      \* bound: ticks the system runs for, while it is not in wfi

ASSUME TimerAssumption ==
  /\ {Freq, Milli, TvalBits, CounterBits} \subseteq Nat \ {0}
  /\ Seconds \subseteq Nat /\ DebugAssertions \in BOOLEAN
  /\ {LastStart, MaxTicks} \subseteq Nat

\* Facts of arithmetic, for the provers.
ASSUME PowerAssumption ==
  {2 ^ CounterBits, 2 ^ TvalBits, 2 ^ (TvalBits - 1)} \subseteq Nat \ {0}

VARIABLES
  ticks,        \* cntpct_el0
  cval,         \* compare value of the timer
  ctl,          \* cntp_ctl_el0: 0 (reset), 1 (enabled) or 3 (masked)
  gic,          \* init_gic has run: GICC_BASE # 0, timer interrupt enabled
  pc,           \* where the core is
  sleep_left,   \* the loop's local
  deadline,     \* the handler's local
  called        \* history: tick and seconds of the last call

vars == <<ticks, cval, ctl, gic, pc, sleep_left, deadline, called>>
timer == <<cval, ctl>>
locals == <<sleep_left, deadline, called>>

timer_get_absolute_time_ms == (ticks * Milli) \div Freq

\* The timer drives its interrupt line while the condition holds and the
\* interrupt is enabled and not masked in ctl.
TimerLine == ctl = 1 /\ ticks >= cval
IrqPending == gic /\ TimerLine

Init ==
  /\ ticks = 0
  /\ cval = 0
  /\ ctl = 0
  /\ gic = FALSE
  /\ pc = "user"
  /\ sleep_left = 0
  /\ deadline = 0
  /\ called = [tick |-> 0, sec |-> 0]

-----------------------------------------------------------------------------
(***************************************************************************)
(* Time.  MaxTicks ends the run; a core in wfi may go on until its timer   *)
(* fires, which is at most one countdown later.                            *)
(***************************************************************************)
Tick ==
  /\ ticks < MaxTicks + (IF pc = "wfi" THEN 2 ^ (TvalBits - 1) ELSE 0)
  /\ ticks' = ticks + 1
  /\ UNCHANGED <<timer, gic, pc, locals>>

\* The countdown that a write to cntp_tval_el0 starts: the low bits of the
\* value, as a signed number, are added to the counter.
SignExtend(value) ==
  LET low == value % 2 ^ TvalBits
  IN  IF low < 2 ^ (TvalBits - 1) THEN low ELSE low - 2 ^ TvalBits
WriteTval(value) == cval' = (ticks + SignExtend(value)) % 2 ^ CounterBits

\* LoadKernelDevice for the GIC and timer: timer_clear, then init_gic.
LoadKernelDevice ==
  /\ pc = "user" /\ ~IrqPending
  /\ ctl' = 3
  /\ gic' = TRUE
  /\ UNCHANGED <<ticks, cval, pc, locals>>

\* The deadline of a call of SleepSec at a tick, before it is put into a u64.
Deadline(tick, sec) == (tick * Milli) \div Freq + sec * Milli

\* SleepSec up to the loop.
SleepSec(sec) ==
  /\ pc = "user" /\ ~IrqPending
  /\ sec = 0 \/ ticks <= LastStart
  /\ IF DebugAssertions /\ Deadline(ticks, sec) >= 2 ^ CounterBits
     THEN pc' = "panicked" /\ UNCHANGED <<deadline, called>>
     ELSE /\ pc' = "check"
          /\ deadline' = Deadline(ticks, sec) % 2 ^ CounterBits
          /\ called' = [tick |-> ticks, sec |-> sec]
  /\ UNCHANGED <<ticks, timer, gic, sleep_left>>

\* The head of the loop: saturating_sub, and the break.
Check ==
  LET now == timer_get_absolute_time_ms
  IN  /\ pc = "check"
      /\ sleep_left' = IF deadline > now THEN deadline - now ELSE 0
      /\ pc' = IF deadline > now THEN "set_timeout" ELSE "user"
      /\ UNCHANGED <<ticks, timer, gic, deadline, called>>

\* timer_set_timeout: "GIC must be initialized before sleeping", and the
\* countdown has to fit a u64.
CountdownFails ==
  \/ ~gic
  \/ DebugAssertions /\ (Freq \div Milli) * sleep_left >= 2 ^ CounterBits

SetTimeoutFails ==
  /\ pc = "set_timeout" /\ CountdownFails
  /\ pc' = "panicked"
  /\ UNCHANGED <<ticks, timer, gic, locals>>

SetTimeout ==
  /\ pc = "set_timeout" /\ ~CountdownFails
  /\ WriteTval((Freq \div Milli) * sleep_left)
  /\ ctl' = 1
  /\ pc' = "wfi"
  /\ UNCHANGED <<ticks, gic, locals>>

\* The loop is left after the first wfi.
WakeOnce ==
  /\ pc = "wfi"
  /\ pc' = "user"
  /\ UNCHANGED <<ticks, timer, gic, locals>>

(***************************************************************************)
(* wfi wakes up when an interrupt is pending, whether or not it is masked, *)
(* and the architecture lets it wake up without.  The loop is repeated.    *)
(***************************************************************************)
Wake ==
  /\ pc = "wfi"
  /\ pc' = "check"
  /\ UNCHANGED <<ticks, timer, gic, locals>>

(***************************************************************************)
(* Where the core takes an interrupt: only in the thread.  An exception    *)
(* sets the mask, and init.s does not clear it before the handlers run.    *)
(***************************************************************************)
UnmaskedInKernel == {"user", "set_timeout", "wfi"}
Unmasked == {"user"}

\* handle_irq without timer_clear.
IrqNoClear ==
  /\ pc \in Unmasked /\ IrqPending
  /\ UNCHANGED vars

\* timer_clear sets the mask bit and clears the enable bit.
IrqDisables ==
  /\ pc \in Unmasked /\ IrqPending
  /\ ctl' = 2
  /\ UNCHANGED <<ticks, cval, gic, pc, locals>>

\* irq_handler, for the timer, which is the only interrupt enabled.
Irq ==
  /\ pc \in Unmasked /\ IrqPending
  /\ ctl' = 3
  /\ UNCHANGED <<ticks, cval, gic, pc, locals>>

\* rust_panic's loop.
PanicLoop ==
  /\ pc = "panicked"
  /\ UNCHANGED vars

Next ==
  \/ Tick
  \/ LoadKernelDevice
  \/ \E sec \in Seconds : SleepSec(sec)
  \/ Check
  \/ SetTimeoutFails
  \/ SetTimeout
  \/ Wake
  \/ Irq
  \/ PanicLoop

(***************************************************************************)
(* The counter runs, the core executes the kernel's code, wfi wakes up for *)
(* a pending interrupt, and a pending interrupt is taken once unmasked.    *)
(* Nothing is assumed of the thread, nor of a wfi with nothing pending.    *)
(***************************************************************************)
Fairness ==
  /\ WF_vars(Tick)
  /\ WF_vars(Check)
  /\ WF_vars(SetTimeoutFails)
  /\ WF_vars(SetTimeout)
  /\ WF_vars(Wake /\ IrqPending)
  /\ WF_vars(Irq)

Spec == Init /\ [][Next]_vars /\ Fairness

-----------------------------------------------------------------------------
\* The shape of the state.
TypeOK ==
  /\ ticks \in 0 .. (MaxTicks + 2 ^ (TvalBits - 1))
  /\ cval \in 0 .. (2 ^ CounterBits - 1)
  /\ ctl \in {0, 1, 3}
  /\ gic \in BOOLEAN
  /\ pc \in {"user", "check", "set_timeout", "wfi", "panicked"}
  /\ {sleep_left, deadline} \subseteq 0 .. (2 ^ CounterBits - 1)
  /\ called \in [tick : Nat, sec : Seconds \cup {0}]

(***************************************************************************)
(* SleepSec never returns early: when the handler returns to the thread,   *)
(* the time since the call is more than the seconds asked for less one     *)
(* millisecond, which is what rounding the clock can cost, whatever woke   *)
(* the core up in between.  The deadline has to fit a u64 for that; one    *)
(* that does not stops the dev build, and is cut in a release build.       *)
(***************************************************************************)
NeverEarly ==
  [][(/\ pc # "user" /\ pc' = "user"
      /\ Deadline(called.tick, called.sec) < 2 ^ CounterBits) =>
       (ticks - called.tick) * Milli > called.sec * Freq * Milli - Freq]_vars

(***************************************************************************)
(* A thread that sleeps is woken up: the timer is armed before each wfi,   *)
(* and its interrupt cannot be consumed between arming and wfi.            *)
(***************************************************************************)
SleepReturns ==
  (pc \in {"check", "set_timeout", "wfi"}) ~> (pc \in {"user", "panicked"})

(***************************************************************************)
(* The interrupt that ends a sleep does not keep the thread from running:  *)
(* it is pending when SleepSec returns, is taken, and goes away.           *)
(***************************************************************************)
IrqSettles ==
  (pc = "user" /\ IrqPending) ~> (pc = "user" /\ ~IrqPending)

=============================================================================
