-------------------------- MODULE SleepTimerProofs --------------------------
(***************************************************************************)
(* NeverEarly of module SleepTimer, for every frequency of the counter,    *)
(* every width and every argument of SleepSec.                             *)
(***************************************************************************)
EXTENDS SleepTimer, TLAPS

\* Division rounds down, by less than the divisor.
LEMMA RoundsDown ==
  ASSUME NEW a \in Int, NEW n \in Int, n > 0
  PROVE  /\ a \div n \in Int
         /\ n * (a \div n) <= a
         /\ a < n * (a \div n) + n
BY SMT

\* A number that fits is not changed by being cut.
LEMMA CutFits ==
  ASSUME NEW x \in Nat, NEW n \in Nat, x < n
  PROVE  x % n = x
BY SMT

(***************************************************************************)
(* The rounded clock at t is at least the rounded clock at c and a number  *)
(* of milliseconds s: then more than s milliseconds less one have passed.  *)
(***************************************************************************)
LEMMA ClockDifference ==
  ASSUME NEW t \in Nat, NEW c \in Nat, NEW s \in Nat,
         NEW n \in Nat \ {0}, NEW k \in Nat \ {0},
         (t * k) \div n >= (c * k) \div n + s
  PROVE  (t - c) * k > (s * n) - n
<1> DEFINE T == (t * k) \div n
           C == (c * k) \div n
<1>1. t * k \in Int /\ c * k \in Int /\ s * n \in Int
  BY SMT
<1>2. T \in Int /\ n * T <= t * k
  BY <1>1, RoundsDown
<1>3. C \in Int /\ c * k < n * C + n
  BY <1>1, RoundsDown
<1>4. T >= C + s
  OBVIOUS
<1> HIDE DEF T, C
<1>5. n * (C + s) <= n * T
  BY <1>2, <1>3, <1>4, SMT
<1>6. n * (C + s) = n * C + s * n
  BY <1>3, SMT
<1>7. n * C \in Int /\ n * T \in Int
  BY <1>2, <1>3, SMT
<1>8. (t - c) * k = (t * k) - (c * k)
  BY SMT
<1>9. (t * k) - (c * k) > (s * n) - n
  <2> DEFINE tk == t * k
             ck == c * k
             sn == s * n
             nC == n * C
             nT == n * T
  <2>1. /\ tk \in Int /\ ck \in Int /\ sn \in Int /\ nC \in Int /\ nT \in Int
        /\ nT <= tk /\ ck < nC + n /\ nC + sn <= nT
    BY <1>1, <1>2, <1>3, <1>5, <1>6, <1>7
  <2> HIDE DEF tk, ck, sn, nC, nT
  <2>2. tk - ck > sn - n
    BY <2>1, SMT
  <2>3. QED BY <2>2 DEF tk, ck, sn
<1>10. QED BY <1>8, <1>9

-----------------------------------------------------------------------------
\* The handler of SleepSec is running.
Sleeping == pc \in {"check", "set_timeout", "wfi"}

(***************************************************************************)
(* The inductive invariant: the clock has not gone back since the call,    *)
(* and the deadline is the one of the call, cut to its width.              *)
(***************************************************************************)
SleepInv ==
  /\ ticks \in Nat
  /\ called \in [tick : Nat, sec : Nat] /\ called.tick <= ticks
  /\ Sleeping => deadline = Deadline(called.tick, called.sec) % 2 ^ CounterBits

\* Nobody sleeps when the timer is set up.
LEMMA InitSleep == Init => SleepInv
BY DEF Init, SleepInv, Sleeping

\* The deadline of SleepSec is a number.
LEMMA DeadlineType ==
  ASSUME NEW tick \in Nat, NEW sec \in Nat
  PROVE  Deadline(tick, sec) \in Nat
<1>1. Milli \in Nat \ {0} /\ Freq \in Nat \ {0}
  BY TimerAssumption
<1>2. tick * Milli \in Nat /\ sec * Milli \in Nat
  BY <1>1, SMT
<1>3. (tick * Milli) \div Freq \in Nat
  BY <1>1, <1>2, SMT
<1>4. QED BY <1>2, <1>3, SMT DEF Deadline

\* Every step of handle_syscall's SleepSec and of the handler keeps SleepInv.
LEMMA NextSleep ==
  ASSUME SleepInv, Next
  PROVE  SleepInv'
<1> USE DEF SleepInv, Sleeping
<1>1. CASE Tick
  BY <1>1, SMT DEF Tick, timer, locals, Deadline
<1>2. CASE LoadKernelDevice
  BY <1>2 DEF LoadKernelDevice, locals, Deadline
<1>3. ASSUME NEW sec \in Seconds, SleepSec(sec)
      PROVE  SleepInv'
  <2>1. sec \in Nat
    BY TimerAssumption
  <2>2. CASE pc' = "panicked" /\ UNCHANGED <<deadline, called, ticks>>
    BY <2>2
  <2>3. CASE /\ pc' = "check" /\ UNCHANGED ticks
             /\ deadline' = Deadline(ticks, sec) % 2 ^ CounterBits
             /\ called' = [tick |-> ticks, sec |-> sec]
    <3>1. called'.tick = ticks /\ called'.sec = sec /\ called' \in [tick : Nat, sec : Nat]
      BY <2>1, <2>3
    <3>2. QED BY <2>3, <3>1 DEF Deadline
  <2>4. QED BY <1>3, <2>2, <2>3 DEF SleepSec
<1>4. CASE Check
  BY <1>4 DEF Check, Deadline
<1>5. CASE SetTimeoutFails
  BY <1>5 DEF SetTimeoutFails, locals, Deadline
<1>6. CASE SetTimeout
  BY <1>6 DEF SetTimeout, locals, Deadline
<1>7. CASE Wake
  BY <1>7 DEF Wake, locals, Deadline
<1>8. CASE Irq
  BY <1>8 DEF Irq, locals, Deadline, Unmasked
<1>9. CASE PanicLoop
  BY <1>9 DEF PanicLoop, vars, Deadline
<1>10. QED
  BY <1>1, <1>2, <1>3, <1>4, <1>5, <1>6, <1>7, <1>8, <1>9 DEF Next

\* Only the head of the loop returns to the thread.
LEMMA ReturnsFromCheck ==
  ASSUME SleepInv, Next, pc # "user", pc' = "user"
  PROVE  pc = "check" /\ ~(deadline > timer_get_absolute_time_ms)
BY DEF Next, Tick, LoadKernelDevice, SleepSec, Check, SetTimeoutFails, SetTimeout, Wake,
       Irq, PanicLoop, vars, Unmasked

\* What NeverEarly says of one step.
LEMMA ReturnNotEarly ==
  ASSUME SleepInv, Next, pc # "user", pc' = "user",
         Deadline(called.tick, called.sec) < 2 ^ CounterBits
  PROVE  (ticks - called.tick) * Milli > called.sec * Freq * Milli - Freq
<1> DEFINE s == called.sec * Milli
<1>1. /\ ticks \in Nat /\ called.tick \in Nat /\ called.sec \in Nat
      /\ Milli \in Nat \ {0} /\ Freq \in Nat \ {0} /\ 2 ^ CounterBits \in Nat
  BY TimerAssumption, PowerAssumption DEF SleepInv
<1>2. pc = "check" /\ ~(deadline > timer_get_absolute_time_ms)
  BY ReturnsFromCheck
<1>3. deadline = Deadline(called.tick, called.sec)
  <2>1. deadline = Deadline(called.tick, called.sec) % 2 ^ CounterBits
    BY <1>2 DEF SleepInv, Sleeping
  <2>2. QED BY <1>1, <2>1, DeadlineType, CutFits, Zenon
<1>4. s \in Nat
  BY <1>1, SMT
<1>5. timer_get_absolute_time_ms >= (called.tick * Milli) \div Freq + s
  <2>1. deadline = (called.tick * Milli) \div Freq + s
    BY <1>3 DEF Deadline
  <2>2. deadline \in Int
    <3>1. Deadline(called.tick, called.sec) \in Nat
      BY <1>1, DeadlineType, Zenon
    <3>2. deadline \in Nat
      BY <1>3, <3>1
    <3>3. QED BY <3>2, SMT
  <2>3. timer_get_absolute_time_ms \in Int
    <3>1. ticks * Milli \in Int
      BY <1>1, SMT
    <3>2. QED BY <1>1, <3>1, RoundsDown DEF timer_get_absolute_time_ms
  <2>4. QED BY <1>2, <2>1, <2>2, <2>3, SMT
<1> HIDE DEF s
<1>6. (ticks - called.tick) * Milli > (s * Freq) - Freq
  BY <1>1, <1>4, <1>5, ClockDifference, Zenon DEF timer_get_absolute_time_ms
<1>7. s * Freq = called.sec * Freq * Milli
  BY <1>1, SMT DEF s
<1>8. QED BY <1>6, <1>7

(***************************************************************************)
(* SleepSec never returns to the thread more than a millisecond early, for *)
(* every frequency, however often the core wakes up and whatever the       *)
(* countdown register holds, as long as the deadline fits its type.        *)
(***************************************************************************)
THEOREM SleepNeverEarly == Spec => NeverEarly
<1>1. SleepInv /\ UNCHANGED vars => SleepInv'
  BY DEF SleepInv, Sleeping, vars, Deadline
<1>2. SleepInv /\ [Next]_vars => SleepInv'
  BY <1>1, NextSleep
<1>3. SleepInv /\ [Next]_vars =>
        [(/\ pc # "user" /\ pc' = "user"
          /\ Deadline(called.tick, called.sec) < 2 ^ CounterBits) =>
            (ticks - called.tick) * Milli > called.sec * Freq * Milli - Freq]_vars
  BY ReturnNotEarly
<1>4. QED BY InitSleep, <1>2, <1>3, PTL DEF Spec, NeverEarly

-----------------------------------------------------------------------------
\* The compare value that timer_set_timeout programs fits the counter.
LEMMA CvalFits ==
  ASSUME NEW t \in Nat, NEW value \in Nat
  PROVE  (t + SignExtend(value)) % 2 ^ CounterBits \in 0 .. (2 ^ CounterBits - 1)
<1>1. PICK n \in Nat \ {0} : n = 2 ^ TvalBits
  BY PowerAssumption
<1>2. PICK c \in Nat \ {0} : c = 2 ^ CounterBits
  BY PowerAssumption
<1>3. value % n \in Int
  BY SMT
<1>4. SignExtend(value) \in Int
  BY <1>1, <1>3 DEF SignExtend
<1>5. \A x \in Int : x % c \in 0 .. (c - 1)
  BY SMT
<1>6. t + SignExtend(value) \in Int
  BY <1>4
<1> QED
  BY <1>2, <1>5, <1>6

\* Every step keeps the types.
LEMMA NextTypes ==
  ASSUME TypeOK, Next
  PROVE  TypeOK'
<1>1. PICK c \in Nat \ {0} : c = 2 ^ CounterBits
  BY PowerAssumption
<1>2. PICK h \in Nat : h = 2 ^ (TvalBits - 1)
  BY PowerAssumption
<1>3. /\ MaxTicks \in Nat /\ Seconds \subseteq Nat
      /\ Freq \in Nat \ {0} /\ Milli \in Nat \ {0}
  BY TimerAssumption
<1>4. /\ ticks \in 0 .. (MaxTicks + h) /\ cval \in 0 .. (c - 1)
      /\ sleep_left \in 0 .. (c - 1) /\ deadline \in 0 .. (c - 1)
  BY <1>1, <1>2 DEF TypeOK
<1>5. ticks \in Nat
  BY <1>3, <1>4
<1>6. CASE Tick
  <2>1. ticks' \in 0 .. (MaxTicks + h)
    BY <1>2, <1>3, <1>4, <1>6 DEF Tick
  <2> QED
    BY <1>2, <1>6, <2>1 DEF Tick, TypeOK, timer, locals
<1>7. CASE LoadKernelDevice
  BY <1>7 DEF LoadKernelDevice, TypeOK, locals
<1>8. ASSUME NEW sec \in Seconds, SleepSec(sec)
      PROVE  TypeOK'
  <2>1. PICK d : d = Deadline(ticks, sec)
    OBVIOUS
  <2>2. d \in Nat
    BY <1>3, <1>5, <2>1, DeadlineType
  <2>3. d % c \in 0 .. (c - 1)
    BY <2>2, SMT
  <2>4. CASE pc' = "panicked" /\ UNCHANGED <<deadline, called>>
    BY <1>8, <2>4 DEF SleepSec, TypeOK, timer
  <2>5. CASE /\ pc' = "check" /\ deadline' = d % c
             /\ called' = [tick |-> ticks, sec |-> sec]
    <3>1. called' \in [tick : Nat, sec : Seconds \cup {0}]
      BY <1>5, <2>5
    <3>2. deadline' \in 0 .. (2 ^ CounterBits - 1)
      BY <1>1, <2>3, <2>5
    <3> QED
      BY <1>8, <2>5, <3>1, <3>2 DEF SleepSec, TypeOK, timer
  <2> QED
    BY <1>1, <1>8, <2>1, <2>4, <2>5 DEF SleepSec
<1>9. CASE Check
  <2>1. PICK now : now = timer_get_absolute_time_ms
    OBVIOUS
  <2>2. now \in Nat
    <3>1. ticks * Milli \in Nat
      BY <1>3, <1>5, SMT
    <3> QED
      BY <1>3, <2>1, <3>1, SMT DEF timer_get_absolute_time_ms
  <2>3. sleep_left' = IF deadline > now THEN deadline - now ELSE 0
    BY <1>9, <2>1 DEF Check
  <2>4. sleep_left' \in 0 .. (c - 1)
    BY <1>4, <2>2, <2>3
  <2>5. sleep_left' \in 0 .. (2 ^ CounterBits - 1)
    BY <1>1, <2>4
  <2> QED
    BY <1>9, <2>5 DEF Check, TypeOK, timer
<1>10. CASE SetTimeoutFails
  BY <1>10 DEF SetTimeoutFails, TypeOK, timer, locals
<1>11. CASE SetTimeout
  <2>1. PICK value : value = (Freq \div Milli) * sleep_left
    OBVIOUS
  <2>2. value \in Nat
    <3>1. Freq \div Milli \in Nat
      BY <1>3, SMT
    <3> QED
      BY <1>4, <2>1, <3>1, SMT
  <2>3. cval' \in 0 .. (2 ^ CounterBits - 1)
    BY <1>5, <1>11, <2>1, <2>2, CvalFits DEF SetTimeout, WriteTval
  <2> QED
    BY <1>11, <2>3 DEF SetTimeout, TypeOK, locals
<1>12. CASE Wake
  BY <1>12 DEF Wake, TypeOK, timer, locals
<1>13. CASE Irq
  BY <1>13 DEF Irq, TypeOK, locals
<1>14. CASE PanicLoop
  BY <1>14 DEF PanicLoop, TypeOK, vars
<1> QED
  BY <1>6, <1>7, <1>8, <1>9, <1>10, <1>11, <1>12, <1>13, <1>14 DEF Next

(***************************************************************************)
(* The locals of SleepSec and the compare value of the timer stay in the   *)
(* width of their types, for every width and frequency and every argument. *)
(***************************************************************************)
THEOREM SleepTypes == Spec => []TypeOK
<1>1. Init => TypeOK
  <2>1. PICK c \in Nat \ {0} : c = 2 ^ CounterBits
    BY PowerAssumption
  <2>2. PICK h \in Nat : h = 2 ^ (TvalBits - 1)
    BY PowerAssumption
  <2>3. 0 \in 0 .. (2 ^ CounterBits - 1)
    BY <2>1
  <2>4. 0 \in 0 .. (MaxTicks + 2 ^ (TvalBits - 1))
    BY <2>2, TimerAssumption
  <2>5. [tick |-> 0, sec |-> 0] \in [tick : Nat, sec : Seconds \cup {0}]
    OBVIOUS
  <2> SUFFICES ASSUME Init PROVE TypeOK
    OBVIOUS
  <2>6. called \in [tick : Nat, sec : Seconds \cup {0}]
    BY <2>5 DEF Init
  <2>7. /\ ticks \in 0 .. (MaxTicks + 2 ^ (TvalBits - 1))
        /\ cval \in 0 .. (2 ^ CounterBits - 1)
        /\ {sleep_left, deadline} \subseteq 0 .. (2 ^ CounterBits - 1)
    BY <2>3, <2>4 DEF Init
  <2> QED
    BY <2>6, <2>7, Zenon DEF Init, TypeOK
<1>2. TypeOK /\ UNCHANGED vars => TypeOK'
  BY DEF TypeOK, vars
<1> QED
  BY <1>1, <1>2, NextTypes, PTL DEF Spec

=============================================================================
