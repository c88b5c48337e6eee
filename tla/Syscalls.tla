------------------------------ MODULE Syscalls ------------------------------
(***************************************************************************)
(* The syscall interface between a thread and the kernel: the wrappers of  *)
(* init/src/utils.rs, the numbers and errors of kernel_api, and the        *)
(* dispatch of handle_syscall in kernel/src/aarch64/usermode.rs.           *)
(*                                                                         *)
(* What is modelled is how a call and its outcome travel through the four  *)
(* registers.  What the calls do to memory and time is in AddressSpace,    *)
(* PageAlloc and SleepTimer; here a call that can panic may.               *)
(***************************************************************************)
EXTENDS Integers

CONSTANTS
  U64, U32,     \* the number of values of u64 and of u32
  Args,         \* the argument values the thread uses
  Addresses,    \* the addresses that vmap returns
  Readable,     \* the pointers whose bytes the thread has mapped
  LogBuf,       \* length of the buffer of Syscall::Log, 256
  DeviceLen,    \* size of kernel_device::GicAndTimer
  DeviceId      \* kernel_device::GicAndTimer::ID

\* Arguments are any words; the addresses of a thread are below 2^39.
ASSUME WordAssumption ==
  /\ {U32, U64} \subseteq Nat /\ U32 > 8 /\ U32 % 2 = 0 /\ U64 > 0 /\ U64 % U32 = 0
  /\ Args \subseteq 0 .. (U64 - 1) /\ Addresses \subseteq 0 .. (U64 \div 2 - 1)
  /\ {LogBuf, DeviceLen, DeviceId} \subseteq Nat

VARIABLES
  regs,         \* x0, x1, x2 and x8 of the thread
  running,      \* "thread", "kernel" or "stopped"
  call,         \* the wrapper called and its arguments
  done,         \* what the kernel did about it
  result        \* what the wrapper returned

vars == <<regs, running, call, done, result>>

\* enum Syscall, and a number that this kernel does not know.
Number == [Exit |-> 0, Log |-> 1, PhyMap |-> 2, MemMap |-> 3, MemUnmap |-> 4,
           DownloadMoreRam |-> 5, LoadKernelDevice |-> 6, SleepSec |-> 7,
           Newer |-> 8]

\* enum KError.
AlreadyExists == -1
InvalidArgument == -3

\* A cast to a signed type of n values.
Signed(x, n) == IF x < n \div 2 THEN x ELSE x - n

\* The i32 is not converted.
IntoRaw(e) == e

\* The i32 is zero-extended.
IntoUnsigned(e) == e % U32

\* Into<u64> for KError: `as u64' of an i32 extends its sign.
Into(e) == e % U64

Ok(value) == [err |-> FALSE, value |-> value]
Err(e) == [err |-> TRUE, value |-> e]

\* The end of the wrappers: the sign of x0 tells errors from results.
Decode(x) == IF Signed(x, U64) < 0 THEN Err(Signed(x % U32, U32)) ELSE Ok(x)

Kernel(what, refused, value) == [what |-> what, refused |-> refused, value |-> value]

Init ==
  /\ regs = [x0 |-> 0, x1 |-> 0, x2 |-> 0, x8 |-> 0]
  /\ running = "thread"
  /\ call = [name |-> "none", x0 |-> 0, x1 |-> 0, x2 |-> 0]
  /\ done = Kernel("none", FALSE, 0)
  /\ result = Ok(0)

\* A wrapper loads the registers and executes svc.
Svc(name, a0, a1, a2) ==
  /\ running = "thread"
  /\ running' = "kernel"
  /\ call' = [name |-> name, x0 |-> a0, x1 |-> a1, x2 |-> a2]
  /\ regs' = [x0 |-> a0, x1 |-> a1, x2 |-> a2, x8 |-> Number[name]]
  /\ done' = Kernel("none", FALSE, 0)
  /\ UNCHANGED result

-----------------------------------------------------------------------------
(***************************************************************************)
(* handle_syscall, one action per syscall.                                 *)
(***************************************************************************)
Dispatched(name) == running = "kernel" /\ done.what = "none"
                      /\ regs.x8 % U32 = Number[name]

\* The handler returns with x0 set, or as it was.
Answer(name, refused, value, x0) ==
  /\ done' = Kernel(name, refused, value)
  /\ regs' = [regs EXCEPT !.x0 = x0]
  /\ UNCHANGED <<running, call, result>>

\* A panic, or a fault of copy_from_user, which exception_handler2 answers
\* with an endless loop.
Stop ==
  /\ running' = "stopped"
  /\ UNCHANGED <<regs, call, done, result>>

\* u64::MAX, which is no KError of the kernel's choice.
Unknown ==
  /\ running = "kernel" /\ done.what = "none"
  /\ regs.x8 % U32 > Number.SleepSec
  /\ Answer("Unknown", TRUE, 0, U64 - 1)

Exit == Dispatched("Exit") /\ Stop

\* The copy is cut to the length of the buffer.
Log ==
  LET len == IF regs.x1 < LogBuf THEN regs.x1 ELSE LogBuf
  IN  /\ Dispatched("Log")
      /\ IF len > 0 /\ regs.x0 \notin Readable
         THEN Stop
         ELSE Answer("Log", FALSE, len, regs.x0)

\* Both return the address of vmap.
Map(name) ==
  /\ Dispatched(name)
  /\ Stop \/ \E v \in Addresses : Answer(name, FALSE, v, v)
PhyMap == Map("PhyMap")
MemMap == Map("MemMap")

MemUnmap == Dispatched("MemUnmap") /\ (Stop \/ Answer("MemUnmap", FALSE, 0, 0))

\* Sets no result: x0 still has the address of the node.
DownloadMoreRam ==
  /\ Dispatched("DownloadMoreRam")
  /\ Stop \/ Answer("DownloadMoreRam", FALSE, 0, regs.x0)

LoadKernelDevice ==
  /\ Dispatched("LoadKernelDevice")
  /\ IF regs.x2 # DeviceId
     THEN Answer("LoadKernelDevice", TRUE, InvalidArgument, Into(InvalidArgument))
     ELSE IF regs.x1 # DeviceLen \/ regs.x0 \notin Readable
     THEN Stop
     ELSE Answer("LoadKernelDevice", FALSE, 0, 0)

SleepSec == Dispatched("SleepSec") /\ (Stop \/ Answer("SleepSec", FALSE, 0, 0))

\* log_buf and sleep_sec look at no result.
Return ==
  /\ running = "kernel" /\ done.what # "none"
  /\ running' = "thread"
  /\ result' = IF call.name \in {"Log", "SleepSec"} THEN Ok(0) ELSE Decode(regs.x0)
  /\ UNCHANGED <<regs, call, done>>

Next ==
  \/ \E name \in DOMAIN Number, a0, a1, a2 \in Args : Svc(name, a0, a1, a2)
  \/ Unknown \/ Exit \/ Log \/ PhyMap \/ MemMap \/ MemUnmap
  \/ DownloadMoreRam \/ LoadKernelDevice \/ SleepSec
  \/ Return

Spec == Init /\ [][Next]_vars

-----------------------------------------------------------------------------
\* The shape of the state: registers hold words.
TypeOK ==
  /\ regs \in [{"x0", "x1", "x2", "x8"} -> 0 .. (U64 - 1)]
  /\ running \in {"thread", "kernel", "stopped"}
  /\ call.name \in DOMAIN Number \cup {"none"}
  /\ done.refused \in BOOLEAN /\ done.value \in Int
  /\ result.err \in BOOLEAN /\ result.value \in Int

\* DownloadMoreRam leaves its first argument, the address of the RAM, in x0:
\* no physical address has the sign bit set.
RamAddress == call.name = "DownloadMoreRam" => call.x0 < U64 \div 2

(***************************************************************************)
(* A wrapper returns an error exactly when the kernel refused the call,    *)
(* and the kernel's error if it has one (none for a number it does not     *)
(* know); otherwise the kernel did what the wrapper is named for, and an   *)
(* address it returns is the one that vmap chose.  Errors, addresses and   *)
(* arguments left behind share one register, whatever words the arguments  *)
(* are; the address of RAM alone must be one.                              *)
(***************************************************************************)
ResultFaithful ==
  running = "thread" /\ call.name # "none" /\ RamAddress =>
    IF done.refused
    THEN result.err /\ (done.what # "Unknown" => result.value = done.value)
    ELSE /\ ~result.err
         /\ done.what = call.name
         /\ call.name \in {"PhyMap", "MemMap"} => result.value = done.value

=============================================================================
