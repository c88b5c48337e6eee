--------------------------- MODULE SyscallsProofs ---------------------------
(***************************************************************************)
(* ResultFaithful of module Syscalls, for words of every width that        *)
(* WordAssumption allows.  The work is in the arithmetic of an error code  *)
(* that is widened by the kernel and narrowed again by the wrapper.        *)
(***************************************************************************)
EXTENDS Syscalls, TLAPS

\* Division with remainder has one solution.
LEMMA RemainderUnique ==
  ASSUME NEW n \in Int, n > 0, NEW q \in Int, NEW r \in Int, 0 <= r, r < n
  PROVE  (n * q + r) % n = r
<1> DEFINE a == n * q + r
           d == a \div n
           m == a % n
<1>1. a \in Int /\ d \in Int /\ m \in Int /\ 0 <= m /\ m < n /\ a = n * d + m
  BY SMT
<1>2. n * (q - d) = m - r
  BY <1>1, SMT
<1>3. q - d < 1
  <2>1. SUFFICES ASSUME q - d >= 1 PROVE FALSE
    BY <1>1, SMT
  <2>2. n * (q - d) >= n
    BY <1>1, <2>1, SMT
  <2>3. QED BY <1>1, <1>2, <2>2, SMT
<1>4. q - d > -1
  <2>1. SUFFICES ASSUME q - d <= -1 PROVE FALSE
    BY <1>1, SMT
  <2>2. n * (q - d) <= -n
    BY <1>1, <2>1, SMT
  <2>3. QED BY <1>1, <1>2, <2>2, SMT
<1>5. q - d = 0
  BY <1>1, <1>3, <1>4, SMT
<1>6. QED BY <1>1, <1>2, <1>5, SMT

\* A multiple of U32 less a little is a multiple of U32 and the rest.
LEMMA NarrowedError ==
  ASSUME NEW e \in Int, -4 < e, e < 0
  PROVE  (U64 + e) % U32 = U32 + e /\ e % U64 = U64 + e
<1> DEFINE q == U64 \div U32
<1>1. U32 \in Int /\ U64 \in Int /\ U32 > 8 /\ U64 > 0 /\ U64 % U32 = 0
  BY WordAssumption
<1>2. q \in Int /\ U64 = U32 * q
  BY <1>1, SMT
<1>3. U64 >= U32
  BY <1>1, <1>2, SMT
<1> HIDE DEF q
<1>4. U64 + e = U32 * (q - 1) + (U32 + e)
  BY <1>1, <1>2, SMT
<1>5. q - 1 \in Int /\ U32 + e \in Int /\ 0 <= U32 + e /\ U32 + e < U32
  BY <1>1, <1>2, SMT
<1>6. (U32 * (q - 1) + (U32 + e)) % U32 = U32 + e
  <2> DEFINE k == q - 1
             r == U32 + e
  <2>1. k \in Int /\ r \in Int /\ 0 <= r /\ r < U32 /\ U32 > 0
    BY <1>1, <1>5
  <2> HIDE DEF k, r
  <2>2. (U32 * k + r) % U32 = r
    BY <1>1, <2>1, RemainderUnique
  <2>3. QED BY <2>2 DEF k, r
<1>7. e = U64 * (-1) + (U64 + e)
  BY <1>1, SMT
<1>8. (U64 * (-1) + (U64 + e)) % U64 = U64 + e
  <2> DEFINE k == -1
             r == U64 + e
  <2>1. k \in Int /\ r \in Int /\ 0 <= r /\ r < U64
    BY <1>1, <1>3
  <2> HIDE DEF k, r
  <2>2. (U64 * k + r) % U64 = r
    BY <1>1, <2>1, RemainderUnique
  <2>3. QED BY <2>2 DEF k, r
<1>9. QED BY <1>4, <1>6, <1>7, <1>8

\* An error that the kernel puts into x0 is the one that a wrapper finds there.
LEMMA ErrorDecodes ==
  ASSUME NEW e \in {AlreadyExists, InvalidArgument}
  PROVE  /\ Into(e) \in 0 .. (U64 - 1)
         /\ Decode(Into(e)) = Err(e)
<1>1. U32 \in Int /\ U64 \in Int /\ U32 > 8 /\ U64 > 0 /\ U32 % 2 = 0 /\ U64 % U32 = 0
  BY WordAssumption
<1>2. U64 >= U32
  BY <1>1, SMT
<1>3. e \in Int /\ -4 < e /\ e < 0
  BY DEF AlreadyExists, InvalidArgument
<1>4. (U64 + e) % U32 = U32 + e /\ e % U64 = U64 + e
  BY <1>3, NarrowedError
<1>5. Signed(U64 + e, U64) = e
  BY <1>1, <1>2, <1>3, SMT DEF Signed
<1>6. Signed(U32 + e, U32) = e
  BY <1>1, <1>3, SMT DEF Signed
<1>7. Into(e) = U64 + e
  BY <1>4 DEF Into
<1>8. Decode(Into(e)) = Err(e)
  BY <1>3, <1>4, <1>5, <1>6, <1>7 DEF Decode
<1>9. QED BY <1>1, <1>2, <1>3, <1>7, <1>8, SMT

\* A word in the lower half is a result.
LEMMA ResultDecodes ==
  ASSUME NEW x \in 0 .. (U64 \div 2 - 1)
  PROVE  Decode(x) = Ok(x) /\ x \in 0 .. (U64 - 1)
<1>1. U64 \in Int /\ U64 > 0
  BY WordAssumption
<1>2. x \in Int /\ x >= 0 /\ x < U64 \div 2 /\ x < U64
  BY <1>1, SMT
<1>3. Signed(x, U64) = x
  BY <1>2 DEF Signed
<1>4. Decode(x) = Ok(x)
  BY <1>2, <1>3, SMT DEF Decode
<1>5. QED BY <1>1, <1>2, <1>4, SMT

\* So is 0, the answer of calls without a result.
LEMMA ZeroIsResult == 0 \in 0 .. (U64 \div 2 - 1)
<1>1. U32 \in Int /\ U64 \in Int /\ U32 > 8 /\ U64 > 0 /\ U64 % U32 = 0
  BY WordAssumption
<1>2. U64 >= U32
  BY <1>1, SMT
<1>3. QED BY <1>1, <1>2, SMT

-----------------------------------------------------------------------------
\* Every name has its number, below U32.
LEMMA NumbersDiffer ==
  ASSUME NEW n \in DOMAIN Number, NEW k \in DOMAIN Number
  PROVE  /\ Number[n] \in 0 .. 8 /\ Number[n] % U32 = Number[n]
         /\ Number[n] = Number[k] => n = k
         /\ Number[n] > Number.SleepSec => n = "Newer"
<1>1. Number[n] \in 0 .. 8 /\ (Number[n] = Number[k] => n = k)
      /\ (Number[n] > Number.SleepSec => n = "Newer")
  BY SMT DEF Number
<1>2. \A i \in 0 .. 8 : i % U32 = i
  BY WordAssumption, SMT
<1>3. QED BY <1>1, <1>2

(***************************************************************************)
(* What holds while a call is on its way: before the kernel has looked at  *)
(* it, x8 says which it is; after that, x0 decodes to the kernel's answer. *)
(***************************************************************************)
Asked ==
  /\ call.name \in DOMAIN Number
  /\ regs.x8 = Number[call.name]
  /\ regs.x0 = call.x0 /\ call.x0 \in 0 .. (U64 - 1)

\* The handler's answer is in x0 as Into<u64> for KError puts it there.
Answered ==
  /\ call.name \in DOMAIN Number
  /\ IF done.refused
     THEN /\ call.name \notin {"Log", "SleepSec"} /\ Decode(regs.x0).err
          /\ done.what # "Unknown" => Decode(regs.x0).value = done.value
     ELSE /\ done.what = call.name
          /\ call.name # "Log" /\ RamAddress => Decode(regs.x0) = Ok(regs.x0)
          /\ call.name \in {"PhyMap", "MemMap"} => regs.x0 = done.value

\* Where the call can be, and the type of the registers.
Shape ==
  /\ DOMAIN regs = {"x0", "x1", "x2", "x8"} /\ regs = [i \in DOMAIN regs |-> regs[i]]
  /\ running \in {"thread", "kernel", "stopped"}

\* The inductive invariant.
CallInv ==
  /\ Shape
  /\ running = "kernel" /\ done.what = "none" => Asked
  /\ running = "kernel" /\ done.what # "none" => Answered
  /\ ResultFaithful

\* Before the first call nothing was asked.
LEMMA InitCall == Init => CallInv
BY DEF Init, CallInv, Shape, ResultFaithful, Kernel

\* What an answer of the kernel must satisfy.
LEMMA AnswerCall ==
  ASSUME CallInv, running = "kernel", done.what = "none",
         NEW name, NEW refused \in BOOLEAN, NEW value, NEW x0,
         Answer(name, refused, value, x0), name # "none",
         refused => /\ call.name \notin {"Log", "SleepSec"} /\ Decode(x0).err
                    /\ name # "Unknown" => Decode(x0).value = value,
         ~refused => /\ name = call.name
                     /\ name # "Log" /\ RamAddress => Decode(x0) = Ok(x0)
                     /\ name \in {"PhyMap", "MemMap"} => x0 = value
  PROVE  CallInv'
<1>1. /\ regs' = [regs EXCEPT !.x0 = x0] /\ done' = Kernel(name, refused, value)
      /\ UNCHANGED <<running, call, result>>
  BY DEF Answer
<1>2. regs'.x0 = x0 /\ Shape'
  BY <1>1 DEF CallInv, Shape
<1>3. done'.what = name /\ done'.refused = refused /\ done'.value = value
  BY <1>1 DEF Kernel
<1>4. Asked
  BY DEF CallInv
<1>5. Answered'
  <2>1. call'.name = call.name /\ RamAddress' = RamAddress /\ Decode(regs'.x0) = Decode(x0)
    BY <1>1, <1>2 DEF RamAddress, Decode, Err, Ok, Signed
  <2>2. QED BY <1>2, <1>3, <1>4, <2>1 DEF Answered, Asked
<1>6. QED BY <1>1, <1>2, <1>3, <1>5 DEF CallInv, ResultFaithful

\* The action that a number dispatches to is the one of the call.
LEMMA DispatchedCall ==
  ASSUME CallInv, NEW name \in DOMAIN Number, Dispatched(name)
  PROVE  call.name = name /\ running = "kernel" /\ done.what = "none" /\ Asked
<1>1. running = "kernel" /\ done.what = "none" /\ regs.x8 % U32 = Number[name]
  BY DEF Dispatched
<1>2. Asked
  BY <1>1 DEF CallInv
<1>3. call.name \in DOMAIN Number /\ regs.x8 = Number[call.name]
  BY <1>2 DEF Asked
<1>4. Number[call.name] % U32 = Number[call.name]
  BY <1>3, NumbersDiffer
<1>5. Number[call.name] = Number[name]
  BY <1>1, <1>3, <1>4
<1>6. call.name = name
  BY <1>3, <1>5, NumbersDiffer
<1>7. QED BY <1>1, <1>2, <1>6

\* Exit, an unknown number or a panic ends the call without an answer.
LEMMA StopCall ==
  ASSUME CallInv, Stop
  PROVE  CallInv'
BY DEF CallInv, Stop, Shape, ResultFaithful

\* Every svc, handler of handle_syscall and return to the thread keeps CallInv.
LEMMA NextCall ==
  ASSUME CallInv, Next
  PROVE  CallInv'
<1> USE DEF CallInv
<1>1. ASSUME NEW name \in DOMAIN Number, NEW a0 \in Args, NEW a1 \in Args, NEW a2 \in Args,
             Svc(name, a0, a1, a2)
      PROVE  CallInv'
  <2>1. regs' = [x0 |-> a0, x1 |-> a1, x2 |-> a2, x8 |-> Number[name]]
        /\ call'.name = name /\ call'.x0 = a0 /\ running' = "kernel" /\ done'.what = "none"
    BY <1>1 DEF Svc, Kernel
  <2>2. regs'.x0 = a0 /\ regs'.x8 = Number[name] /\ Shape'
    BY <2>1 DEF Shape
  <2>3. Asked'
    BY <2>1, <2>2, WordAssumption DEF Asked
  <2>4. QED BY <2>1, <2>2, <2>3 DEF ResultFaithful
<1>2. CASE Unknown
  <2>1. running = "kernel" /\ done.what = "none" /\ regs.x8 % U32 > Number.SleepSec
        /\ Answer("Unknown", TRUE, 0, U64 - 1)
    BY <1>2, Zenon DEF Unknown
  <2>2. Asked
    BY <2>1
  <2>3. call.name = "Newer"
    BY <2>1, <2>2, NumbersDiffer DEF Asked
  <2>4. U64 - 1 = Into(AlreadyExists)
    BY WordAssumption, NarrowedError, SMT DEF Into, AlreadyExists
  <2>5. Decode(U64 - 1).err
    BY <2>4, ErrorDecodes DEF Err
  <2>6. QED BY <2>1, <2>3, <2>5, AnswerCall, Zenon
<1>3. CASE Exit
  BY <1>3, StopCall DEF Exit
<1>4. CASE Log
  <2>1. PICK len : Dispatched("Log") /\ (Stop \/ Answer("Log", FALSE, len, regs.x0))
    BY <1>4, Zenon DEF Log
  <2>2. call.name = "Log" /\ running = "kernel" /\ done.what = "none" /\ Asked
    BY <2>1, DispatchedCall DEF Number
  <2>3. CASE Stop
    BY <2>3, StopCall
  <2>4. CASE Answer("Log", FALSE, len, regs.x0)
    BY <2>2, <2>4, AnswerCall, Zenon
  <2>5. QED BY <2>1, <2>3, <2>4, Zenon
<1>5. ASSUME NEW name \in {"PhyMap", "MemMap"}, Map(name)
      PROVE  CallInv'
  <2>1. call.name = name /\ running = "kernel" /\ done.what = "none"
    BY <1>5, DispatchedCall DEF Map, Number
  <2>2. CASE Stop
    BY <2>2, StopCall
  <2>3. ASSUME NEW v \in Addresses, Answer(name, FALSE, v, v)
        PROVE  CallInv'
    <3>1. Decode(v) = Ok(v)
      BY WordAssumption, ResultDecodes
    <3>2. QED BY <2>1, <2>3, <3>1, AnswerCall, Zenon
  <2>4. QED BY <1>5, <2>2, <2>3, Zenon DEF Map
<1>6. ASSUME NEW name \in {"MemUnmap", "SleepSec", "LoadKernelDevice"}, Dispatched(name),
             Answer(name, FALSE, 0, 0)
      PROVE  CallInv'
  <2>1. call.name = name /\ running = "kernel" /\ done.what = "none" /\ Asked
    BY <1>6, DispatchedCall DEF Number
  <2>2. 0 \in 0 .. (U64 \div 2 - 1)
    BY ZeroIsResult
  <2>3. Decode(0) = Ok(0)
    BY <2>2, ResultDecodes
  <2>4. QED BY <1>6, <2>1, <2>3, AnswerCall, Zenon
<1>7. CASE MemUnmap
  BY <1>6, <1>7, StopCall, Zenon DEF MemUnmap
<1>8. CASE DownloadMoreRam
  <2>1. call.name = "DownloadMoreRam" /\ running = "kernel" /\ done.what = "none" /\ Asked
    BY <1>8, DispatchedCall DEF DownloadMoreRam, Number
  <2>2. ASSUME RamAddress PROVE Decode(regs.x0) = Ok(regs.x0)
    <3>1. regs.x0 \in 0 .. (U64 \div 2 - 1)
      BY <2>1, <2>2, WordAssumption, SMT DEF Asked, RamAddress
    <3>2. QED BY <3>1, ResultDecodes
  <2>3. CASE Stop
    BY <2>3, StopCall
  <2>4. CASE Answer("DownloadMoreRam", FALSE, 0, regs.x0)
    BY <2>1, <2>2, <2>4, AnswerCall, Zenon
  <2>5. QED BY <1>8, <2>3, <2>4, Zenon DEF DownloadMoreRam
<1>9. CASE LoadKernelDevice
  <2>1. call.name = "LoadKernelDevice" /\ running = "kernel" /\ done.what = "none"
    BY <1>9, DispatchedCall DEF LoadKernelDevice, Number
  <2>2. CASE Answer("LoadKernelDevice", TRUE, InvalidArgument, Into(InvalidArgument))
    <3>1. LET x == Into(InvalidArgument)
          IN  Decode(x).err /\ Decode(x).value = InvalidArgument
      BY ErrorDecodes DEF Err
    <3>2. QED BY <2>1, <2>2, <3>1, AnswerCall, Zenon
  <2>3. QED BY <1>6, <1>9, <2>2, StopCall, Zenon DEF LoadKernelDevice
<1>10. CASE SleepSec
  BY <1>6, <1>10, StopCall, Zenon DEF SleepSec
<1>11. CASE Return
  <2>1. /\ running = "kernel" /\ done.what # "none" /\ running' = "thread"
        /\ result' = IF call.name \in {"Log", "SleepSec"} THEN Ok(0) ELSE Decode(regs.x0)
        /\ regs' = regs /\ call' = call /\ done' = done
    BY <1>11 DEF Return
  <2>2. Answered /\ Shape'
    BY <2>1 DEF Shape
  <2>3. RamAddress' = RamAddress
    BY <2>1 DEF RamAddress
  <2>4. CASE done.refused
    <3>1. result'.err /\ (done.what # "Unknown" => result'.value = done.value)
      BY <2>1, <2>2, <2>4 DEF Answered
    <3>2. QED BY <2>1, <2>2, <2>4, <3>1 DEF ResultFaithful
  <2>5. CASE ~done.refused
    <3>1. /\ done.what = call.name
          /\ call.name # "Log" /\ RamAddress => Decode(regs.x0) = Ok(regs.x0)
          /\ call.name \in {"PhyMap", "MemMap"} => regs.x0 = done.value
      BY <2>2, <2>5 DEF Answered
    <3>2. ~Ok(0).err /\ ~Ok(regs.x0).err /\ Ok(regs.x0).value = regs.x0
      BY DEF Ok
    <3>3. RamAddress => ~result'.err
      BY <2>1, <3>1, <3>2
    <3>4. RamAddress /\ call.name \in {"PhyMap", "MemMap"} => result'.value = done.value
      BY <2>1, <3>1, <3>2
    <3>5. QED BY <2>1, <2>2, <2>3, <2>5, <3>1, <3>3, <3>4 DEF ResultFaithful
  <2>6. QED BY <2>4, <2>5
<1>12. QED
  BY <1>1, <1>2, <1>3, <1>4, <1>5, <1>7, <1>8, <1>9, <1>10, <1>11 DEF Next, PhyMap, MemMap

(***************************************************************************)
(* For words of every width and any arguments, a wrapper of                *)
(* init/src/utils.rs returns what handle_syscall answered: an error if the *)
(* call was refused, the kernel's if it has one, and otherwise the address *)
(* or the success of the call it was named for.                            *)
(***************************************************************************)
THEOREM ResultIsFaithful == Spec => []ResultFaithful
<1>1. CallInv /\ UNCHANGED vars => CallInv'
  BY DEF CallInv, vars, Shape, Asked, Answered, ResultFaithful, RamAddress
<1>2. CallInv /\ [Next]_vars => CallInv'
  BY <1>1, NextCall
<1>3. CallInv => ResultFaithful
  BY DEF CallInv
<1>4. QED BY InitCall, <1>2, <1>3, PTL DEF Spec

-----------------------------------------------------------------------------
Words == 0 .. (U64 - 1)

\* Arguments, addresses and numbers of syscalls are words.
LEMMA ArgumentsAreWords ==
  /\ U64 \in Nat /\ U64 > 8 /\ 0 \in Words
  /\ Args \cup Addresses \subseteq Words
  /\ \A name \in DOMAIN Number : Number[name] \in Words
<1>1. U32 \in Nat /\ U64 \in Nat /\ U32 > 8 /\ U64 > 0 /\ U64 % U32 = 0
  BY WordAssumption
<1>2. U64 >= U32
  BY <1>1, SMT
<1>3. U64 > 8
  BY <1>1, <1>2
<1>4. \A x \in Args \cup Addresses : x \in Words
  <2>1. \A x \in Args : x \in Words
    BY WordAssumption DEF Words
  <2>2. ASSUME NEW x \in Addresses PROVE x \in Words
    <3>1. x \in 0 .. (U64 \div 2 - 1)
      BY WordAssumption
    <3> QED
      BY <3>1, ResultDecodes DEF Words
  <2> QED
    BY <2>1, <2>2
<1>5. \A name \in DOMAIN Number : Number[name] \in 0 .. 8
  BY NumbersDiffer
<1>6. \A i \in 0 .. 8 : i \in Words
  BY <1>1, <1>3 DEF Words
<1> QED
  BY <1>1, <1>3, <1>4, <1>5, <1>6

\* A record of words is a register file.
LEMMA RegisterFile ==
  ASSUME NEW a \in Words, NEW b \in Words, NEW c \in Words, NEW d \in Words
  PROVE  [x0 |-> a, x1 |-> b, x2 |-> c, x8 |-> d] \in [{"x0", "x1", "x2", "x8"} -> Words]
OBVIOUS

\* An answer that is a word keeps the types.
LEMMA AnswerTypes ==
  ASSUME TypeOK, NEW name, NEW refused \in BOOLEAN, NEW value \in Int, NEW x0 \in Words,
         Answer(name, refused, value, x0)
  PROVE  TypeOK'
<1>1. /\ regs' = [regs EXCEPT !.x0 = x0] /\ done' = Kernel(name, refused, value)
      /\ running' = running /\ call' = call /\ result' = result
  BY DEF Answer
<1>2. regs' \in [{"x0", "x1", "x2", "x8"} -> Words]
  BY <1>1 DEF TypeOK, Words
<1>3. done'.refused = refused /\ done'.value = value
  BY <1>1 DEF Kernel
<1> QED
  BY <1>1, <1>2, <1>3 DEF TypeOK, Words

\* The kernel that stops changes nothing else.
LEMMA StopTypes == TypeOK /\ Stop => TypeOK'
BY DEF TypeOK, Stop

\* What a wrapper makes of a word.
LEMMA DecodeTypes ==
  ASSUME NEW x \in Words
  PROVE  Decode(x).err \in BOOLEAN /\ Decode(x).value \in Int
<1>1. U32 \in Nat /\ U32 > 8 /\ x \in Int
  BY WordAssumption, ArgumentsAreWords DEF Words
<1>2. PICK y : y = x % U32
  OBVIOUS
<1>3. y \in Int
  BY <1>1, <1>2, SMT
<1>4. Signed(y, U32) \in Int
  BY <1>1, <1>3 DEF Signed
<1>5. \/ Decode(x) = Err(Signed(y, U32))
      \/ Decode(x) = Ok(x)
  BY <1>2 DEF Decode
<1>6. \A v : Err(v).err \in BOOLEAN /\ Err(v).value = v
  BY DEF Err
<1>7. \A v : Ok(v).err \in BOOLEAN /\ Ok(v).value = v
  BY DEF Ok
<1>8. CASE Decode(x) = Err(Signed(y, U32))
  BY <1>4, <1>6, <1>8
<1>9. CASE Decode(x) = Ok(x)
  BY <1>1, <1>7, <1>9
<1> QED
  BY <1>5, <1>8, <1>9

\* Every step keeps the types.
LEMMA NextTypes ==
  ASSUME TypeOK, Next
  PROVE  TypeOK'
<1>1. \A i \in {"x0", "x1", "x2", "x8"} : regs[i] \in Words
  BY DEF TypeOK, Words
<1>2. regs.x0 \in Words /\ regs.x1 \in Words
  BY <1>1
<1>3. ASSUME NEW name \in DOMAIN Number, NEW a0 \in Args, NEW a1 \in Args, NEW a2 \in Args,
             Svc(name, a0, a1, a2)
      PROVE  TypeOK'
  <2>1. /\ regs' = [x0 |-> a0, x1 |-> a1, x2 |-> a2, x8 |-> Number[name]]
        /\ call'.name = name /\ running' = "kernel" /\ result' = result
        /\ done'.refused \in BOOLEAN /\ done'.value \in Int
    BY <1>3 DEF Svc, Kernel
  <2>2. a0 \in Words /\ a1 \in Words /\ a2 \in Words /\ Number[name] \in Words
    BY ArgumentsAreWords
  <2>3. regs' \in [{"x0", "x1", "x2", "x8"} -> Words]
    BY <2>1, <2>2, RegisterFile
  <2> QED
    BY <2>1, <2>3 DEF TypeOK, Words
<1>4. CASE Unknown
  <2>1. U64 - 1 \in Words
    BY ArgumentsAreWords DEF Words
  <2>2. 0 \in Int /\ TRUE \in BOOLEAN
    OBVIOUS
  <2>3. Answer("Unknown", TRUE, 0, U64 - 1)
    BY <1>4, Zenon DEF Unknown
  <2> QED
    BY <2>1, <2>2, <2>3, AnswerTypes, Zenon
<1>5. CASE Exit
  BY <1>5, StopTypes DEF Exit
<1>6. CASE Log
  <2>1. PICK len : /\ len = IF regs.x1 < LogBuf THEN regs.x1 ELSE LogBuf
                   /\ Stop \/ Answer("Log", FALSE, len, regs.x0)
    BY <1>6, Zenon DEF Log
  <2>2. len \in Int
    BY <1>2, <2>1, WordAssumption, ArgumentsAreWords DEF Words
  <2> QED
    BY <1>2, <2>1, <2>2, AnswerTypes, StopTypes, Zenon
<1>7. ASSUME NEW name, Map(name) PROVE TypeOK'
  <2>1. ASSUME NEW v \in Addresses, Answer(name, FALSE, v, v) PROVE TypeOK'
    <3>1. v \in Words /\ v \in Int
      BY ArgumentsAreWords DEF Words
    <3> QED
      BY <2>1, <3>1, AnswerTypes, Zenon
  <2> QED
    BY <1>7, <2>1, StopTypes, Zenon DEF Map
<1>8. ASSUME NEW name, NEW x0 \in Words, Answer(name, FALSE, 0, x0) PROVE TypeOK'
  <2>1. 0 \in Int /\ FALSE \in BOOLEAN
    OBVIOUS
  <2> QED
    BY <1>8, <2>1, AnswerTypes, Zenon
<1>9. CASE MemUnmap
  BY <1>8, <1>9, StopTypes, ArgumentsAreWords, Zenon DEF MemUnmap
<1>10. CASE DownloadMoreRam
  BY <1>2, <1>8, <1>10, StopTypes, Zenon DEF DownloadMoreRam
<1>11. CASE LoadKernelDevice
  <2>1. Into(InvalidArgument) \in Words /\ InvalidArgument \in Int
    BY ErrorDecodes DEF Words, InvalidArgument
  <2>2. CASE Answer("LoadKernelDevice", TRUE, InvalidArgument, Into(InvalidArgument))
    BY <2>1, <2>2, AnswerTypes, Zenon
  <2> QED
    BY <1>8, <1>11, <2>2, StopTypes, ArgumentsAreWords, Zenon DEF LoadKernelDevice
<1>12. CASE SleepSec
  BY <1>8, <1>12, StopTypes, ArgumentsAreWords, Zenon DEF SleepSec
<1>13. CASE Return
  <2>1. Ok(0).err \in BOOLEAN /\ Ok(0).value \in Int
    BY DEF Ok
  <2>2. result' = Ok(0) \/ result' = Decode(regs.x0)
    BY <1>13 DEF Return
  <2>3. Decode(regs.x0).err \in BOOLEAN /\ Decode(regs.x0).value \in Int
    BY <1>2, DecodeTypes
  <2>4. result'.err \in BOOLEAN /\ result'.value \in Int
    BY <2>1, <2>2, <2>3
  <2> QED
    BY <1>13, <2>4 DEF Return, TypeOK
<1> QED
  BY <1>3, <1>4, <1>5, <1>6, <1>7, <1>9, <1>10, <1>11, <1>12, <1>13
     DEF Next, PhyMap, MemMap

(***************************************************************************)
(* The four registers always hold words, whatever the handler puts there:  *)
(* a sign-extended error, an address of vmap, or the argument left in x0.  *)
(***************************************************************************)
THEOREM RegistersHoldWords == Spec => []TypeOK
<1>1. Init => TypeOK
  <2> SUFFICES ASSUME Init PROVE TypeOK
    OBVIOUS
  <2>1. regs \in [{"x0", "x1", "x2", "x8"} -> Words]
    BY ArgumentsAreWords, RegisterFile DEF Init
  <2> QED
    BY <2>1 DEF Init, TypeOK, Kernel, Ok, Words
<1>2. TypeOK /\ UNCHANGED vars => TypeOK'
  BY DEF TypeOK, vars
<1> QED
  BY <1>1, <1>2, NextTypes, PTL DEF Spec

=============================================================================
