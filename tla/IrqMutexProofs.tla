--------------------------- MODULE IrqMutexProofs ---------------------------
(***************************************************************************)
(* Proofs about module IrqMutex, for every set of mutexes and every depth  *)
(* to which guards are nested: guarded data has one user at a time, and    *)
(* the mask is as the context found it once its guards are dropped.        *)
(***************************************************************************)
EXTENDS IrqMutex, SequenceTheorems, TLAPS

\* Taking a guard: it becomes the last one, the others stay.
LEMMA AppendGuard ==
  ASSUME NEW S, NEW s \in Seq(S), NEW g \in S
  PROVE  /\ Append(s, g) \in Seq(S)
         /\ Append(s, g) # <<>>
         /\ Len(s) \in Nat
         /\ s # <<>> <=> Len(s) > 0
         /\ Len(Append(s, g)) = Len(s) + 1
         /\ \A i \in 1 .. Len(s) : Append(s, g)[i] = s[i]
         /\ Append(s, g)[Len(s) + 1] = g
BY AppendProperties, EmptySeq

\* Dropping a guard: the last one goes, the others stay.
LEMMA OuterGuards ==
  ASSUME NEW S, NEW s \in Seq(S), s # <<>>
  PROVE  /\ Outer(s) \in Seq(S)
         /\ Len(s) \in Nat \ {0}
         /\ Len(Outer(s)) = Len(s) - 1
         /\ \A i \in 1 .. (Len(s) - 1) : Outer(s)[i] = s[i]
         /\ Outer(s) = <<>> <=> Len(s) = 1
<1>1. Len(s) \in Nat \ {0}
  BY EmptySeq
<1>2. /\ Outer(s) \in Seq(S)
      /\ Len(Outer(s)) = Len(s) - 1
      /\ \A i \in 1 .. (Len(s) - 1) : Outer(s)[i] = s[i]
  <2> DEFINE n == Len(s) - 1
  <2>1. n \in Nat /\ \A i \in 1 .. n : s[i] \in S
    BY <1>1
  <2> HIDE DEF n
  <2>2. /\ SubSeq(s, 1, n) \in Seq(S)
        /\ Len(SubSeq(s, 1, n)) = IF 1 <= n THEN (n - 1) + 1 ELSE 0
        /\ \A i \in 1 .. ((n - 1) + 1) : SubSeq(s, 1, n)[i] = s[(1 + i) - 1]
    BY <2>1, SubSeqProperties
  <2>3. SubSeq(s, 1, n) = Outer(s) /\ n = Len(s) - 1
    BY DEF n, Outer
  <2> QED
    BY <1>1, <2>1, <2>2, <2>3
<1>3. Outer(s) = <<>> <=> Len(Outer(s)) = 0
  BY <1>2, EmptySeq
<1> QED
  BY <1>1, <1>2, <1>3

\* The state in which kmain starts satisfies the invariant.
LEMMA InitLockInv == Init => LockInv
<1> SUFFICES ASSUME Init PROVE LockInv
  OBVIOUS
<1> USE DEF Init
<1>1. TypeOK
  <2>1. <<>> \in Seq(Guards)
    BY EmptySeq
  <2>2. guards \in [Contexts -> Seq(Guards)]
    BY <2>1
  <2>3. \A c \in Contexts : Len(guards[c]) = 0 /\ locking[c] = NoGuard
    BY EmptySeq
  <2>4. locking \in [Contexts -> Guards \cup {NoGuard}]
    OBVIOUS
  <2>5. \A c \in Contexts :
          Len(guards[c]) + (IF locking[c] = NoGuard THEN 0 ELSE 1) <= MaxGuards
    BY <2>3, GuardsAssumption
  <2> QED
    BY <2>2, <2>4, <2>5, Zenon DEF TypeOK, Contexts
<1>2. MutualExclusion /\ MaskRestored
  BY DEF MutualExclusion, MaskRestored, Contexts, MaskedContexts
<1>3. SavedMasks
  BY DEF SavedMasks, Contexts, MaskedContexts
<1> QED
  BY <1>1, <1>2, <1>3 DEF LockInv

\* The first half of lock saves the mask: the one its context started with
\* if it holds no guard, a set one otherwise.
LEMMA LockReadStep ==
  ASSUME LockInv, NEW mutex \in Mutexes, LockRead(mutex)
  PROVE  LockInv'
<1> USE DEF LockInv, TypeOK, LockRead, Guard
<1>1. Guard(mutex, masked) \in Guards
  BY DEF Guards
<1>2. TypeOK'
  BY <1>1, GuardsAssumption
<1>3. MutualExclusion' /\ MaskRestored'
  BY DEF MutualExclusion, MaskRestored
<1>4. masked = (guards[ctx] # <<>> \/ ctx \in MaskedContexts)
  BY DEF MutualExclusion, MaskRestored
<1>5. SavedMasks'
  BY <1>4 DEF SavedMasks
<1> QED
  BY <1>2, <1>3, <1>5

\* The second half of lock adds the guard, and its context is the only one
\* that holds any: the others hold none while this one runs.
LEMMA LockDisableStep ==
  ASSUME LockInv, LockDisable
  PROVE  LockInv'
<1> DEFINE s == guards[ctx]
           g == locking[ctx]
<1> USE DEF LockInv, TypeOK, LockDisable
<1>1. /\ ctx \in Contexts
      /\ s \in Seq(Guards)
      /\ g \in Guards
      /\ g.prev_state = (s # <<>> \/ ctx \in MaskedContexts)
  BY DEF SavedMasks
<1>2. /\ Append(s, g) \in Seq(Guards)
      /\ Append(s, g) # <<>>
      /\ Len(Append(s, g)) = Len(s) + 1
      /\ \A i \in 1 .. Len(s) : Append(s, g)[i] = s[i]
      /\ Append(s, g)[Len(s) + 1] = g
      /\ Len(s) \in Nat
      /\ s # <<>> <=> Len(s) > 0
  BY <1>1, AppendGuard
<1>3. /\ guards' = [guards EXCEPT ![ctx] = Append(s, g)]
      /\ locking' = [locking EXCEPT ![ctx] = NoGuard]
      /\ masked' = TRUE
      /\ UNCHANGED <<pending, ctx, interrupted>>
  OBVIOUS
<1>4. TypeOK'
  <2>1. \A c \in Contexts :
          Len(guards'[c]) + (IF locking'[c] = NoGuard THEN 0 ELSE 1) <= MaxGuards
    <3> SUFFICES ASSUME NEW c \in Contexts
                 PROVE  Len(guards'[c])
                          + (IF locking'[c] = NoGuard THEN 0 ELSE 1) <= MaxGuards
      BY Zenon
    <3>1. CASE c = ctx
      <4>1. Len(s) + 1 <= MaxGuards
        BY <1>1
      <4>2. guards'[c] = Append(s, g) /\ locking'[c] = NoGuard
        BY <1>1, <1>3, <3>1
      <4> QED
        BY <1>2, <4>1, <4>2
    <3>2. CASE c # ctx
      BY <1>1, <1>3, <3>2
    <3> QED
      BY <3>1, <3>2, Zenon
  <2>2. guards' \in [Contexts -> Seq(Guards)]
    BY <1>1, <1>2, <1>3
  <2>3. locking' \in [Contexts -> Guards \cup {NoGuard}]
    BY <1>1, <1>3
  <2> QED
    BY <1>3, <2>1, <2>2, <2>3, Zenon
<1>5. MutualExclusion' /\ MaskRestored'
  BY <1>1, <1>2, <1>3 DEF MutualExclusion, MaskRestored
<1>6. SavedMasks'
  <2>1. \A i \in 1 .. (Len(s) + 1) :
          Append(s, g)[i].prev_state = (i > 1 \/ ctx \in MaskedContexts)
    <3>1. \A i \in 1 .. Len(s) :
            Append(s, g)[i].prev_state = (i > 1 \/ ctx \in MaskedContexts)
      BY <1>1, <1>2 DEF SavedMasks
    <3>2. g.prev_state = (Len(s) + 1 > 1 \/ ctx \in MaskedContexts)
      BY <1>1, <1>2
    <3> QED
      BY <1>1, <1>2, <3>1, <3>2
  <2> QED
    BY <1>1, <1>2, <1>3, <2>1 DEF SavedMasks
<1> QED
  BY <1>4, <1>5, <1>6, Zenon

\* Dropping the innermost guard restores what it saved: the mask its context
\* started with if it was the only one, a set mask otherwise.
LEMMA DropGuardStep ==
  ASSUME LockInv, DropGuard
  PROVE  LockInv'
<1> DEFINE s == guards[ctx]
           last == s[Len(s)].prev_state
<1> USE DEF LockInv, TypeOK, DropGuard
<1>1. /\ ctx \in Contexts
      /\ s \in Seq(Guards)
      /\ s # <<>>
  OBVIOUS
<1>2. /\ Outer(s) \in Seq(Guards)
      /\ Len(s) \in Nat \ {0}
      /\ Len(Outer(s)) = Len(s) - 1
      /\ \A i \in 1 .. (Len(s) - 1) : Outer(s)[i] = s[i]
      /\ Outer(s) = <<>> <=> Len(s) = 1
  BY <1>1, OuterGuards
<1>3. /\ guards' = [guards EXCEPT ![ctx] = Outer(s)]
      /\ masked' = last
      /\ UNCHANGED <<pending, ctx, interrupted, locking>>
  OBVIOUS
<1>4. last = (Len(s) > 1 \/ ctx \in MaskedContexts)
  BY <1>1, <1>2 DEF SavedMasks
<1>5. masked' = (Len(s) > 1 \/ ctx \in MaskedContexts)
  BY <1>3, <1>4
<1>6. TypeOK'
  <2>1. \A c \in Contexts : Len(guards'[c]) <= Len(guards[c])
    BY <1>1, <1>2, <1>3
  <2>2. \A c \in Contexts : Len(guards[c]) \in Nat /\ Len(guards'[c]) \in Nat
    BY <1>1, <1>2, <1>3
  <2>3. \A c \in Contexts :
          Len(guards'[c]) + (IF locking'[c] = NoGuard THEN 0 ELSE 1) <= MaxGuards
    <3> SUFFICES ASSUME NEW c \in Contexts
                 PROVE  Len(guards'[c])
                          + (IF locking'[c] = NoGuard THEN 0 ELSE 1) <= MaxGuards
      BY Zenon
    <3>1. /\ Len(guards[c]) + (IF locking[c] = NoGuard THEN 0 ELSE 1) <= MaxGuards
          /\ locking'[c] = locking[c]
      BY <1>3
    <3>2. /\ Len(guards'[c]) <= Len(guards[c])
          /\ Len(guards[c]) \in Nat /\ Len(guards'[c]) \in Nat
      BY <2>1, <2>2
    <3> HIDE DEF LockInv, TypeOK, DropGuard
    <3>3. CASE locking[c] = NoGuard
      BY <3>1, <3>2, <3>3, GuardsAssumption
    <3>4. CASE locking[c] # NoGuard
      BY <3>1, <3>2, <3>4, GuardsAssumption
    <3> QED
      BY <3>3, <3>4, Zenon
  <2>4. guards' \in [Contexts -> Seq(Guards)]
    BY <1>1, <1>2, <1>3
  <2>5. masked' \in BOOLEAN
    BY <1>5
  <2> QED
    BY <1>3, <2>3, <2>4, <2>5, Zenon
<1>7. MutualExclusion'
  BY <1>1, <1>2, <1>3, <1>5 DEF MutualExclusion
<1>8. MaskRestored'
  <2>1. guards'[ctx'] = <<>> <=> Len(s) = 1
    BY <1>1, <1>2, <1>3
  <2>2. Len(s) = 1 => (masked' <=> ctx' \in MaskedContexts)
    <3>1. Len(s) = 1 => ~(Len(s) > 1)
      BY <1>2
    <3> QED
      BY <1>3, <1>5, <3>1, Zenon
  <2> QED
    BY <1>1, <1>3, <2>1, <2>2 DEF MaskRestored
<1>9. SavedMasks'
  <2>1. (ctx = "irq" => interrupted \notin MaskedContexts)'
    BY <1>3 DEF SavedMasks
  <2>2. \A i \in 1 .. Len(Outer(s)) :
          Outer(s)[i].prev_state = (i > 1 \/ ctx \in MaskedContexts)
    <3>1. \A i \in 1 .. Len(s) :
            s[i].prev_state = (i > 1 \/ ctx \in MaskedContexts)
      BY <1>1 DEF SavedMasks
    <3>2. \A i \in 1 .. Len(Outer(s)) : i \in 1 .. Len(s) /\ Outer(s)[i] = s[i]
      BY <1>2
    <3> HIDE DEF s, LockInv, TypeOK, DropGuard
    <3> QED
      BY <3>1, <3>2, Zenon
  <2>3. locking[ctx] = NoGuard
    OBVIOUS
  <2>4. guards'[ctx] = Outer(s) /\ \A c \in Contexts \ {ctx} : guards'[c] = guards[c]
    BY <1>1, <1>3
  <2> HIDE DEF TypeOK, DropGuard
  <2> QED
    BY <1>3, <2>1, <2>2, <2>3, <2>4 DEF SavedMasks
<1> QED
  BY <1>6, <1>7, <1>8, <1>9, Zenon

\* Steps from one context to another leave guards alone, and start the new
\* context with the mask it is entered with.
LEMMA SwitchStep ==
  ASSUME LockInv,
         Enable \/ Enter \/ SvcEnter \/ SvcReturn \/ IrqEnter \/ IrqReturn
  PROVE  LockInv'
<1> USE DEF LockInv
<1>1. UNCHANGED <<guards, locking>>
  BY DEF Enable, Enter, SvcEnter, SvcReturn, IrqEnter, IrqReturn, locks
<1>2. \A c \in Contexts : guards[c] = <<>>
  BY DEF MutualExclusion, TypeOK, Preempted, Outside, Contexts, Enable, Enter,
         SvcEnter, SvcReturn, IrqEnter, IrqReturn
<1>3. TypeOK'
  BY <1>1, Zenon DEF TypeOK, Contexts, Enable, Enter, SvcEnter, SvcReturn, IrqEnter,
              IrqReturn
<1>4. MutualExclusion'
  BY <1>1, <1>2 DEF MutualExclusion
<1>5. (masked' <=> ctx' \in MaskedContexts)
        /\ (ctx' = "irq" => interrupted' \notin MaskedContexts)
  BY <1>2 DEF TypeOK, SavedMasks, MaskRestored, Preempted, Outside, Contexts,
              MaskedContexts, Enable, Enter, SvcEnter, SvcReturn, IrqEnter,
              IrqReturn
<1>6. MaskRestored' /\ SavedMasks'
  BY <1>1, <1>5 DEF MaskRestored, SavedMasks
<1> QED
  BY <1>3, <1>4, <1>6

\* Every step of the kernel, of the thread and of a device keeps LockInv.
LEMMA LockInvStep == LockInv /\ [Next]_vars => LockInv'
<1> SUFFICES ASSUME LockInv, [Next]_vars PROVE LockInv'
  OBVIOUS
<1>1. ASSUME NEW mutex \in Mutexes, LockRead(mutex) PROVE LockInv'
  BY <1>1, LockReadStep
<1>2. CASE LockDisable
  BY <1>2, LockDisableStep
<1>3. CASE DropGuard
  BY <1>3, DropGuardStep
<1>4. CASE Enable \/ Enter \/ SvcEnter \/ SvcReturn \/ IrqEnter \/ IrqReturn
  BY <1>4, SwitchStep
<1>5. CASE Raise
  BY <1>5 DEF Raise, locks, LockInv, TypeOK, MutualExclusion, MaskRestored,
              SavedMasks
<1>6. CASE UNCHANGED vars
  BY <1>6 DEF vars, LockInv, TypeOK, MutualExclusion, MaskRestored, SavedMasks
<1> QED
  BY <1>1, <1>2, <1>3, <1>4, <1>5, <1>6 DEF Next

(***************************************************************************)
(* IrqGuard gives exclusive access: for all locks and nestings, no context *)
(* runs while another one holds a guard.                                   *)
(***************************************************************************)
THEOREM GuardsExclusive == Spec => []MutualExclusion
<1>1. LockInv => MutualExclusion
  BY DEF LockInv
<1> QED
  BY <1>1, InitLockInv, LockInvStep, PTL DEF Spec

(***************************************************************************)
(* Drop for IrqGuard restores the mask: a context with no guard has        *)
(* interrupts on or off as it started, so handlers are not interrupted.    *)
(***************************************************************************)
THEOREM GuardsRestoreMask == Spec => []MaskRestored
<1>1. LockInv => MaskRestored
  BY DEF LockInv
<1> QED
  BY <1>1, InitLockInv, LockInvStep, PTL DEF Spec

(***************************************************************************)
(* lock saves the right mask, however deep guards nest and wherever an     *)
(* interrupt comes between the read of DAIF and the disable.               *)
(***************************************************************************)
THEOREM GuardsSaveMasks == Spec => []SavedMasks
<1>1. LockInv => SavedMasks
  BY DEF LockInv
<1> QED
  BY <1>1, InitLockInv, LockInvStep, PTL DEF Spec

=============================================================================
