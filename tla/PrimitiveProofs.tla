-------------------------- MODULE PrimitiveProofs ---------------------------
(***************************************************************************)
(* Safety of four building blocks of the runtime: the futex mutex,         *)
(* OnceLock over the futex once, the left-right table and the slab of      *)
(* fiber stacks, for every set of threads, number of reader slots,         *)
(* capacity and chunk size and any number of calls.                        *)
(***************************************************************************)
EXTENDS FutexMutex, FutexOnce, LeftRight, StackSlab, TLAPS

\* Every leaf is tried with the SMT solver, then with Zenon, then with Z3 for longer.
USE SMTT(20), ZenonT(20), Z3T(40)

\* The mutex.  Exclusion rests on the word being UNLOCKED exactly when nobody
\* holds it; the absence of lost wakeups is inductive by itself once the types
\* are known.

\* The word is UNLOCKED exactly when no thread is past lock / try_lock.
WordMatchesHolder ==
  (state = UNLOCKED) <=> (\A t \in Threads : pc[t] # "held")

\* The inductive invariant.
IInv == TypeOK /\ WordMatchesHolder /\ MutualExclusion /\ NoLostWakeup

\* The initial state of LinuxRawMutex::new satisfies the invariant.
LEMMA InitIInv == Init => IInv
  BY RoundsAssumption
  DEF Init, IInv, TypeOK, WordMatchesHolder, MutualExclusion, NoLostWakeup,
      Words, Labels, UNLOCKED, LOCKED, CONTENDED

\* Every instruction of lock, try_lock and unlock_unchecked preserves the types.
LEMMA TypeStep == TypeOK /\ [Next]_vars => TypeOK'
<1> SUFFICES ASSUME TypeOK, [Next]_vars PROVE TypeOK'
  OBVIOUS
<1> USE DEF TypeOK, Words, Labels, UNLOCKED, LOCKED, CONTENDED, Goto
<1>1. CASE UNCHANGED vars
  BY <1>1 DEF vars
<1>2. ASSUME NEW t \in Threads, Lock(t) \/ TryLock(t) PROVE TypeOK'
  BY <1>2 DEF Lock, TryLock
<1>3. ASSUME NEW t \in Threads, Load(t) PROVE TypeOK'
  BY <1>3 DEF Load
<1>4. ASSUME NEW t \in Threads, Decide(t) PROVE TypeOK'
  BY <1>4 DEF Decide
<1>5. ASSUME NEW t \in Threads, FutexWait(t) \/ Interrupt(t) PROVE TypeOK'
  BY <1>5 DEF FutexWait, Interrupt
<1>6. ASSUME NEW t \in Threads, Unlock(t) PROVE TypeOK'
  BY <1>6 DEF Unlock
<1>7. ASSUME NEW t \in Threads, FutexWake(t) PROVE TypeOK'
  BY <1>7 DEF FutexWake
<1> QED
  BY <1>1, <1>2, <1>3, <1>4, <1>5, <1>6, <1>7 DEF Next, Step

\* No instruction breaks exclusion or the agreement of word and holder.
LEMMA HolderStep ==
  TypeOK /\ WordMatchesHolder /\ MutualExclusion /\ [Next]_vars
    => WordMatchesHolder' /\ MutualExclusion'
<1> SUFFICES ASSUME TypeOK, WordMatchesHolder, MutualExclusion, [Next]_vars
             PROVE  WordMatchesHolder' /\ MutualExclusion'
  OBVIOUS
<1> USE DEF TypeOK, Words, Labels, UNLOCKED, LOCKED, CONTENDED, Goto,
            WordMatchesHolder, MutualExclusion
<1>1. CASE UNCHANGED vars
  BY <1>1 DEF vars
<1>2. ASSUME NEW t \in Threads, Lock(t) \/ TryLock(t)
      PROVE  WordMatchesHolder' /\ MutualExclusion'
  BY <1>2 DEF Lock, TryLock
<1>3. ASSUME NEW t \in Threads, Load(t)
      PROVE  WordMatchesHolder' /\ MutualExclusion'
  BY <1>3 DEF Load
<1>4. ASSUME NEW t \in Threads, Decide(t)
      PROVE  WordMatchesHolder' /\ MutualExclusion'
  BY <1>4 DEF Decide
<1>5. ASSUME NEW t \in Threads, FutexWait(t) \/ Interrupt(t)
      PROVE  WordMatchesHolder' /\ MutualExclusion'
  BY <1>5 DEF FutexWait, Interrupt
<1>6. ASSUME NEW t \in Threads, Unlock(t)
      PROVE  WordMatchesHolder' /\ MutualExclusion'
  BY <1>6 DEF Unlock
<1>7. ASSUME NEW t \in Threads, FutexWake(t)
      PROVE  WordMatchesHolder' /\ MutualExclusion'
  BY <1>7 DEF FutexWake
<1> QED
  BY <1>1, <1>2, <1>3, <1>4, <1>5, <1>6, <1>7 DEF Next, Step

\* No instruction leaves a sleeper with nobody to wake it.
LEMMA WakeupStep == TypeOK /\ NoLostWakeup /\ [Next]_vars => NoLostWakeup'
<1> SUFFICES ASSUME TypeOK, NoLostWakeup, [Next]_vars PROVE NoLostWakeup'
  OBVIOUS
<1> USE DEF TypeOK, Words, Labels, UNLOCKED, LOCKED, CONTENDED, Goto, NoLostWakeup
<1>1. CASE UNCHANGED vars
  BY <1>1 DEF vars
<1>2. ASSUME NEW t \in Threads, Lock(t) \/ TryLock(t) PROVE NoLostWakeup'
  BY <1>2 DEF Lock, TryLock
<1>3. ASSUME NEW t \in Threads, Load(t) PROVE NoLostWakeup'
  BY <1>3 DEF Load
<1>4. ASSUME NEW t \in Threads, Decide(t) PROVE NoLostWakeup'
  BY <1>4 DEF Decide
<1>5. ASSUME NEW t \in Threads, FutexWait(t) \/ Interrupt(t) PROVE NoLostWakeup'
  BY <1>5 DEF FutexWait, Interrupt
<1>6. ASSUME NEW t \in Threads, Unlock(t) PROVE NoLostWakeup'
  BY <1>6 DEF Unlock
<1>7. ASSUME NEW t \in Threads, FutexWake(t) PROVE NoLostWakeup'
  BY <1>7 DEF FutexWake
<1> QED
  BY <1>1, <1>2, <1>3, <1>4, <1>5, <1>6, <1>7 DEF Next, Step

\* The invariant holds in every reachable state of the mutex.
THEOREM Invariance == Spec => []IInv
<1>1. IInv /\ [Next]_vars => IInv'
  BY TypeStep, HolderStep, WakeupStep DEF IInv
<1> QED
  BY InitIInv, <1>1, PTL DEF Spec

\* lock and try_lock grant the mutex to at most one thread at a time.
THEOREM Exclusive == Spec => []MutualExclusion
  BY Invariance, PTL DEF IInv

\* A thread asleep in lock_contended always has somebody left to wake it.
THEOREM NoLostWakeups == Spec => []NoLostWakeup
  BY Invariance, PTL DEF IInv

\* The futex mutex implements the abstract exclusive lock: an acquisition is
\* AcquireWrite, the swap of unlock_unchecked is ReleaseWrite, and every other
\* instruction is a stutter.
THEOREM Refinement == Spec => ImplementsExclusion
<1> USE DEF Excl!vars, Holders
<1>1. Init => Excl!Init
  BY DEF Init, Excl!Init
<1>2. IInv /\ [Next]_vars => [Excl!Next]_(Excl!vars)
  <2> SUFFICES ASSUME IInv, [Next]_vars PROVE [Excl!Next]_(Excl!vars)
    OBVIOUS
  <2> USE DEF IInv, TypeOK, Goto
  <2>1. CASE UNCHANGED vars
    BY <2>1 DEF vars
  <2>2. ASSUME NEW t \in Threads, Holders = {}, Holders' = {t}
        PROVE  Excl!Next
    BY <2>2 DEF Excl!Next, Excl!AcquireWrite
  <2>3. ASSUME NEW t \in Threads, t \in Holders, Holders' = Holders \ {t}
        PROVE  Excl!Next
    BY <2>3 DEF Excl!Next, Excl!ReleaseWrite
  <2>4. ASSUME NEW t \in Threads, Lock(t) \/ TryLock(t) \/ Decide(t)
        PROVE  Holders' = Holders \/ (Holders = {} /\ Holders' = {t})
    BY <2>4 DEF Lock, TryLock, Decide, WordMatchesHolder
  <2>5. ASSUME NEW t \in Threads,
               Load(t) \/ FutexWait(t) \/ Interrupt(t) \/ FutexWake(t)
        PROVE  Holders' = Holders
    BY <2>5 DEF Load, FutexWait, Interrupt, FutexWake
  <2>6. ASSUME NEW t \in Threads, Unlock(t)
        PROVE  t \in Holders /\ Holders' = Holders \ {t}
    BY <2>6 DEF Unlock
  <2> QED
    BY <2>1, <2>2, <2>3, <2>4, <2>5, <2>6 DEF Next, Step
<1> QED
  BY <1>1, <1>2, Invariance, PTL DEF Spec, ImplementsExclusion, Excl!Spec
-----------------------------------------------------------------------------
\* OnceLock.  The inductive invariant adds to the checked properties that COMPLETE
\* is reached only over a written cell and that a caller past call_once_try has
\* seen it.

\* COMPLETE is stable evidence of a written cell.
Published ==
  /\ once_state = COMPLETE => value # Empty
  /\ once_state = RUNNING => \E t \in Callers : once_pc[t] \in Owner
  /\ \A t \in Callers : once_pc[t] \in {"reget", "wakeok"} => once_state = COMPLETE
  /\ \A t \in Callers : once_pc[t] = "complete" => value # Empty
  /\ \A t \in Callers : result[t] # Empty => once_state = COMPLETE

\* The inductive invariant.
OnceIInv == /\ OnceTypeOK /\ ExclusiveInit /\ Published
            /\ OneValue /\ NeverInvalid /\ OnceNoLostWakeup

\* A new OnceLock satisfies the invariant.
LEMMA OnceInitIInv == OnceInit => OnceIInv
  BY CallsAssumption, EmptyAssumption
  DEF OnceInit, OnceIInv, OnceTypeOK, ExclusiveInit, Published, OneValue, NeverInvalid,
      OnceNoLostWakeup, OnceLabels, Owner, UNINITIALIZED, RUNNING, COMPLETE

\* Every step of begin, the initializer, wait and the two stores keeps it.
LEMMA OnceStepIInv == OnceIInv /\ [OnceNext]_once_vars => OnceIInv'
<1> SUFFICES ASSUME OnceIInv, [OnceNext]_once_vars PROVE OnceIInv'
  OBVIOUS
<1> USE EmptyAssumption
    DEF OnceIInv, OnceTypeOK, ExclusiveInit, Published, OneValue, NeverInvalid,
        OnceNoLostWakeup, OnceLabels, Owner, UNINITIALIZED, RUNNING, COMPLETE, OnceGoto
<1>1. CASE UNCHANGED once_vars
  BY <1>1 DEF once_vars
<1>2. ASSUME NEW t \in Callers, Get(t) PROVE OnceIInv'
  BY <1>2 DEF Get, Return
<1>3. ASSUME NEW t \in Callers, Begin(t) PROVE OnceIInv'
  BY <1>3 DEF Begin
<1>4. ASSUME NEW t \in Callers, Claim(t) PROVE OnceIInv'
  BY <1>4 DEF Claim
<1>5. ASSUME NEW t \in Callers, Initialize(t) PROVE OnceIInv'
  BY <1>5 DEF Initialize
<1>6. ASSUME NEW t \in Callers, Complete(t) PROVE OnceIInv'
  BY <1>6 DEF Complete
<1>7. ASSUME NEW t \in Callers, Reset(t) PROVE OnceIInv'
  BY <1>7 DEF Reset
<1>8. ASSUME NEW t \in Callers, WakeAll(t) PROVE OnceIInv'
  BY <1>8 DEF WakeAll
<1>9. ASSUME NEW t \in Callers, Wait(t) \/ OnceFutexWait(t) \/ OnceInterrupt(t) PROVE OnceIInv'
  BY <1>9 DEF Wait, OnceFutexWait, OnceInterrupt
<1>10. ASSUME NEW t \in Callers, Reget(t) PROVE OnceIInv'
  BY <1>10 DEF Reget, Return
<1> QED
  BY <1>1, <1>2, <1>3, <1>4, <1>5, <1>6, <1>7, <1>8, <1>9, <1>10, Zenon DEF OnceNext, OnceStep

\* The invariant holds in every reachable state.
THEOREM OnceInvariance == OnceSpec => []OnceIInv
  BY OnceInitIInv, OnceStepIInv, PTL DEF OnceSpec

\* At most one initializer runs at a time, and only while the word is RUNNING.
THEOREM InitExclusive == OnceSpec => []ExclusiveInit
  BY OnceInvariance, PTL DEF OnceIInv

\* All calls that return a value return the same one, and none ends in the
\* `invalid` fallback.
THEOREM SingleAssignment == OnceSpec => [](OneValue /\ NeverInvalid)
  BY OnceInvariance, PTL DEF OnceIInv

\* A thread asleep in `wait` is never left with nobody to wake it.
THEOREM OnceNoLostWakeups == OnceSpec => []OnceNoLostWakeup
  BY OnceInvariance, PTL DEF OnceIInv
-----------------------------------------------------------------------------
\* The left-right table.  The key fact is OldGuardsAwaited: as long as no counter
\* load has overtaken a selector store, a guard into the replica that the writer
\* has retired can only exist while the writer is scanning and has not yet passed
\* that guard's slot.  The versions of the replicas need no such condition.
OldGuardsAwaited ==
  ~late => \A r \in Slots :
    rpc[r] = "reading" /\ ptr[r] # OwnSide => wpc = "scan" /\ scan <= r

\* A pending flip belongs to the update whose slots are being scanned, and no
\* slot has been passed yet unless a load overtook the flip.
PendingInScan == pending => wpc = "scan" /\ (~late => scan = 1)

\* What each phase of the writer has established about the replicas.
Versions ==
  /\ wpc \in {"idle", "scan"} => replica[OwnSide] = updates
  /\ wpc = "stage" => replica[OwnSide] + 1 = updates
  /\ wpc = "publish" => replica[Inactive] = updates

\* The inductive invariant.
TableIInv == TableTypeOK /\ PendingInScan /\ OldGuardsAwaited /\ Versions

\* The two flags stay Boolean, ...
Flags == pending \in BOOLEAN /\ late \in BOOLEAN

\* ... and the other variables keep their types.
Shapes == /\ active_side \in Sides /\ replica \in [Sides -> Nat]
          /\ wpc \in {"idle", "stage", "publish", "scan"}
          /\ scan \in 1..(READERS + 1) /\ updates \in Nat
          /\ rpc \in [Slots -> {"idle", "begun", "reading"}]
          /\ ptr \in [Slots -> Sides] /\ reads_left \in [Slots -> Nat]

\* The types are the flags' and the shapes of the rest.
LEMMA TypeOKSplit == TableTypeOK <=> Flags /\ Shapes
  BY Zenon DEF TableTypeOK, Flags, Shapes

\* A new table satisfies the invariant.
LEMMA TableInitIInv == TableInit => TableIInv
<1> SUFFICES ASSUME TableInit PROVE TableIInv
  OBVIOUS
<1>1. Flags /\ pending = FALSE
  BY Zenon DEF TableInit, Flags
<1>2. Shapes /\ PendingInScan /\ OldGuardsAwaited /\ Versions
  BY <1>1, ReadersAssumption, BoundsAssumption
  DEF TableInit, Shapes, PendingInScan, OldGuardsAwaited, Versions, Sides, Slots,
      OwnSide, alternate_side
<1> QED
  BY <1>1, <1>2, TypeOKSplit DEF TableIInv

\* Every step keeps the types.
LEMMA TableStepTypeOK == TableTypeOK /\ [TableNext]_table_vars => TableTypeOK'
<1> SUFFICES ASSUME Flags, Shapes, [TableNext]_table_vars PROVE Flags' /\ Shapes'
  BY TypeOKSplit DEF TableTypeOK, Flags, Shapes
<1>1. CASE UNCHANGED table_vars
  BY <1>1 DEF table_vars, writer, reader, Flags, Shapes
<1>2. CASE WriterStep \/ Drain
  <2>1. Flags'
    BY <1>2, Zenon DEF Flags, WriterStep, LockWriter, Stage, Publish, ScanSlot,
                       UnlockWriter, Drain
  <2>2. Shapes'
    <3> USE DEF Shapes, Sides, Slots, reader
    <3>1. OwnSide \in Sides /\ Inactive \in Sides
      BY DEF Flags, OwnSide, Inactive, alternate_side
    <3>2. CASE LockWriter \/ Publish \/ UnlockWriter
      BY <3>1, <3>2, ReadersAssumption DEF LockWriter, Publish, UnlockWriter
    <3>3. CASE Stage
      BY <3>1, <3>3 DEF Stage
    <3>4. CASE ScanSlot
      BY <3>4, ReadersAssumption DEF ScanSlot
    <3>5. CASE Drain
      BY <3>1, <3>5 DEF Drain, writer
    <3> QED
      BY Zenon, <1>2, <3>2, <3>3, <3>4, <3>5 DEF WriterStep
  <2> QED
    BY <2>1, <2>2
<1>3. ASSUME NEW r \in Slots, ReaderStep(r) PROVE Flags' /\ Shapes'
  BY <1>3 DEF Flags, Shapes, Sides, Slots, writer, ReaderStep, ReadBegin, ReadSelect,
              ReadFinish
<1> QED
  BY <1>1, <1>2, <1>3 DEF TableNext

\* Every step keeps the invariant.
LEMMA TableStepIInv == TableIInv /\ [TableNext]_table_vars => TableIInv'
<1> SUFFICES ASSUME TableIInv, [TableNext]_table_vars
             PROVE  (PendingInScan /\ OldGuardsAwaited /\ Versions)'
  BY TableStepTypeOK DEF TableIInv
<1> USE ReadersAssumption
    DEF TableIInv, TableTypeOK, PendingInScan, OldGuardsAwaited, Versions, Sides, Slots,
        Inactive, OwnSide, alternate_side, writer, reader
<1>1. CASE UNCHANGED table_vars
  BY <1>1 DEF table_vars
<1>2. CASE LockWriter
  BY <1>2 DEF LockWriter
<1>3. CASE Stage
  BY <1>3 DEF Stage
<1>4. CASE Publish
  BY <1>4 DEF Publish
<1>5. CASE ScanSlot
  BY <1>5 DEF ScanSlot, Quiescent
<1>6. CASE UnlockWriter
  BY <1>6 DEF UnlockWriter
<1>7. CASE Drain
  BY <1>7 DEF Drain
<1>8. ASSUME NEW r \in Slots, ReadBegin(r)
      PROVE  (PendingInScan /\ OldGuardsAwaited /\ Versions)'
  BY <1>8 DEF ReadBegin
<1>9. ASSUME NEW r \in Slots, ReadSelect(r)
      PROVE  (PendingInScan /\ OldGuardsAwaited /\ Versions)'
  BY <1>9 DEF ReadSelect
<1>10. ASSUME NEW r \in Slots, ReadFinish(r)
       PROVE  (PendingInScan /\ OldGuardsAwaited /\ Versions)'
  BY <1>10 DEF ReadFinish
<1> QED
  BY <1>1, <1>2, <1>3, <1>4, <1>5, <1>6, <1>7, <1>8, <1>9, <1>10, Zenon
  DEF TableNext, WriterStep, ReaderStep

\* The inductive invariant of update and read holds in every reachable state.
THEOREM TableInvariance == TableSpec => []TableIInv
  BY TableInitIInv, TableStepIInv, PTL DEF TableSpec

\* The writer never stages into a replica that a live guard names, as long as
\* the counter loads of wait_for_quiescence stay behind the selector store.
THEOREM NoRecycling == TableSpec => []GuardNotRecycledInOrder
<1>1. TableIInv => GuardNotRecycledInOrder
  BY DEF TableIInv, TableTypeOK, OldGuardsAwaited, PendingInScan, GuardNotRecycledInOrder,
         GuardNotRecycled, Inactive, OwnSide, alternate_side, Sides, Slots
<1> QED
  BY TableInvariance, <1>1, PTL

\* What a guard dereferences never changes while the guard lives, under the
\* same condition.
THEOREM StableGuards == TableSpec => GuardStable
<1> DEFINE Stable == ~late => \A r \in Slots : rpc[r] = "reading" =>
                        replica'[ptr[r]] = replica[ptr[r]]
<1>1. TableIInv /\ [TableNext]_table_vars => [Stable]_table_vars
  <2> SUFFICES ASSUME TableIInv, TableNext PROVE Stable
    OBVIOUS
  <2>1. CASE Stage
    BY <2>1 DEF Stage, TableIInv, TableTypeOK, OldGuardsAwaited, PendingInScan, Inactive,
                OwnSide, alternate_side, Sides
  <2>2. CASE ~Stage
    BY <2>2 DEF TableNext, WriterStep, ReaderStep, LockWriter, Publish, ScanSlot,
                UnlockWriter, Drain, ReadBegin, ReadSelect, ReadFinish
  <2> QED
    BY <2>1, <2>2
<1> QED
  BY TableInvariance, <1>1, PTL DEF TableSpec, GuardStable

\* Every completed update is visible in the published replica, whatever the
\* store buffer does.
THEOREM NoLostUpdate == TableSpec => []UpdatesAccumulate
<1>1. TableIInv => UpdatesAccumulate
  BY DEF TableIInv, Versions, UpdatesAccumulate
<1> QED
  BY TableInvariance, <1>1, PTL
-----------------------------------------------------------------------------
\* The stack slab.  Its bookkeeping is exact for every capacity and every chunk
\* size, a last chunk that is cut short by the capacity included.
K == ChunkSize

\* Division by the chunk size, as chunk_range_ending_at uses it.
LEMMA ModDef ==
  ASSUME SlabAssumption, NEW m \in Nat
  PROVE  /\ m = K * (m \div K) + (m % K)
         /\ m \div K \in Nat
         /\ m % K \in 0..(K - 1)
BY DEF SlabAssumption, K

\* A multiple of the chunk size leaves no remainder.
LEMMA ModMul ==
  ASSUME SlabAssumption, NEW q \in Nat
  PROVE  (K * q) % K = 0
BY DEF SlabAssumption, K

\* Two multiples of the chunk size that differ are a chunk apart.
LEMMA Apart ==
  ASSUME SlabAssumption, NEW a \in Nat, NEW b \in Nat, a % K = 0, b % K = 0, a < b
  PROVE  a + K <= b
<1> DEFINE p == a \div K
           q == b \div K
<1>1. a = K * p + (a % K) /\ p \in Nat /\ b = K * q + (b % K) /\ q \in Nat
  BY ModDef
<1> HIDE DEF p, q
<1>2. a = K * p /\ b = K * q
  BY <1>1 DEF SlabAssumption, K
<1>3. p < q
  BY <1>1, <1>2 DEF SlabAssumption, K
<1>4. K * (p + 1) <= K * q
  BY <1>1, <1>3 DEF SlabAssumption, K
<1> QED
  BY <1>1, <1>2, <1>4 DEF SlabAssumption, K

\* chunk_range_ending_at: the chunk that ends at e starts at a chunk boundary
\* below e and is at most a chunk long.
LEMMA StartOfChunk ==
  ASSUME SlabAssumption, NEW e \in Nat \ {0}
  PROVE  /\ ChunkStart(e) \in Nat
         /\ ChunkStart(e) < e
         /\ e <= ChunkStart(e) + K
         /\ ChunkStart(e) % K = 0
<1> DEFINE q == e \div K
<1>1. e = K * q + (e % K) /\ q \in Nat /\ e % K \in 0..(K - 1)
  BY ModDef
<1>2. CASE e % K = 0
  <2>1. e = K * q /\ q # 0
    BY <1>1, <1>2 DEF SlabAssumption, K
  <2>2. ChunkStart(e) = K * (q - 1) /\ q - 1 \in Nat
    BY <1>1, <1>2, <2>1 DEF ChunkStart, SlabAssumption, K
  <2>3. ChunkStart(e) = e - K
    BY <1>2 DEF ChunkStart, K
  <2>4. (K * (q - 1)) % K = 0
    BY <2>2, ModMul
  <2>5. e - K \in Nat
    BY <2>2, <2>3 DEF SlabAssumption, K
  <2> QED
    BY <2>2, <2>3, <2>4, <2>5 DEF SlabAssumption, K
<1>3. CASE e % K # 0
  <2>1. ChunkStart(e) = e - (e % K)
    BY <1>3 DEF ChunkStart, K
  <2>2. ChunkStart(e) = K * q
    BY <1>1, <2>1 DEF SlabAssumption, K
  <2>3. K * q \in Nat
    BY <1>1 DEF SlabAssumption, K
  <2>4. (K * q) % K = 0
    BY <1>1, ModMul
  <2> QED
    BY <1>1, <1>3, <2>1, <2>2, <2>3, <2>4 DEF SlabAssumption, K
<1> QED
  BY <1>2, <1>3

\* Every slot lies in the chunk that ends at some boundary above it.
LEMMA ChunkOf ==
  ASSUME SlabAssumption, NEW x \in Nat
  PROVE  \E m \in Nat : m % K = 0 /\ (m + K) % K = 0 /\ m <= x /\ x < m + K
<1> DEFINE q == x \div K
<1>1. x = K * q + (x % K) /\ q \in Nat /\ x % K \in 0..(K - 1)
  BY ModDef
<1>2. K * q \in Nat /\ (K * q) % K = 0 /\ K * q + K = K * (q + 1) /\ q + 1 \in Nat
  BY <1>1, ModMul DEF SlabAssumption, K
<1>3. (K * q + K) % K = 0
  BY <1>2, ModMul
<1> HIDE DEF q
<1>4. K * q <= x /\ x < K * q + K
  BY <1>1, <1>2 DEF SlabAssumption, K
<1> QED
  BY <1>2, <1>3, <1>4

\* try_shrink_locked gives up free slots only and keeps the first chunk.
LEMMA ShrinkSound ==
  ASSUME SlabAssumption, NEW a, NEW c \in Nat, NEW d \in 0..c, initial_slots <= c,
         ShrinksTo(a, c, d)
  PROVE  /\ initial_slots <= d
         /\ \A x \in d..(c - 1) : x \notin a
<1>1. CASE d = c
  BY <1>1 DEF SlabAssumption
<1>2. CASE d # c
  <2>1. d < c
    BY <1>2
  <2>2. PICK e \in ChunkEnds(c, d) : ChunkStart(e) = d
    BY <1>2 DEF ShrinksTo
  <2>3. GivesUp(a, e) /\ e \in Nat \ {0}
    BY <2>2 DEF ShrinksTo, ChunkEnds
  <2>4. OnDemand /\ initial_slots = K /\ d > 0 /\ d % K = 0
    BY <2>2, <2>3, StartOfChunk DEF GivesUp, initial_slots, K
  <2>5. 0 % K = 0
    BY DEF SlabAssumption, K
  <2>6. K <= d
    BY <2>4, <2>5, Apart DEF SlabAssumption, K
  <2>7. ASSUME NEW x \in d..(c - 1)
        PROVE  x \notin a
    <3>1. x \in Nat /\ d <= x /\ x < c
      OBVIOUS
    <3>2. PICK m \in Nat : m % K = 0 /\ (m + K) % K = 0 /\ m <= x /\ x < m + K
      BY <3>1, ChunkOf
    <3>3. \E y \in ChunkEnds(c, d) : y \in Nat \ {0} /\ ChunkStart(y) <= x /\ x < y
      <4>1. CASE m + K <= c
        <5>1. m + K \in ChunkEnds(c, d)
          BY <3>1, <3>2, <4>1 DEF ChunkEnds, SlabAssumption, K
        <5>2. ChunkStart(m + K) = m
          BY <3>2 DEF ChunkStart, SlabAssumption, K
        <5> QED
          BY <3>2, <5>1, <5>2 DEF SlabAssumption, K
      <4>2. CASE c < m + K
        <5>1. c \in ChunkEnds(c, d) /\ c \in Nat \ {0}
          BY <2>1 DEF ChunkEnds
        <5>2. ChunkStart(c) \in Nat /\ ChunkStart(c) < c /\ ChunkStart(c) % K = 0
          BY <5>1, StartOfChunk
        <5>3. ~(m < ChunkStart(c))
          BY <3>2, <4>2, <5>2, Apart DEF SlabAssumption, K
        <5> QED
          BY <3>1, <3>2, <5>1, <5>2, <5>3
      <4> QED
        BY <3>2, <4>1, <4>2 DEF SlabAssumption, K
    <3>4. PICK y \in ChunkEnds(c, d) : y \in Nat \ {0} /\ ChunkStart(y) <= x /\ x < y
      BY <3>3
    <3>5. GivesUp(a, y)
      BY <3>4 DEF ShrinksTo
    <3>6. ChunkStart(y) \in Nat \ {0}
      BY <3>4, <3>5, StartOfChunk DEF GivesUp
    <3>7. ChunkStart(ChunkStart(y)) \in Nat /\ ChunkStart(ChunkStart(y)) < ChunkStart(y)
      BY <3>6, StartOfChunk
    <3>8. x \in ChunkStart(ChunkStart(y))..(y - 1)
      BY <3>1, <3>4, <3>6, <3>7
    <3> QED
      BY <3>5, <3>8 DEF GivesUp
  <2> QED
    BY <2>4, <2>6, <2>7
<1> QED
  BY <1>1, <1>2
-----------------------------------------------------------------------------
\* committed_slots is a number of slots.
Slab == SlabExact /\ committed \in Nat

\* acquire_slot_index keeps the bookkeeping exact.
LEMMA AcquireExact ==
  ASSUME SlabAssumption, Slab, NEW x \in Stacks, AcquireStack(x)
  PROVE  Slab'
<1>1. CASE stack_free = {}
  <2>1. committed' = Grown(committed) /\ stack_free' = (committed..(committed' - 1)) \ {x}
        /\ x \in committed..(committed' - 1) /\ allocated' = allocated \cup {x}
        /\ committed < StackCapacity
    BY <1>1 DEF AcquireStack, CanAcquire
  <2>2. committed' \in Nat /\ committed < committed' /\ committed' <= StackCapacity
    BY <2>1 DEF Grown, Slab, SlabAssumption
  <2>3. allocated = 0..(committed - 1) /\ initial_slots <= committed
    BY <1>1 DEF Slab, SlabExact
  <2>4. initial_slots <= committed'
    BY <2>2, <2>3 DEF Slab, initial_slots, SlabAssumption
  <2>5. stack_free' \cap allocated' = {}
    BY <2>1, <2>3 DEF Slab
  <2>6. stack_free' \cup allocated' = 0..(committed' - 1)
    BY <2>1, <2>2, <2>3 DEF Slab
  <2> QED
    BY <2>2, <2>4, <2>5, <2>6 DEF Slab, SlabExact
<1>2. CASE stack_free # {}
  <2>1. committed' = committed /\ stack_free' = stack_free \ {x}
        /\ x \in stack_free /\ allocated' = allocated \cup {x}
    BY <1>2 DEF AcquireStack
  <2> QED
    BY <2>1 DEF Slab, SlabExact
<1> QED
  BY <1>1, <1>2

\* release with its shrink loop keeps the bookkeeping exact.
LEMMA ReleaseExact ==
  ASSUME SlabAssumption, Slab, NEW x \in Stacks, ReleaseStack(x)
  PROVE  Slab'
<1>1. x \in allocated /\ allocated' = allocated \ {x}
  BY DEF ReleaseStack
<1>2. PICK d \in 0..committed : /\ ShrinksTo(allocated', committed, d)
                                /\ committed' = d
                                /\ stack_free' = {y \in stack_free \cup {x} : y < d}
  BY DEF ReleaseStack
<1>3. initial_slots <= d /\ \A y \in d..(committed - 1) : y \notin allocated'
  BY <1>2, ShrinkSound DEF Slab, SlabExact
<1>4. d \in Nat /\ d <= committed /\ committed \in Nat /\ committed <= StackCapacity
  BY <1>2 DEF Slab, SlabExact
<1>5. stack_free \cap allocated = {} /\ stack_free \cup allocated = 0..(committed - 1)
  BY DEF Slab, SlabExact
<1>6. d <= StackCapacity
  BY <1>4 DEF SlabAssumption
<1>7. stack_free' \cap allocated' = {}
  BY <1>1, <1>2, <1>5
<1>8. stack_free' \cup allocated' = 0..(d - 1)
  BY <1>1, <1>2, <1>3, <1>4, <1>5
<1> QED
  BY <1>2, <1>3, <1>4, <1>6, <1>7, <1>8 DEF Slab, SlabExact, initial_slots

\* FiberStackSlab: whatever is acquired and released, free and allocated slots
\* split the committed prefix, and the prefix never drops below the slots the
\* slab began with nor grows past its reservation.
THEOREM SlabIsExact == SlabSpec => []SlabExact
<1> USE SlabAssumption
<1>1. SlabInit => Slab
  BY DEF SlabInit, Slab, SlabExact, initial_slots, SlabAssumption
<1>2. Slab /\ [SlabNext]_slab => Slab'
  <2> SUFFICES ASSUME Slab, [SlabNext]_slab
               PROVE  Slab'
    OBVIOUS
  <2>1. CASE UNCHANGED slab
    BY <2>1 DEF slab, Slab, SlabExact, initial_slots
  <2>2. ASSUME NEW x \in Stacks, AcquireStack(x)
        PROVE  Slab'
    BY <2>2, AcquireExact
  <2>3. ASSUME NEW x \in Stacks, ReleaseStack(x)
        PROVE  Slab'
    BY <2>3, ReleaseExact
  <2> QED
    BY <2>1, <2>2, <2>3 DEF SlabNext
<1>3. Slab => SlabExact
  BY DEF Slab
<1> QED
  BY <1>1, <1>2, <1>3, PTL DEF SlabSpec
=============================================================================
