----------------------------- MODULE FutexProofs -----------------------------
(***************************************************************************)
(* Safety of the two futex primitives that count: the rwlock and the       *)
(* semaphore, for every finite set of threads, any maximum, any batches of *)
(* releases and any number of calls.                                       *)
(***************************************************************************)
EXTENDS FutexRwLock, FutexSemaphore, FiniteSetTheorems, TLAPS

\* Every leaf is tried with the SMT solver, then with Zenon, then with Z3 for longer.
USE SMTT(20), ZenonT(20), Z3T(40)

\* The rwlock.  Exclusion follows from the exactness of the counters; that no
\* waiter is forgotten needs one more fact, WaitersCovered: a waiter whose
\* observed epoch is still current was refused for a reason that still stands
\* or whose end is committed to bumping the epoch, and a sleeper whose epoch is
\* old is about to be woken.

Bumping == At({"bump"}) # {}
WakingNow == At({"wake"}) # {}
Holding == At({"rheld", "wheld"}) # {}
Writing == At({"wtry", "wagain", "wwait", "wsleep", "wback", "wheld"}) # {}

WaitersCovered ==
  \A t \in Lockers :
    /\ observed[t] <= epoch
    /\ rw_pc[t] \in {"wwait", "wsleep"} /\ observed[t] = epoch => Holding \/ Bumping
    /\ rw_pc[t] \in {"rwait", "rsleep"} /\ observed[t] = epoch => Writing \/ Bumping
    /\ rw_pc[t] \in {"wsleep", "rsleep"} /\ observed[t] # epoch => WakingNow

\* The inductive invariant.
RwIInv == RwTypeOK /\ CountsExact /\ WriterExclusive /\ WaitersCovered

\* Any set of threads at some labels is finite.
LEMMA AtFinite == \A ls : IsFiniteSet(At(ls))
<1> SUFFICES ASSUME NEW ls PROVE IsFiniteSet(At(ls))
  OBVIOUS
<1>1. At(ls) \in SUBSET Lockers
  BY DEF At
<1> QED
  BY <1>1, LockersAssumption, FS_Subset

\* A finite set counts zero only when it is empty.
LEMMA CountEmpty ==
  ASSUME NEW S, IsFiniteSet(S)
  PROVE  /\ Cardinality(S) \in Nat
         /\ (Cardinality(S) = 0) <=> (S = {})
BY FS_CardinalityType, FS_EmptySet

\* How moving one thread to label l changes the number of threads at ls.
LEMMA CountMove ==
  ASSUME rw_pc \in [Lockers -> RwLabels], NEW t \in Lockers, NEW l, RwGoto(t, l), NEW ls
  PROVE  /\ Cardinality(At(ls)) \in Nat
         /\ l \in ls /\ rw_pc[t] \notin ls
              => Cardinality(At(ls)') = Cardinality(At(ls)) + 1
         /\ l \notin ls /\ rw_pc[t] \in ls
              => Cardinality(At(ls)') = Cardinality(At(ls)) - 1
         /\ (l \in ls <=> rw_pc[t] \in ls)
              => Cardinality(At(ls)') = Cardinality(At(ls))
<1>1. IsFiniteSet(At(ls)) /\ Cardinality(At(ls)) \in Nat
  BY AtFinite, CountEmpty
<1>2. At(ls)' = IF l \in ls THEN At(ls) \cup {t} ELSE At(ls) \ {t}
  BY DEF At, RwGoto
<1>3. t \in At(ls) <=> rw_pc[t] \in ls
  BY DEF At
<1>4. CASE l \in ls
  BY <1>1, <1>2, <1>3, <1>4, FS_AddElement
<1>5. CASE l \notin ls
  BY <1>1, <1>2, <1>3, <1>5, FS_RemoveElement, Zenon
<1> QED
  BY <1>1, <1>4, <1>5

\* A new lock satisfies the invariant.
LEMMA RwInitIInv == RwInit => RwIInv
<1> SUFFICES ASSUME RwInit PROVE RwIInv
  OBVIOUS
<1>1. \A ls : "idle" \notin ls => At(ls) = {}
  BY DEF RwInit, At
<1>2. CountsExact
  BY <1>1, FS_EmptySet DEF RwInit, CountsExact
<1> QED
  BY <1>2, RwRoundsAssumption
  DEF RwInit, RwIInv, RwTypeOK, RwLabels, WriterExclusive, WaitersCovered

\* Every step preserves the types.
LEMMA RwTypeStep == RwTypeOK /\ CountsExact /\ [RwNext]_rw_vars => RwTypeOK'
<1> SUFFICES ASSUME RwTypeOK, CountsExact, [RwNext]_rw_vars PROVE RwTypeOK'
  OBVIOUS
<1> USE DEF RwTypeOK, RwLabels, RwGoto, counts
<1>1. CASE UNCHANGED rw_vars
  BY <1>1 DEF rw_vars
<1>2. ASSUME NEW t \in Lockers, RwCall(t) \/ RwFutexWait(t) \/ RwInterrupt(t) PROVE RwTypeOK'
  BY <1>2 DEF RwCall, RwFutexWait, RwInterrupt, AfterWait
<1>3. ASSUME NEW t \in Lockers, ReadTry(t) \/ TryRead(t) PROVE RwTypeOK'
  BY <1>3 DEF ReadTry, TryRead
<1>4. ASSUME NEW t \in Lockers, WriteTry(t) \/ TryWrite(t) PROVE RwTypeOK'
  BY <1>4 DEF WriteTry, TryWrite
<1>5. ASSUME NEW t \in Lockers, DropGuard(t) PROVE RwTypeOK'
  <2>1. t \in At({"wwait", "wsleep", "wback"})
    BY <1>5 DEF DropGuard, At
  <2>2. waiting_writers - 1 \in Nat
    BY <2>1, AtFinite, CountEmpty DEF CountsExact, RwTypeOK
  <2> QED
    BY <1>5, <2>2 DEF DropGuard
<1>6. ASSUME NEW t \in Lockers, ReadUnlock(t) PROVE RwTypeOK'
  <2>1. t \in At({"rheld"})
    BY <1>6 DEF ReadUnlock, At
  <2>2. readers - 1 \in Nat
    BY <2>1, AtFinite, CountEmpty DEF CountsExact, RwTypeOK
  <2> QED
    BY <1>6, <2>2 DEF ReadUnlock
<1>7. ASSUME NEW t \in Lockers, WriteUnlock(t) \/ BumpEpoch(t) PROVE RwTypeOK'
  BY <1>7 DEF WriteUnlock, BumpEpoch
<1>8. ASSUME NEW t \in Lockers, RwWakeAll(t) PROVE RwTypeOK'
  BY <1>8 DEF RwWakeAll, AfterWait
<1> QED
  BY <1>1, <1>2, <1>3, <1>4, <1>5, <1>6, <1>7, <1>8 DEF RwNext, RwStep

\* What the counters say about who is where.
CountsMeaning ==
  /\ readers = 0 <=> \A t \in Lockers : rw_pc[t] # "rheld"
  /\ writer_active = 0 <=> \A t \in Lockers : rw_pc[t] # "wheld"
  /\ waiting_writers = 0
       <=> \A t \in Lockers : rw_pc[t] \notin {"wwait", "wsleep", "wback"}

\* A counter is zero exactly when nobody is where it counts.
LEMMA CountsMean == CountsExact => CountsMeaning
<1> SUFFICES ASSUME CountsExact PROVE CountsMeaning
  OBVIOUS
<1>1. \A ls : (Cardinality(At(ls)) = 0) <=> (At(ls) = {})
  BY AtFinite, CountEmpty
<1>2. \A ls : (At(ls) = {}) <=> (\A t \in Lockers : rw_pc[t] \notin ls)
  BY DEF At
<1>3. \A ls : (Cardinality(At(ls)) = 0) <=> (\A t \in Lockers : rw_pc[t] \notin ls)
  BY <1>1, <1>2
<1>4. (readers = 0) <=> (\A t \in Lockers : rw_pc[t] \notin {"rheld"})
  BY <1>3 DEF CountsExact
<1>5. (writer_active = 0) <=> (\A t \in Lockers : rw_pc[t] \notin {"wheld"})
  BY <1>3 DEF CountsExact
<1>6. (waiting_writers = 0)
        <=> (\A t \in Lockers : rw_pc[t] \notin {"wwait", "wsleep", "wback"})
  BY <1>3 DEF CountsExact
<1> QED
  BY <1>4, <1>5, <1>6 DEF CountsMeaning

\* Every gated section keeps the three counters equal to what they count.
LEMMA CountsStep == RwTypeOK /\ CountsExact /\ [RwNext]_rw_vars => CountsExact'
<1> SUFFICES ASSUME RwTypeOK, CountsExact, [RwNext]_rw_vars PROVE CountsExact'
  OBVIOUS
<1> DEFINE R == At({"rheld"})
           W == At({"wwait", "wsleep", "wback"})
           A == At({"wheld"})
           Moves(S, from, to) ==
             /\ Cardinality(S) \in Nat
             /\ to /\ ~from => Cardinality(S') = Cardinality(S) + 1
             /\ ~to /\ from => Cardinality(S') = Cardinality(S) - 1
             /\ (to <=> from) => Cardinality(S') = Cardinality(S)
           WaitLabels == {"wwait", "wsleep", "wback"}
<1>a. ASSUME NEW t \in Lockers, NEW l, RwGoto(t, l)
      PROVE  /\ Moves(R, rw_pc[t] = "rheld", l = "rheld")
             /\ Moves(W, rw_pc[t] \in WaitLabels, l \in WaitLabels)
             /\ Moves(A, rw_pc[t] = "wheld", l = "wheld")
  <2>1. Moves(R, rw_pc[t] \in {"rheld"}, l \in {"rheld"})
    BY <1>a, CountMove DEF RwTypeOK
  <2>2. Moves(W, rw_pc[t] \in WaitLabels, l \in WaitLabels)
    BY <1>a, CountMove DEF RwTypeOK
  <2>3. Moves(A, rw_pc[t] \in {"wheld"}, l \in {"wheld"})
    BY <1>a, CountMove DEF RwTypeOK
  <2> QED
    BY <2>1, <2>2, <2>3
<1>b. /\ readers = Cardinality(R) /\ waiting_writers = Cardinality(W)
      /\ writer_active = Cardinality(A)
  BY DEF CountsExact
<1> DEFINE Goal == /\ readers' = Cardinality(R')
                   /\ waiting_writers' = Cardinality(W')
                   /\ writer_active' = Cardinality(A')
<1>c. SUFFICES Goal
  BY DEF CountsExact
<1> HIDE DEF R, W, A
<1>1. CASE UNCHANGED rw_vars
  BY <1>1, <1>b DEF rw_vars, counts, R, W, A, At
<1>2. ASSUME NEW t \in Lockers, RwCall(t) PROVE Goal
  BY <1>2, <1>a, <1>b DEF RwCall, counts
<1>3. ASSUME NEW t \in Lockers, RwFutexWait(t) \/ RwInterrupt(t) PROVE Goal
  BY <1>3, <1>a, <1>b DEF RwFutexWait, RwInterrupt, AfterWait, counts
<1>4. ASSUME NEW t \in Lockers, ReadTry(t) \/ TryRead(t) PROVE Goal
  BY <1>4, <1>a, <1>b DEF ReadTry, TryRead
<1>5. ASSUME NEW t \in Lockers, WriteTry(t) \/ TryWrite(t) PROVE Goal
  BY <1>5, <1>a, <1>b DEF WriteTry, TryWrite, WriteAdmitted
<1>6. ASSUME NEW t \in Lockers, DropGuard(t) PROVE Goal
  BY <1>6, <1>a, <1>b DEF DropGuard
<1>7. ASSUME NEW t \in Lockers, ReadUnlock(t) PROVE Goal
  BY <1>7, <1>a, <1>b DEF ReadUnlock
<1>8. ASSUME NEW t \in Lockers, WriteUnlock(t) PROVE Goal
  BY <1>8, <1>a, <1>b, CountsMean DEF WriteUnlock, RwTypeOK, CountsMeaning
<1>9. ASSUME NEW t \in Lockers, BumpEpoch(t) PROVE Goal
  BY <1>9, <1>a, <1>b DEF BumpEpoch, counts
<1>10. ASSUME NEW t \in Lockers, RwWakeAll(t) PROVE Goal
  <2>1. R' = R /\ W' = W /\ A' = A
    BY <1>10 DEF RwWakeAll, AfterWait, R, W, A, At, RwTypeOK
  <2> QED
    BY <1>10, <1>b, <2>1 DEF RwWakeAll, counts
<1> QED
  BY <1>1, <1>2, <1>3, <1>4, <1>5, <1>6, <1>7, <1>8, <1>9, <1>10 DEF RwNext, RwStep

\* No step grants an exclusive hold beside another hold.
LEMMA ExclusiveStep ==
  RwTypeOK /\ CountsExact /\ WriterExclusive /\ [RwNext]_rw_vars => WriterExclusive'
<1> SUFFICES ASSUME RwTypeOK, CountsExact, WriterExclusive, [RwNext]_rw_vars
             PROVE  WriterExclusive'
  OBVIOUS
<1> USE CountsMean DEF RwTypeOK, RwGoto, WriterExclusive, CountsMeaning
<1>1. CASE UNCHANGED rw_vars
  BY <1>1 DEF rw_vars
<1>2. ASSUME NEW t \in Lockers, ReadTry(t) \/ TryRead(t) PROVE WriterExclusive'
  BY <1>2 DEF ReadTry, TryRead, ReadAdmitted
<1>3. ASSUME NEW t \in Lockers, WriteTry(t) \/ TryWrite(t) PROVE WriterExclusive'
  BY <1>3 DEF WriteTry, TryWrite, WriteAdmitted
<1>4. ASSUME NEW t \in Lockers,
             RwCall(t) \/ RwFutexWait(t) \/ RwInterrupt(t) \/ DropGuard(t)
      PROVE  WriterExclusive'
  BY <1>4 DEF RwCall, RwFutexWait, RwInterrupt, DropGuard, AfterWait
<1>5. ASSUME NEW t \in Lockers, ReadUnlock(t) \/ WriteUnlock(t) \/ BumpEpoch(t)
      PROVE  WriterExclusive'
  BY <1>5 DEF ReadUnlock, WriteUnlock, BumpEpoch
<1>6. ASSUME NEW t \in Lockers, RwWakeAll(t) PROVE WriterExclusive'
  BY <1>6 DEF RwWakeAll, AfterWait
<1> QED
  BY <1>1, <1>2, <1>3, <1>4, <1>5, <1>6 DEF RwNext, RwStep

\* No step leaves a waiter uncovered.
LEMMA CoveredStep == RwIInv /\ [RwNext]_rw_vars => WaitersCovered'
<1> SUFFICES ASSUME RwTypeOK, CountsExact, WaitersCovered, [RwNext]_rw_vars
             PROVE  WaitersCovered'
  BY DEF RwIInv
<1> USE CountsMean
    DEF RwTypeOK, RwLabels, RwGoto, WaitersCovered, Bumping, WakingNow, Holding, Writing, At,
        CountsMeaning
<1>1. CASE UNCHANGED rw_vars
  BY <1>1 DEF rw_vars
<1>2. ASSUME NEW t \in Lockers, ReadTry(t) \/ TryRead(t) PROVE WaitersCovered'
  BY <1>2 DEF ReadTry, TryRead, ReadAdmitted
<1>3. ASSUME NEW t \in Lockers, WriteTry(t) \/ TryWrite(t) PROVE WaitersCovered'
  BY <1>3 DEF WriteTry, TryWrite, WriteAdmitted
<1>4. ASSUME NEW t \in Lockers, RwCall(t) \/ DropGuard(t) PROVE WaitersCovered'
  BY <1>4 DEF RwCall, DropGuard
<1>5. ASSUME NEW t \in Lockers, RwFutexWait(t) \/ RwInterrupt(t) PROVE WaitersCovered'
  BY <1>5 DEF RwFutexWait, RwInterrupt, AfterWait
<1>6. ASSUME NEW t \in Lockers, WriteUnlock(t) PROVE WaitersCovered'
  BY <1>6 DEF WriteUnlock
<1>7. ASSUME NEW t \in Lockers, BumpEpoch(t) PROVE WaitersCovered'
  BY <1>7 DEF BumpEpoch
<1>8. ASSUME NEW t \in Lockers, RwWakeAll(t) PROVE WaitersCovered'
  BY <1>8, Zenon DEF RwWakeAll, AfterWait
<1>9. ASSUME NEW t \in Lockers, ReadUnlock(t) PROVE WaitersCovered'
  <2>1. CountsMeaning'
    BY CountsStep, CountsMean, PTL
  <2> QED
    BY <1>9, <2>1 DEF ReadUnlock
<1> QED
  BY <1>1, <1>2, <1>3, <1>4, <1>5, <1>6, <1>7, <1>8, <1>9, Zenon DEF RwNext, RwStep

\* The invariant holds in every reachable state of the rwlock.
THEOREM RwInvariance == RwSpec => []RwIInv
<1>1. RwIInv /\ [RwNext]_rw_vars => RwIInv'
  BY RwTypeStep, CountsStep, ExclusiveStep, CoveredStep DEF RwIInv
<1> QED
  BY RwInitIInv, <1>1, PTL DEF RwSpec

\* readers, waiting_writers and writer_active always count exactly the holds
\* and the registered writers.
THEOREM CountersExact == RwSpec => []CountsExact
  BY RwInvariance, PTL DEF RwIInv

\* A write_lock is never granted beside another hold.
THEOREM RwExclusive == RwSpec => []WriterExclusive
  BY RwInvariance, PTL DEF RwIInv

\* Neither a sleeping writer nor a sleeping reader is ever left with nobody
\* to wake it, although read_unlock skips the wake when no writer waits.
THEOREM SleepersCovered == RwSpec => []NobodyForgotten
<1>1. RwIInv => NobodyForgotten
  BY DEF RwIInv, RwTypeOK, WaitersCovered, NobodyForgotten,
         Waking, Bumping, WakingNow, Holding, Writing, At
<1> QED
  BY RwInvariance, <1>1, PTL

\* The gated counters implement the abstract shared/exclusive lock.
THEOREM RwRefinement == RwSpec => ImplementsSharing
<1> DEFINE R == At({"rheld"})
           A == At({"wheld"})
<1>1. RwInit => RwExcl!Init
  BY DEF RwInit, RwExcl!Init, At
<1>2. RwIInv /\ [RwNext]_rw_vars => [RwExcl!Next]_(RwExcl!vars)
  <2> SUFFICES ASSUME RwIInv, [RwNext]_rw_vars PROVE [RwExcl!Next]_(RwExcl!vars)
    OBVIOUS
  <2>a. /\ readers = 0 => R = {}
        /\ writer_active = 0 => A = {}
    BY CountsMean DEF RwIInv, CountsMeaning, At
  <2>b. rw_pc \in [Lockers -> RwLabels]
    BY DEF RwIInv, RwTypeOK
  <2>1. CASE UNCHANGED rw_vars
    BY <2>1 DEF rw_vars, RwExcl!vars, At
  <2>2. ASSUME NEW t \in Lockers, ReadTry(t) \/ TryRead(t)
        PROVE  (R' = R /\ A' = A) \/ RwExcl!AcquireRead(t)
    BY <2>2, <2>a, <2>b DEF ReadTry, TryRead, ReadAdmitted, RwGoto, At, RwExcl!AcquireRead
  <2>3. ASSUME NEW t \in Lockers, WriteTry(t) \/ TryWrite(t)
        PROVE  (R' = R /\ A' = A) \/ RwExcl!AcquireWrite(t)
    BY <2>3, <2>a, <2>b
    DEF WriteTry, TryWrite, WriteAdmitted, RwGoto, At, RwExcl!AcquireWrite
  <2>4. ASSUME NEW t \in Lockers, ReadUnlock(t) PROVE RwExcl!ReleaseRead(t)
    BY <2>4, <2>b DEF ReadUnlock, RwGoto, At, RwExcl!ReleaseRead
  <2>5. ASSUME NEW t \in Lockers, WriteUnlock(t) PROVE RwExcl!ReleaseWrite(t)
    BY <2>5, <2>b DEF WriteUnlock, RwGoto, At, RwExcl!ReleaseWrite
  <2>6. ASSUME NEW t \in Lockers, \/ RwCall(t) \/ RwFutexWait(t) \/ RwInterrupt(t)
                                  \/ DropGuard(t) \/ BumpEpoch(t) \/ RwWakeAll(t)
        PROVE  R' = R /\ A' = A
    BY <2>6, <2>b
    DEF RwCall, RwFutexWait, RwInterrupt, DropGuard, BumpEpoch, RwWakeAll, AfterWait, RwGoto, At
  <2>7. R' = R /\ A' = A => UNCHANGED RwExcl!vars
    BY DEF RwExcl!vars
  <2> QED
    BY <2>1, <2>2, <2>3, <2>4, <2>5, <2>6, <2>7 DEF RwNext, RwStep, RwExcl!Next
<1> QED
  BY <1>1, <1>2, RwInvariance, PTL DEF RwSpec, ImplementsSharing, RwExcl!Spec

-----------------------------------------------------------------------------
\* The semaphore.  Permits are conserved because each exchange compares the
\* whole word.  That no wakeup is lost is a matter of counting: a release adds as
\* many permits as it owes wakes, a wake turns owed wakes into awake acquirers,
\* and an acquirer leaves with a permit or goes to sleep when there is none.

SemLabels == {"idle", "reload", "acquire", "wait", "asleep", "try", "release", "wake"}

SemTypeOK ==
  /\ permits \in 0..MaxPermits
  /\ taken \in Nat /\ given \in Nat
  /\ sem_pc \in [Takers -> SemLabels]
  /\ current \in [Takers -> Nat]
  /\ amount \in [Takers -> Nat] /\ sem_left \in [Takers -> Nat]
  /\ \A t \in Takers : sem_pc[t] = "wake" => amount[t] <= MaxPermits

\* The inductive invariant.
SemIInv == SemTypeOK /\ PermitsConserved /\ PermitsNotStranded

\* LinuxSemaphore::new establishes the invariant.
LEMMA SemInitIInv == SemInit => SemIInv
  BY SemaphoreAssumption
  DEF SemInit, SemIInv, SemTypeOK, SemLabels, PermitsConserved, PermitsNotStranded, Sleepers

\* Every instruction and futex call preserves the types.
LEMMA SemTypeStep == SemTypeOK /\ [SemNext]_sem_vars => SemTypeOK'
<1> SUFFICES ASSUME SemTypeOK, [SemNext]_sem_vars PROVE SemTypeOK'
  OBVIOUS
<1> USE SemaphoreAssumption DEF SemTypeOK, SemLabels, SemGoto, Observe, SemCall
<1>1. CASE UNCHANGED sem_vars
  BY <1>1 DEF sem_vars, sem_locals
<1>2. ASSUME NEW t \in Takers, AcquireLoad(t) \/ TryAcquireLoad(t) PROVE SemTypeOK'
  BY <1>2 DEF AcquireLoad, TryAcquireLoad
<1>3. ASSUME NEW t \in Takers, ReleaseLoad(t) PROVE SemTypeOK'
  <2>1. PICK k \in Batch : amount' = [amount EXCEPT ![t] = k]
    BY <1>3, Zenon DEF ReleaseLoad
  <2>2. k \in Nat
    OBVIOUS
  <2> QED BY <1>3, <2>1, <2>2 DEF ReleaseLoad
<1>4. ASSUME NEW t \in Takers, AcquireDecide(t) PROVE SemTypeOK'
  BY <1>4 DEF AcquireDecide
<1>5. ASSUME NEW t \in Takers, TryAcquireDecide(t) PROVE SemTypeOK'
  BY <1>5 DEF TryAcquireDecide
<1>6. ASSUME NEW t \in Takers, ReleaseDecide(t) PROVE SemTypeOK'
  BY <1>6 DEF ReleaseDecide
<1>7. ASSUME NEW t \in Takers, SemFutexWait(t) \/ SemInterrupt(t) PROVE SemTypeOK'
  BY <1>7 DEF SemFutexWait, SemInterrupt
<1>8. ASSUME NEW t \in Takers, SemFutexWake(t) PROVE SemTypeOK'
  BY <1>8 DEF SemFutexWake, Wakeable
<1> QED
  BY <1>1, <1>2, <1>3, <1>4, <1>5, <1>6, <1>7, <1>8 DEF SemNext, SemStep

\* No instruction creates or destroys a permit, and no release passes max.
LEMMA ConservedStep == SemTypeOK /\ PermitsConserved /\ [SemNext]_sem_vars => PermitsConserved'
<1> SUFFICES ASSUME SemTypeOK, PermitsConserved, [SemNext]_sem_vars PROVE PermitsConserved'
  OBVIOUS
<1>0. SemTypeOK'
  BY SemTypeStep
<1> USE SemaphoreAssumption DEF SemTypeOK, PermitsConserved
<1>1. CASE UNCHANGED <<permits, taken, given>>
  BY <1>1
<1>2. ASSUME NEW t \in Takers, AcquireDecide(t) \/ TryAcquireDecide(t) PROVE PermitsConserved'
  BY <1>0, <1>2 DEF AcquireDecide, TryAcquireDecide
<1>3. ASSUME NEW t \in Takers, ReleaseDecide(t) PROVE PermitsConserved'
  BY <1>0, <1>3 DEF ReleaseDecide
<1>4. ASSUME NEW t \in Takers,
             AcquireLoad(t) \/ TryAcquireLoad(t) \/ ReleaseLoad(t) \/ SemFutexWait(t)
               \/ SemInterrupt(t) \/ SemFutexWake(t)
      PROVE  UNCHANGED <<permits, taken, given>>
  BY <1>4 DEF AcquireLoad, TryAcquireLoad, ReleaseLoad, SemFutexWait, SemInterrupt, SemFutexWake
<1> QED
  BY <1>1, <1>2, <1>3, <1>4 DEF SemNext, SemStep, sem_vars, sem_locals

-----------------------------------------------------------------------------
(* Counting.                                                               *)

\* A set that gains disjoint elements counts them.
LEMMA CountUnion ==
  ASSUME NEW S, NEW T, IsFiniteSet(S), IsFiniteSet(T), S \cap T = {}
  PROVE  Cardinality(S \cup T) = Cardinality(S) + Cardinality(T)
<1>1. Cardinality(S \cup T) = Cardinality(S) + Cardinality(T) - Cardinality(S \cap T)
  BY FS_Union
<1>2. Cardinality(S \cap T) = 0
  BY FS_EmptySet
<1>3. Cardinality(S) \in Nat /\ Cardinality(T) \in Nat
  BY FS_CardinalityType
<1> QED BY <1>1, <1>2, <1>3

\* The wakes of one release number as many as its permits.
LEMMA CountWakes ==
  ASSUME NEW t, NEW k \in Nat
  PROVE  IsFiniteSet({t} \X (1..k)) /\ Cardinality({t} \X (1..k)) = k
<1>1. IsFiniteSet(1..k) /\ Cardinality(1..k) = k
  BY FS_Interval
<1>2. IsFiniteSet({t}) /\ Cardinality({t}) = 1
  BY FS_Singleton
<1>3. /\ IsFiniteSet({t} \X (1..k))
      /\ Cardinality({t} \X (1..k)) = Cardinality({t}) * Cardinality(1..k)
  BY <1>1, <1>2, FS_Product
<1> QED BY <1>1, <1>2, <1>3

\* The threads, and the wakes that they may owe, are finitely many.
LEMMA FiniteMany ==
  /\ \A S \in SUBSET Takers : IsFiniteSet(S) /\ Cardinality(S) \in Nat
  /\ \A S \in SUBSET (Takers \X (1..MaxPermits)) : IsFiniteSet(S) /\ Cardinality(S) \in Nat
<1>1. IsFiniteSet(Takers)
  BY SemaphoreAssumption
<1>2. IsFiniteSet(1..MaxPermits)
  BY SemaphoreAssumption, FS_Interval
<1>3. IsFiniteSet(Takers \X (1..MaxPermits))
  BY <1>1, <1>2, FS_Product, Zenon
<1>4. ASSUME NEW U, IsFiniteSet(U), NEW S \in SUBSET U
      PROVE  IsFiniteSet(S) /\ Cardinality(S) \in Nat
  BY <1>4, FS_Subset, FS_CardinalityType
<1> QED BY <1>1, <1>3, <1>4

\* More acquirers awake and more wakes owed keep the permits covered.
LEMMA Monotone ==
  ASSUME SemTypeOK, PermitsNotStranded, permits' = permits, Sleepers' \subseteq Sleepers,
         Awake \subseteq Awake', Owed \subseteq Owed',
         Awake' \subseteq Takers, Owed' \subseteq Takers \X (1..MaxPermits)
  PROVE  PermitsNotStranded'
<1> SUFFICES ASSUME Sleepers # {}
             PROVE  permits <= Cardinality(Awake') + Cardinality(Owed')
  BY DEF PermitsNotStranded
<1>1. Cardinality(Awake) <= Cardinality(Awake') /\ Cardinality(Owed) <= Cardinality(Owed')
  BY FiniteMany, FS_Subset
<1>2. /\ Cardinality(Awake) \in Nat /\ Cardinality(Awake') \in Nat
      /\ Cardinality(Owed) \in Nat /\ Cardinality(Owed') \in Nat
  BY FiniteMany
<1>3. permits <= Cardinality(Awake) + Cardinality(Owed)
  BY DEF PermitsNotStranded
<1>4. permits \in Nat
  BY SemaphoreAssumption DEF SemTypeOK
<1> QED BY <1>1, <1>2, <1>3, <1>4

\* An acquirer leaves with a permit: one less of both.
LEMMA AcquireCovers ==
  ASSUME SemTypeOK, PermitsNotStranded, NEW t \in Takers, sem_pc[t] = "acquire",
         permits' = permits - 1, SemGoto(t, "idle"), amount' = amount
  PROVE  PermitsNotStranded'
<1> SUFFICES ASSUME Sleepers' # {}
             PROVE  permits' <= Cardinality(Awake') + Cardinality(Owed')
  BY DEF PermitsNotStranded
<1>1. Sleepers' = Sleepers /\ Awake' = Awake \ {t} /\ t \in Awake /\ Owed' = Owed
  BY DEF SemTypeOK, SemGoto, Sleepers, Awake, Owed
<1>2. Cardinality(Awake \ {t}) = Cardinality(Awake) - 1
  BY <1>1, FiniteMany, FS_RemoveElement, Zenon DEF Awake
<1>3. permits <= Cardinality(Awake) + Cardinality(Owed)
  BY <1>1 DEF PermitsNotStranded
<1>4. permits \in Nat /\ Cardinality(Awake) \in Nat /\ Cardinality(Owed) \in Nat
  BY FiniteMany, SemaphoreAssumption DEF SemTypeOK, Awake, Owed
<1> QED BY <1>1, <1>2, <1>3, <1>4

\* A release owes a wake for each permit it adds.
LEMMA ReleaseCovers ==
  ASSUME SemTypeOK, PermitsNotStranded, NEW t \in Takers, sem_pc[t] = "release", amount[t] <= MaxPermits,
         permits' = permits + amount[t], SemGoto(t, "wake"), amount' = amount
  PROVE  PermitsNotStranded'
<1> SUFFICES ASSUME Sleepers' # {}
             PROVE  permits' <= Cardinality(Awake') + Cardinality(Owed')
  BY DEF PermitsNotStranded
<1> DEFINE W == {t} \X (1..amount[t])
<1>0. amount[t] \in Nat
  BY DEF SemTypeOK
<1>1. Sleepers' = Sleepers /\ Awake' = Awake
  BY DEF SemTypeOK, SemGoto, Sleepers, Awake
<1>2. Owed' = Owed \cup W /\ Owed \cap W = {}
  BY <1>0, SemaphoreAssumption DEF SemTypeOK, SemGoto, Owed
<1>3. IsFiniteSet(W) /\ Cardinality(W) = amount[t]
  BY <1>0, CountWakes, Zenon
<1>4. IsFiniteSet(Owed)
  BY FiniteMany DEF Owed
<1>5. Cardinality(Owed') = Cardinality(Owed) + amount[t]
  BY <1>2, <1>3, <1>4, CountUnion
<1>6. permits <= Cardinality(Awake) + Cardinality(Owed)
  BY <1>1 DEF PermitsNotStranded
<1>7. permits \in Nat /\ Cardinality(Awake) \in Nat /\ Cardinality(Owed) \in Nat
  BY FiniteMany, SemaphoreAssumption DEF SemTypeOK, Awake, Owed
<1> QED BY <1>0, <1>1, <1>5, <1>6, <1>7

\* futex_wake turns the wakes owed into acquirers awake, or leaves no sleeper.
LEMMA WakeCovers ==
  ASSUME SemTypeOK, PermitsNotStranded, NEW t \in Takers, SemFutexWake(t)
  PROVE  PermitsNotStranded'
<1> SUFFICES ASSUME Sleepers' # {}
             PROVE  permits' <= Cardinality(Awake') + Cardinality(Owed')
  BY DEF PermitsNotStranded
<1> DEFINE W == {t} \X (1..amount[t])
<1>0. sem_pc[t] = "wake" /\ amount[t] \in Nat /\ amount[t] <= MaxPermits /\ amount' = amount /\ permits' = permits
  BY DEF SemFutexWake, SemTypeOK
<1>1. PICK S \in Wakeable(amount[t]) :
        sem_pc' = [s \in Takers |-> IF s = t THEN "idle" ELSE IF s \in S THEN "reload" ELSE sem_pc[s]]
  BY DEF SemFutexWake
<1>2. S \subseteq Sleepers
  BY DEF Wakeable
<1>3. Sleepers' = Sleepers \ S
  BY <1>0, <1>1, <1>2 DEF SemTypeOK, Sleepers
<1>4. Cardinality(S) = amount[t]
  BY <1>3 DEF Wakeable
<1>5. Awake' = Awake \cup S /\ Awake \cap S = {}
  BY <1>0, <1>1, <1>2 DEF SemTypeOK, Sleepers, Awake
<1>6. Owed = Owed' \cup W /\ Owed' \cap W = {}
  <2>1. \A s \in Takers : sem_pc'[s] = "wake" <=> sem_pc[s] = "wake" /\ s # t
    BY <1>1, <1>2 DEF Sleepers
  <2>2. W \subseteq Owed
    BY <1>0, SemaphoreAssumption DEF Owed
  <2>3. Owed' = {w \in Owed : w[1] # t}
    BY <1>0, <2>1 DEF Owed
  <2>4. \A w \in Owed : w[1] = t => w \in W
    BY <1>0, SemaphoreAssumption DEF Owed
  <2> QED BY <2>2, <2>3, <2>4
<1>7. IsFiniteSet(W) /\ Cardinality(W) = amount[t]
  BY <1>0, CountWakes, Zenon
<1>8. /\ IsFiniteSet(Awake) /\ IsFiniteSet(S) /\ IsFiniteSet(Owed')
      /\ Cardinality(Awake) \in Nat /\ Cardinality(Owed') \in Nat
  BY <1>2, FiniteMany DEF Awake, Owed, Sleepers
<1>9. Cardinality(Awake') = Cardinality(Awake) + amount[t]
  BY <1>4, <1>5, <1>8, CountUnion
<1>10. Cardinality(Owed) = Cardinality(Owed') + amount[t]
  BY <1>6, <1>7, <1>8, CountUnion
<1>11. permits <= Cardinality(Awake) + Cardinality(Owed)
  BY <1>3 DEF PermitsNotStranded
<1>12. permits \in Nat
  BY SemaphoreAssumption DEF SemTypeOK
<1> QED BY <1>0, <1>8, <1>9, <1>10, <1>11, <1>12

\* No instruction or futex call leaves a permit beside a sleeper that nobody
\* will wake.
LEMMA SemWakeupStep == SemTypeOK /\ PermitsNotStranded /\ [SemNext]_sem_vars => PermitsNotStranded'
<1> SUFFICES ASSUME SemTypeOK, PermitsNotStranded, [SemNext]_sem_vars PROVE PermitsNotStranded'
  OBVIOUS
<1>0. SemTypeOK'
  BY SemTypeStep
<1> DEFINE Kept == /\ Sleepers' \subseteq Sleepers
                   /\ Awake \subseteq Awake' /\ Owed \subseteq Owed'
                   /\ Awake' \subseteq Takers /\ Owed' \subseteq Takers \X (1..MaxPermits)
<1>m. ASSUME Kept, permits' = permits PROVE PermitsNotStranded'
  BY <1>m, Monotone
<1>a. Awake' \subseteq Takers /\ Owed' \subseteq Takers \X (1..MaxPermits)
  BY DEF Awake, Owed
<1>1. CASE UNCHANGED sem_vars
  <2>1. Kept /\ permits' = permits
    BY <1>1, <1>a DEF sem_vars, sem_locals, Sleepers, Awake, Owed
  <2> QED BY <2>1, <1>m
<1>2. ASSUME NEW t \in Takers, AcquireLoad(t) \/ TryAcquireLoad(t) \/ ReleaseLoad(t)
      PROVE  PermitsNotStranded'
  <2>1. permits' = permits
    BY <1>2 DEF AcquireLoad, TryAcquireLoad, ReleaseLoad
  <2>2. sem_pc[t] \in {"idle", "reload"} /\ sem_pc' = [sem_pc EXCEPT ![t] = sem_pc'[t]]
    BY <1>2 DEF AcquireLoad, TryAcquireLoad, ReleaseLoad, SemCall, SemGoto, SemTypeOK
  <2>3. sem_pc'[t] \notin {"asleep", "wake"} /\ (sem_pc[t] = "reload" => sem_pc'[t] = "acquire")
    BY <1>2 DEF AcquireLoad, TryAcquireLoad, ReleaseLoad, SemCall, SemGoto, SemTypeOK
  <2>4. \A s \in Takers \ {t} : amount'[s] = amount[s] /\ sem_pc'[s] = sem_pc[s]
    BY <1>2, <2>2 DEF AcquireLoad, TryAcquireLoad, ReleaseLoad, SemTypeOK
  <2>5. Sleepers' \subseteq Sleepers /\ Awake \subseteq Awake'
    BY <2>2, <2>3, <2>4 DEF Sleepers, Awake
  <2>6. Owed \subseteq Owed'
    BY <2>2, <2>4 DEF Owed
  <2> QED BY <2>1, <2>5, <2>6, <1>a, <1>m
<1>3. ASSUME NEW t \in Takers, AcquireDecide(t) PROVE PermitsNotStranded'
  <2>1. CASE permits' = permits
    <3>1. sem_pc[t] = "acquire" /\ sem_pc' = [sem_pc EXCEPT ![t] = sem_pc'[t]] /\ amount' = amount
      BY <1>3 DEF AcquireDecide, SemGoto, SemTypeOK
    <3>2. sem_pc'[t] \in {"wait", "reload"}
      BY <1>3, <2>1 DEF AcquireDecide, SemGoto, SemTypeOK
    <3>3. Kept
      BY <3>1, <3>2, <1>a DEF Sleepers, Awake, Owed, SemTypeOK
    <3> QED BY <3>3, <2>1, <1>m
  <2>2. CASE permits' # permits
    <3>1. sem_pc[t] = "acquire" /\ permits' = permits - 1 /\ SemGoto(t, "idle") /\ amount' = amount
      BY <1>3, <2>2 DEF AcquireDecide
    <3> QED BY <3>1, AcquireCovers
  <2> QED BY <2>1, <2>2
<1>4. ASSUME NEW t \in Takers, TryAcquireDecide(t) PROVE PermitsNotStranded'
  <2>1. sem_pc[t] = "try" /\ sem_pc' = [sem_pc EXCEPT ![t] = sem_pc'[t]] /\ sem_pc'[t] \in {"try", "idle"} /\ amount' = amount
    BY <1>4 DEF TryAcquireDecide, SemGoto, SemTypeOK
  <2>2. Sleepers' = Sleepers /\ Awake' = Awake /\ Owed' = Owed
    BY <2>1 DEF Sleepers, Awake, Owed, SemTypeOK
  <2>3. permits' \in Nat /\ permits \in Nat /\ permits' <= permits
    BY <1>4, <1>0, SemaphoreAssumption DEF TryAcquireDecide, SemTypeOK
  <2>4. Cardinality(Awake) \in Nat /\ Cardinality(Owed) \in Nat
    BY FiniteMany DEF Awake, Owed
  <2> QED BY <2>2, <2>3, <2>4 DEF PermitsNotStranded
<1>5. ASSUME NEW t \in Takers, ReleaseDecide(t) PROVE PermitsNotStranded'
  <2>1. CASE sem_pc'[t] = "wake"
    <3>1. sem_pc[t] = "release" /\ permits' = permits + amount[t] /\ SemGoto(t, "wake") /\ amount' = amount
      BY <1>5, <2>1 DEF ReleaseDecide, SemGoto, SemTypeOK
    <3>2. amount[t] <= MaxPermits
      BY <1>0, <2>1, <3>1 DEF SemTypeOK
    <3> QED BY <3>1, <3>2, ReleaseCovers
  <2>2. CASE sem_pc'[t] # "wake"
    <3>1. /\ sem_pc[t] = "release" /\ sem_pc' = [sem_pc EXCEPT ![t] = sem_pc'[t]] /\ amount' = amount
          /\ sem_pc'[t] \in {"release", "idle"} /\ permits' = permits
      BY <1>5, <2>2 DEF ReleaseDecide, SemGoto, SemTypeOK
    <3>2. Kept
      BY <3>1, <1>a DEF Sleepers, Awake, Owed, SemTypeOK
    <3> QED BY <3>1, <3>2, <1>m
  <2> QED BY <2>1, <2>2
<1>6. ASSUME NEW t \in Takers, SemInterrupt(t) PROVE PermitsNotStranded'
  <2>1. Kept /\ permits' = permits
    BY <1>6, <1>a DEF SemInterrupt, SemGoto, Sleepers, Awake, Owed, SemTypeOK
  <2> QED BY <2>1, <1>m
<1>7. ASSUME NEW t \in Takers, SemFutexWait(t) PROVE PermitsNotStranded'
  <2>1. CASE permits = 0
    <3>1. permits' = 0
      BY <1>7, <2>1 DEF SemFutexWait
    <3>2. Cardinality(Awake') \in Nat /\ Cardinality(Owed') \in Nat
      BY <1>a, FiniteMany
    <3> QED BY <3>1, <3>2 DEF PermitsNotStranded
  <2>2. CASE permits # 0
    <3>1. Kept /\ permits' = permits
      BY <1>7, <2>2, <1>a DEF SemFutexWait, SemGoto, Sleepers, Awake, Owed, SemTypeOK
    <3> QED BY <3>1, <1>m
  <2> QED BY <2>1, <2>2
<1>8. ASSUME NEW t \in Takers, SemFutexWake(t) PROVE PermitsNotStranded'
  BY <1>8, WakeCovers
<1> QED
  BY <1>1, <1>2, <1>3, <1>4, <1>5, <1>6, <1>7, <1>8 DEF SemNext, SemStep

-----------------------------------------------------------------------------
\* The invariant holds in every reachable state of the semaphore.
THEOREM SemInvariance == SemSpec => []SemIInv
<1>1. SemIInv /\ [SemNext]_sem_vars => SemIInv'
  BY SemTypeStep, ConservedStep, SemWakeupStep DEF SemIInv
<1> QED BY SemInitIInv, <1>1, PTL DEF SemSpec

\* acquire, try_acquire and release neither create nor destroy permits, and
\* racing releases never exceed max.
THEOREM Conservation == SemSpec => []PermitsConserved
  BY SemInvariance, PTL DEF SemIInv

\* Whatever releases and acquisitions race, no free permit is left beside a
\* thread asleep in acquire for whom nobody is coming.
THEOREM NoPermitStranded == SemSpec => []PermitsNotStranded
  BY SemInvariance, PTL DEF SemIInv
=============================================================================
