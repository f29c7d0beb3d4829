------------------------ MODULE HostedExecutorProofs ------------------------
(***************************************************************************)
(* The executor with its scheduler and its reactor together: each keeps    *)
(* its own invariant, whatever the other does.                             *)
(***************************************************************************)
EXTENDS HostedExecutor, HostedSchedulerProofs, DriverNotifyProofs, WellFoundedInduction

\* Every leaf is tried with the SMT solver, then with Zenon, then with Z3 for longer.
USE SMTT(20), ZenonT(20), Z3T(40)

\* A non-empty set of numbers has its minimum.
LEMMA LeastNumber == Least
<1>. SUFFICES ASSUME NEW S \in SUBSET Nat, S # {} PROVE Min(S) \in S /\ \A y \in S : Min(S) <= y
  BY DEF Least
<1>. DEFINE R == OpToRel(<, Nat)
<1>1. IsWellFoundedOn(R, Nat)
  BY NatLessThanWellFounded, Zenon
<1>2. \A x, y \in Nat : <<y, x>> \in R <=> y < x
  BY DEF OpToRel
<1>. HIDE DEF R
<1>3. PICK x \in S : \A y \in S : ~(<<y, x>> \in R)
  BY <1>1, WFMin, Zenon
<1>4. ASSUME NEW y \in S PROVE x <= y
  <2>1. x \in Nat /\ y \in Nat
    OBVIOUS
  <2>2. ~(y < x)
    BY <1>2, <1>3, <2>1, Zenon
  <2>. QED
    BY <2>1, <2>2
<1>. QED
  BY <1>4, Zenon DEF Min

\* A step of the executor is a step of the scheduler's and leaves the reactor
\* alone, or the other way round.
LEMMA ExecutorStep ==
  [ExecNext]_<<vars, reactor_vars>> => [Next]_vars /\ [RNext]_reactor_vars
  BY Zenon DEF ExecNext, SchedulerNext, ReactorNext

\* The hosted executor, reactor and all, runs its scheduler as specified.
LEMMA ExecutorSchedules == ExecSpec => Spec
<1>1. ExecInit => Init
  BY DEF ExecInit
<1>. QED
  BY <1>1, ExecutorStep, PTL DEF ExecSpec, Spec

\* external_inflight counts what begin_external_schedule let through and has
\* not finished, short by one for each dispatch that gave its count back while
\* its job was queued; without an overflowing signal no
\* finish_external_schedule underflows it.
THEOREM InflightIsExact == ExecSpec => []InflightExact
  BY ExecutorSchedules, SchedulerInvariance, PTL DEF SchedulerInv

\* No job is left in a ready queue with its worker asleep and nobody to wake it.
THEOREM EveryJobIsSignalled == ExecSpec => []SignalsCover
  BY ExecutorSchedules, SchedulerInvariance, PTL DEF SchedulerInv

\* Unless a signal has overflowed, ExecutorCore::shutdown tears the slots down
\* only after every job has run or has been dropped, and none comes later.
THEOREM TeardownIsDrained == ExecSpec => []DrainedAtTeardown
  BY ExecutorSchedules, SchedulerInvariance, PTL DEF SchedulerInv

\* What wait_external_idle has seen stays so.
LEMMA DrainedStays ==
  ASSUME [Next]_vars, drained PROVE drained'
<1>1. CASE \E d \in Dispatchers : DispatchStep(d)
  BY <1>1, Zenon DEF DispatchStep, Begin, Count, Recheck, Undo, Enqueue, Push, Signal, closing, drained
<1>2. CASE \E w \in Workers : WorkerStep(w)
  BY <1>2, Zenon DEF WorkerStep, Acquire, Dequeue, Check, Run, Finish, closing, drained
<1>3. CASE RequestShutdown \/ ShutdownStep
  BY <1>3 DEF RequestShutdown, ShutdownStep, StopScheduler, Clear, Wake, DropScheduled, WaitIdle, drained
<1>4. CASE UNCHANGED vars
  BY <1>4 DEF vars, closing, drained
<1>. QED
  BY <1>1, <1>2, <1>3, <1>4 DEF Next

\* The types of the reactor and what ties a task to its wait hold throughout.
LEMMA ExecutorWaits == ExecSpec => []WaitInv
<1>1. ExecInit => WaitInv
  BY InitWait DEF ExecInit
<1>2. WaitInv /\ [ExecNext]_<<vars, reactor_vars>> => WaitInv'
  BY ExecutorStep, LeastNumber, WaitStep
<1>. QED
  BY <1>1, <1>2, PTL DEF ExecSpec

\* A task nobody polls or has marked keeps its wait or has a driver that answers
\* it, however many tasks, waits and sources there are and whatever the
\* scheduler does meanwhile.
THEOREM WaitsAreKept == ExecSpec => []WaitKept
  BY ExecutorWaits, WaitFollows, PTL

\* No key of the poller is lost but where the code is known to lose it, and every
\* registered wait has its key, for any number of tasks, waits and sources.
THEOREM KeysAreNamed == ExecSpec => []KeysNamed
<1>1. ExecInit => KeysInv
  BY InitKeys DEF ExecInit
<1>2. KeysInv /\ [ExecNext]_<<vars, reactor_vars>> => KeysInv'
  BY ExecutorStep, LeastNumber, KeysStep
<1>. QED
  BY <1>1, <1>2, KeysFollow, PTL DEF ExecSpec

\* The driver never sleeps in the poller past something it has to do, with no
\* byte in the wake pipe and nobody about to write one: a wait to register, a
\* deadline before its timeout, a key to deregister, or its own end.  Shutdown
\* queues keys without a signal only after the scheduler has drained, which is
\* where the two halves of the executor meet.
THEOREM DriverIsNotified == ExecSpec => []DriverNotified
<1>1. ExecInit => NotifyInv
  BY InitNotify DEF ExecInit
<1>2. SchedulerInv /\ WaitInv /\ NotifyInv /\ [ExecNext]_<<vars, reactor_vars>> => NotifyInv'
  <2>. SUFFICES ASSUME SchedulerInv, WaitInv, NotifyInv, [ExecNext]_<<vars, reactor_vars>>
                PROVE  NotifyInv'
    OBVIOUS
  <2>1. (drained => shutdown_requested) /\ (drained => drained')
    BY ExecutorStep, DrainedStays DEF SchedulerInv, FlagSet, drained
  <2>. QED
    BY <2>1, ExecutorStep, LeastNumber, NotifyStep DEF WaitInv
<1>. QED
  BY <1>1, <1>2, ExecutorSchedules, SchedulerInvariance, ExecutorWaits, NotifyFollows, PTL DEF ExecSpec
=============================================================================
