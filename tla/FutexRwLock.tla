---------------------------- MODULE FutexRwLock ----------------------------
(***************************************************************************)
(* LinuxRawRwLock of fusion-pal.  Reader and writer counts change under an *)
(* internal gate mutex (see FutexMutex), so one gated section is one       *)
(* action; waiting happens outside the gate on the futex word `epoch`.     *)
(* Each thread starts at most RwRounds acquisitions, which also bounds     *)
(* `epoch` far below the wrap of its 32 bits.                              *)
(***************************************************************************)
EXTENDS Naturals, FiniteSets

CONSTANTS Lockers,   \* the threads that share the lock
          RwRounds   \* bound on the acquisitions each thread starts

ASSUME LockersAssumption == IsFiniteSet(Lockers)
ASSUME RwRoundsAssumption == RwRounds \in Nat

VARIABLES epoch,            \* the futex word every waiter sleeps on
          readers,          \* count of shared holds
          waiting_writers,  \* count of live WaitingWriterGuards
          writer_active,    \* 0 or 1
          rw_pc,            \* where each thread is
          observed,         \* the local `observed` of read_lock / write_lock
          rw_left           \* acquisitions a thread may still start

counts == <<readers, waiting_writers, writer_active>>
rw_vars == <<epoch, counts, rw_pc, observed, rw_left>>

RwInit == /\ epoch = 0 /\ readers = 0 /\ waiting_writers = 0 /\ writer_active = 0
          /\ rw_pc = [t \in Lockers |-> "idle"]
          /\ observed = [t \in Lockers |-> 0]
          /\ rw_left = [t \in Lockers |-> RwRounds]

RwGoto(t, l) == rw_pc' = [rw_pc EXCEPT ![t] = l]

At(ls) == {t \in Lockers : rw_pc[t] \in ls}

\* Mutant: readers look at the waiting writers only.
ReadAdmitted_IgnoresWriter == waiting_writers = 0

ReadAdmitted == writer_active = 0 /\ waiting_writers = 0
WriteAdmitted == writer_active = 0 /\ readers = 0

\* A caller enters read_lock or write_lock.
RwCall(t) ==
  /\ rw_pc[t] = "idle" /\ rw_left[t] > 0
  /\ rw_left' = [rw_left EXCEPT ![t] = @ - 1]
  /\ \E l \in {"rtry", "wtry"} : RwGoto(t, l)
  /\ UNCHANGED <<epoch, counts, observed>>

\* The gated section of read_lock: admitted, or note the epoch and wait.
ReadTry(t) ==
  /\ rw_pc[t] = "rtry"
  /\ \/ /\ ReadAdmitted
        /\ readers' = readers + 1
        /\ RwGoto(t, "rheld")
        /\ UNCHANGED observed
     \/ /\ ~ReadAdmitted
        /\ observed' = [observed EXCEPT ![t] = epoch]
        /\ RwGoto(t, "rwait")
        /\ UNCHANGED readers
  /\ UNCHANGED <<epoch, waiting_writers, writer_active, rw_left>>

\* The gated section of write_lock: admitted, or join the waiting writers.
WriteTry(t) ==
  /\ rw_pc[t] \in {"wtry", "wagain"}
  /\ \/ /\ WriteAdmitted
        /\ writer_active' = 1
        /\ RwGoto(t, "wheld")
        /\ UNCHANGED <<waiting_writers, observed>>
     \/ /\ ~WriteAdmitted
        /\ waiting_writers' = waiting_writers + 1
        /\ observed' = [observed EXCEPT ![t] = epoch]
        /\ RwGoto(t, "wwait")
        /\ UNCHANGED writer_active
  /\ UNCHANGED <<epoch, readers, rw_left>>

\* try_read_lock and try_write_lock: one gated section, no waiting; a refusal
\* changes nothing.
TryRead(t) ==
  /\ rw_pc[t] = "idle" /\ rw_left[t] > 0
  /\ rw_left' = [rw_left EXCEPT ![t] = @ - 1]
  /\ ReadAdmitted /\ readers' = readers + 1 /\ RwGoto(t, "rheld")
  /\ UNCHANGED <<epoch, waiting_writers, writer_active, observed>>

TryWrite(t) ==
  /\ rw_pc[t] = "idle" /\ rw_left[t] > 0
  /\ rw_left' = [rw_left EXCEPT ![t] = @ - 1]
  /\ WriteAdmitted /\ writer_active' = 1 /\ RwGoto(t, "wheld")
  /\ UNCHANGED <<epoch, readers, waiting_writers, observed>>

\* The label a thread resumes at when its futex wait ends.
AfterWait(l) == IF l \in {"rwait", "rsleep"} THEN "rtry" ELSE "wback"

\* futex_wait_private(epoch, observed): sleep only if the word is unchanged.
RwFutexWait(t) ==
  /\ rw_pc[t] \in {"rwait", "wwait"}
  /\ RwGoto(t, IF epoch # observed[t] THEN AfterWait(rw_pc[t])
             ELSE IF rw_pc[t] = "rwait" THEN "rsleep" ELSE "wsleep")
  /\ UNCHANGED <<epoch, counts, observed, rw_left>>

\* A signal ends the wait with Interrupted.
RwInterrupt(t) ==
  /\ rw_pc[t] \in {"rsleep", "wsleep"}
  /\ RwGoto(t, AfterWait(rw_pc[t]))
  /\ UNCHANGED <<epoch, counts, observed, rw_left>>

\* Drop of WaitingWriterGuard: a gated section of its own, before the retry.
DropGuard(t) ==
  /\ rw_pc[t] = "wback"
  /\ waiting_writers' = waiting_writers - 1
  /\ RwGoto(t, "wagain")
  /\ UNCHANGED <<epoch, readers, writer_active, observed, rw_left>>

\* read_unlock_unchecked: the last reader wakes if a writer is registered.
ReadUnlock(t) ==
  /\ rw_pc[t] = "rheld"
  /\ readers' = readers - 1
  /\ RwGoto(t, IF readers' = 0 /\ waiting_writers # 0 THEN "bump" ELSE "idle")
  /\ UNCHANGED <<epoch, waiting_writers, writer_active, observed, rw_left>>

\* write_unlock_unchecked: always wakes.
WriteUnlock(t) ==
  /\ rw_pc[t] = "wheld"
  /\ writer_active' = 0
  /\ RwGoto(t, "bump")
  /\ UNCHANGED <<epoch, readers, waiting_writers, observed, rw_left>>

\* Mutant: wakes without changing the word the waiters compare.
BumpEpoch_NoChange(t) ==
  /\ rw_pc[t] = "bump"
  /\ RwGoto(t, "wake")
  /\ UNCHANGED <<epoch, counts, observed, rw_left>>

\* wake_waiters: the fetch_add, then the futex_wake of every sleeper.
BumpEpoch(t) ==
  /\ rw_pc[t] = "bump"
  /\ epoch' = epoch + 1
  /\ RwGoto(t, "wake")
  /\ UNCHANGED <<counts, observed, rw_left>>

RwWakeAll(t) ==
  /\ rw_pc[t] = "wake"
  /\ rw_pc' = [s \in Lockers |-> IF s = t THEN "idle"
                              ELSE IF rw_pc[s] \in {"rsleep", "wsleep"}
                                   THEN AfterWait(rw_pc[s]) ELSE rw_pc[s]]
  /\ UNCHANGED <<epoch, counts, observed, rw_left>>

\* What a thread does when it is scheduled and not asleep.
RwStep(t) == \/ RwCall(t) \/ ReadTry(t) \/ WriteTry(t) \/ RwFutexWait(t)
             \/ DropGuard(t) \/ ReadUnlock(t) \/ WriteUnlock(t)
             \/ BumpEpoch(t) \/ RwWakeAll(t)

RwNext == \E t \in Lockers : RwStep(t) \/ TryRead(t) \/ TryWrite(t) \/ RwInterrupt(t)

\* Runnable threads are scheduled; nobody is owed a signal.
RwFairness == \A t \in Lockers : WF_rw_vars(RwStep(t))

RwSpec == RwInit /\ [][RwNext]_rw_vars /\ RwFairness
-----------------------------------------------------------------------------
RwLabels == {"idle", "rtry", "rwait", "rsleep", "rheld", "wtry", "wagain", "wwait",
           "wsleep", "wback", "wheld", "bump", "wake"}

\* Type correctness of the counts, the epoch and the program counters.
RwTypeOK == /\ epoch \in Nat /\ readers \in Nat /\ waiting_writers \in Nat
            /\ writer_active \in {0, 1}
            /\ rw_pc \in [Lockers -> RwLabels]
            /\ observed \in [Lockers -> Nat]
            /\ rw_left \in [Lockers -> Nat]

\* The three counters count what they claim: shared holds, writers between
\* WaitingWriterGuard::new and its drop, and the exclusive hold.
CountsExact == /\ readers = Cardinality(At({"rheld"}))
               /\ waiting_writers = Cardinality(At({"wwait", "wsleep", "wback"}))
               /\ writer_active = Cardinality(At({"wheld"}))

\* A writer holds alone: read_lock / write_lock never grant overlapping holds.
WriterExclusive ==
  \A t, u \in Lockers : rw_pc[t] = "wheld" /\ rw_pc[u] \in {"rheld", "wheld"} => t = u

Waking == \E t \in Lockers : rw_pc[t] \in {"bump", "wake"}

\* Whoever sleeps on the epoch has somebody left to wake it.  For a writer in
\* write_lock: a holder, whose release will see it registered, or a release
\* already committed to waking.  For a reader in read_lock: a writer still
\* inside write_lock (its unlock wakes all), or such a release.  read_unlock
\* may skip the wake while a reader sleeps; this is why it is safe.
NobodyForgotten ==
  /\ At({"wsleep"}) # {} => At({"rheld", "wheld"}) # {} \/ Waking
  /\ At({"rsleep"}) # {} =>
       At({"wtry", "wagain", "wwait", "wsleep", "wback", "wheld"}) # {} \/ Waking

\* Every read_lock and write_lock call returns and is released.
EveryRwLockReturns == <>[](\A t \in Lockers : rw_pc[t] = "idle")

\* "Waiting writers block new readers and are favored over reader barging":
\* no shared hold is granted while a write_lock call that has had to wait is
\* still waiting for the lock.
WriterPreferred ==
  [][\A r \in Lockers : rw_pc[r] # "rheld" /\ rw_pc'[r] = "rheld" =>
        At({"wagain", "wwait", "wsleep", "wback"}) = {}]_rw_vars

RwExcl == INSTANCE Exclusion WITH Threads <- Lockers, readers <- At({"rheld"}), writers <- At({"wheld"})

\* The gated counters implement the abstract shared/exclusive lock.
ImplementsSharing == RwExcl!Spec
=============================================================================
