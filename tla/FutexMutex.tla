----------------------------- MODULE FutexMutex -----------------------------
(***************************************************************************)
(* LinuxRawMutex of fusion-pal: the three-valued futex word behind every   *)
(* ThinMutex and Mutex of a hosted Linux build.  Each thread performs at   *)
(* most Rounds acquisitions; one action is one atomic instruction or one   *)
(* futex system call.  A spurious failure of compare_exchange_weak leaves  *)
(* the caller where it was, so it is a stuttering step.                    *)
(***************************************************************************)
EXTENDS Naturals

CONSTANTS Threads,   \* the threads that share the mutex
          Rounds     \* bound on the acquisitions each thread starts

ASSUME RoundsAssumption == Rounds \in Nat

VARIABLES state,     \* the futex word
          pc,        \* where each thread is in lock / unlock
          seen,      \* the local `state` of lock_contended
          left       \* acquisitions a thread may still start

vars == <<state, pc, seen, left>>

UNLOCKED == 0
LOCKED == 1
CONTENDED == 2
Words == {UNLOCKED, LOCKED, CONTENDED}

Init == /\ state = UNLOCKED
        /\ pc = [t \in Threads |-> "idle"]
        /\ seen = [t \in Threads |-> UNLOCKED]
        /\ left = [t \in Threads |-> Rounds]

Goto(t, l) == pc' = [pc EXCEPT ![t] = l]

\* lock: the uncontended compare_exchange, or the branch to lock_contended.
Lock(t) ==
  /\ pc[t] = "idle" /\ left[t] > 0
  /\ left' = [left EXCEPT ![t] = @ - 1]
  /\ \/ state = UNLOCKED /\ state' = LOCKED /\ Goto(t, "held")
     \/ state # UNLOCKED /\ Goto(t, "load") /\ UNCHANGED state
  /\ UNCHANGED seen

\* try_lock: never enters the slow path.
TryLock(t) ==
  /\ pc[t] = "idle" /\ left[t] > 0
  /\ left' = [left EXCEPT ![t] = @ - 1]
  /\ \/ state = UNLOCKED /\ state' = LOCKED /\ Goto(t, "held")
     \/ state # UNLOCKED /\ UNCHANGED <<state, pc>>
  /\ UNCHANGED seen

\* The relaxed load at the head of lock_contended and after a wait.
Load(t) ==
  /\ pc[t] = "load"
  /\ seen' = [seen EXCEPT ![t] = state]
  /\ Goto(t, "decide")
  /\ UNCHANGED <<state, left>>

\* Mutant: acquires with a plain store of the value seen free earlier.
Decide_StoresBlindly(t) ==
  /\ pc[t] = "decide"
  /\ state' = CONTENDED
  /\ Goto(t, IF seen[t] = UNLOCKED THEN "held" ELSE "wait")
  /\ UNCHANGED <<seen, left>>

\* One compare_exchange_weak of the loop: acquire a free lock as CONTENDED,
\* or announce a waiter on a LOCKED one; a failed exchange reloads.
Decide(t) ==
  /\ pc[t] = "decide"
  /\ \/ /\ seen[t] = CONTENDED
        /\ Goto(t, "wait")
        /\ UNCHANGED <<state, seen>>
     \/ /\ seen[t] # CONTENDED /\ seen[t] = state
        /\ state' = CONTENDED
        /\ Goto(t, IF seen[t] = UNLOCKED THEN "held" ELSE "wait")
        /\ UNCHANGED seen
     \/ /\ seen[t] # CONTENDED /\ seen[t] # state
        /\ seen' = [seen EXCEPT ![t] = state]
        /\ UNCHANGED <<state, pc>>
  /\ UNCHANGED left

\* futex_wait(word, CONTENDED): the kernel compares and enqueues atomically.
FutexWait(t) ==
  /\ pc[t] = "wait"
  /\ Goto(t, IF state = CONTENDED THEN "asleep" ELSE "load")
  /\ UNCHANGED <<state, seen, left>>

\* A signal ends the wait with Interrupted; the loop reloads the word.
Interrupt(t) ==
  /\ pc[t] = "asleep"
  /\ Goto(t, "load")
  /\ UNCHANGED <<state, seen, left>>

\* Mutant: unlock forgets the wake it owes.
Unlock_NoWake(t) ==
  /\ pc[t] = "held"
  /\ state' = UNLOCKED
  /\ Goto(t, "idle")
  /\ UNCHANGED <<seen, left>>

\* unlock_unchecked, first half: the swap decides whether a wake is owed.
Unlock(t) ==
  /\ pc[t] = "held"
  /\ state' = UNLOCKED
  /\ Goto(t, IF state = CONTENDED THEN "wake" ELSE "idle")
  /\ UNCHANGED <<seen, left>>

\* unlock_unchecked, second half: futex_wake(1) picks any sleeper.
FutexWake(t) ==
  /\ pc[t] = "wake"
  /\ \/ \E s \in Threads : /\ pc[s] = "asleep"
                           /\ pc' = [pc EXCEPT ![t] = "idle", ![s] = "load"]
     \/ (\A s \in Threads : pc[s] # "asleep") /\ Goto(t, "idle")
  /\ UNCHANGED <<state, seen, left>>

\* What a thread does when it is scheduled and not asleep.
Step(t) == \/ Lock(t) \/ Load(t) \/ Decide(t) \/ FutexWait(t)
           \/ Unlock(t) \/ FutexWake(t)

Next == \E t \in Threads : Step(t) \/ TryLock(t) \/ Interrupt(t)

\* The operating system schedules every runnable thread; it owes nobody a
\* signal, so Interrupt is not fair.
Fairness == \A t \in Threads : WF_vars(Step(t))

Spec == Init /\ [][Next]_vars /\ Fairness
-----------------------------------------------------------------------------
Labels == {"idle", "load", "decide", "wait", "asleep", "held", "wake"}

\* Type correctness of the word, the program counters and the local copies.
TypeOK == /\ state \in Words
          /\ pc \in [Threads -> Labels]
          /\ seen \in [Threads -> Words]
          /\ left \in [Threads -> Nat]

\* lock / try_lock grant the mutex to one thread at a time.
MutualExclusion ==
  \A t, u \in Threads : pc[t] = "held" /\ pc[u] = "held" => t = u

\* lock_contended and unlock_unchecked never lose a wakeup: while a thread
\* sleeps, either the word says CONTENDED (the holder owes a wake) or some
\* awake thread is about to wake a sleeper or to mark the word again.
NoLostWakeup ==
  (\E s \in Threads : pc[s] = "asleep") =>
     \/ state = CONTENDED
     \/ \E t \in Threads : pc[t] \in {"wake", "load", "decide", "wait"}

\* Every lock call returns and is released, whatever the others do.
EveryLockReturns == <>[](\A t \in Threads : pc[t] = "idle")

Holders == {t \in Threads : pc[t] = "held"}

Excl == INSTANCE Exclusion WITH readers <- {}, writers <- Holders

\* lock, try_lock and unlock_unchecked implement the abstract exclusive lock.
ImplementsExclusion == Excl!Spec
=============================================================================
