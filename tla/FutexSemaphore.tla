--------------------------- MODULE FutexSemaphore ---------------------------
(***************************************************************************)
(* LinuxSemaphore of fusion-pal: a counting semaphore whose permit count   *)
(* is the futex word.  Threads run acquire, try_acquire and release; one   *)
(* action is one atomic instruction or one futex call.  A spurious failure *)
(* of compare_exchange_weak only repeats the load, so it is not a step.    *)
(***************************************************************************)
EXTENDS Integers, FiniteSets

CONSTANTS Takers,    \* the threads that share the semaphore
          Initial,   \* `initial` of LinuxSemaphore::new
          MaxPermits,\* `max` of LinuxSemaphore::new
          Batch,     \* the arguments release is called with
          SemCalls   \* bound on the calls each thread makes

ASSUME SemaphoreAssumption == /\ MaxPermits \in Nat \ {0}
                              /\ Initial \in 0..MaxPermits
                              /\ Batch \subseteq Nat \ {0}
                              /\ SemCalls \in Nat
                              /\ IsFiniteSet(Takers)

VARIABLES permits,   \* the futex word
          sem_pc, current, \* each thread's position and local `current`
          amount,    \* the argument of a thread's release
          sem_left,  \* calls a thread may still make
          taken,     \* acquisitions that succeeded so far
          given      \* permits added by successful releases so far

sem_locals == <<sem_pc, current, amount, sem_left>>
sem_vars == <<permits, sem_locals, taken, given>>

SemInit == /\ permits = Initial /\ taken = 0 /\ given = 0
           /\ sem_pc = [t \in Takers |-> "idle"]
           /\ current = [t \in Takers |-> 0]
           /\ amount = [t \in Takers |-> 0]
           /\ sem_left = [t \in Takers |-> SemCalls]

SemGoto(t, l) == sem_pc' = [sem_pc EXCEPT ![t] = l]
Observe(t) == current' = [current EXCEPT ![t] = permits]

SemCall(t) ==
  /\ sem_pc[t] = "idle" /\ sem_left[t] > 0
  /\ sem_left' = [sem_left EXCEPT ![t] = @ - 1]

\* acquire: the load at the head of the loop.
AcquireLoad(t) ==
  /\ \/ SemCall(t)
     \/ sem_pc[t] = "reload" /\ UNCHANGED sem_left
  /\ Observe(t) /\ SemGoto(t, "acquire")
  /\ UNCHANGED <<permits, amount, taken, given>>

\* acquire: wait on zero, else try to take one; a lost exchange reloads.
AcquireDecide(t) ==
  /\ sem_pc[t] = "acquire"
  /\ \/ current[t] = 0 /\ SemGoto(t, "wait") /\ UNCHANGED <<permits, taken>>
     \/ /\ current[t] # 0 /\ permits = current[t]
        /\ permits' = permits - 1 /\ taken' = taken + 1
        /\ SemGoto(t, "idle")
     \/ /\ current[t] # 0 /\ permits # current[t]
        /\ SemGoto(t, "reload") /\ UNCHANGED <<permits, taken>>
  /\ UNCHANGED <<current, amount, sem_left, given>>

\* Mutant: the kernel is asked to sleep without comparing the word to zero.
SemFutexWait_Unconditional(t) ==
  /\ sem_pc[t] = "wait"
  /\ SemGoto(t, "asleep")
  /\ UNCHANGED <<permits, current, amount, sem_left, taken, given>>

\* futex_wait(word, 0): compare and enqueue atomically.
SemFutexWait(t) ==
  /\ sem_pc[t] = "wait"
  /\ SemGoto(t, IF permits = 0 THEN "asleep" ELSE "reload")
  /\ UNCHANGED <<permits, current, amount, sem_left, taken, given>>

\* A signal ends the wait with Interrupted.
SemInterrupt(t) ==
  /\ sem_pc[t] = "asleep"
  /\ SemGoto(t, "reload")
  /\ UNCHANGED <<permits, current, amount, sem_left, taken, given>>

\* try_acquire: load, then exchange until zero is seen or one is taken.
TryAcquireLoad(t) ==
  /\ SemCall(t) /\ Observe(t) /\ SemGoto(t, "try")
  /\ UNCHANGED <<permits, amount, taken, given>>

TryAcquireDecide(t) ==
  /\ sem_pc[t] = "try"
  /\ \/ current[t] = 0 /\ SemGoto(t, "idle") /\ UNCHANGED <<permits, current, taken>>
     \/ /\ current[t] # 0 /\ permits = current[t]
        /\ permits' = permits - 1 /\ taken' = taken + 1
        /\ SemGoto(t, "idle") /\ UNCHANGED current
     \/ /\ current[t] # 0 /\ permits # current[t]
        /\ Observe(t) /\ UNCHANGED <<permits, sem_pc, taken>>
  /\ UNCHANGED <<amount, sem_left, given>>

\* release(k), k # 0: load, then exchange unless the maximum is exceeded.
ReleaseLoad(t) ==
  /\ SemCall(t) /\ Observe(t) /\ SemGoto(t, "release")
  /\ \E k \in Batch : amount' = [amount EXCEPT ![t] = k]
  /\ UNCHANGED <<permits, taken, given>>

ReleaseDecide(t) ==
  /\ sem_pc[t] = "release"
  /\ \/ /\ current[t] + amount[t] > MaxPermits
        /\ SemGoto(t, "idle") /\ UNCHANGED <<permits, current, given>>
     \/ /\ current[t] + amount[t] <= MaxPermits /\ permits = current[t]
        /\ permits' = permits + amount[t] /\ given' = given + amount[t]
        /\ SemGoto(t, "wake") /\ UNCHANGED current
     \/ /\ current[t] + amount[t] <= MaxPermits /\ permits # current[t]
        /\ Observe(t) /\ UNCHANGED <<permits, sem_pc, given>>
  /\ UNCHANGED <<amount, sem_left, taken>>

Sleepers == {t \in Takers : sem_pc[t] = "asleep"}

\* The sets of threads futex_wake(k) may pick: k of them, or all if there are fewer.
Wakeable(k) == {S \in SUBSET Sleepers : Cardinality(S) = k \/ (S = Sleepers /\ Cardinality(S) < k)}

\* release: futex_wake(k) after a successful exchange.
SemFutexWake(t) ==
  /\ sem_pc[t] = "wake"
  /\ \E S \in Wakeable(amount[t]) :
       sem_pc' = [s \in Takers |-> IF s = t THEN "idle"
                                ELSE IF s \in S THEN "reload" ELSE sem_pc[s]]
  /\ UNCHANGED <<permits, current, amount, sem_left, taken, given>>

SemStep(t) == \/ AcquireLoad(t) \/ AcquireDecide(t) \/ SemFutexWait(t)
              \/ TryAcquireLoad(t) \/ TryAcquireDecide(t)
              \/ ReleaseLoad(t) \/ ReleaseDecide(t) \/ SemFutexWake(t)

SemNext == \E t \in Takers : SemStep(t) \/ SemInterrupt(t)

SemSpec == SemInit /\ [][SemNext]_sem_vars
-----------------------------------------------------------------------------
\* Every permit handed out by acquire / try_acquire was initial or released,
\* none is created or destroyed by racing exchanges, and racing releases never
\* exceed max ("permit count exceeded semaphore capacity").
PermitsConserved == permits + taken = Initial + given /\ permits \in 0..MaxPermits

Awake == {t \in Takers : sem_pc[t] \in {"reload", "acquire", "wait"}}
Owed == {w \in Takers \X (1..MaxPermits) : sem_pc[w[1]] = "wake" /\ w[2] <= amount[w[1]]}

\* Permits never sit beside sleepers for whom nobody is coming: while somebody
\* sleeps in acquire, every free permit is matched by an acquirer already awake
\* or by one of the wakes that releasers still owe.
PermitsNotStranded ==
  Sleepers # {} => permits <= Cardinality(Awake) + Cardinality(Owed)
=============================================================================
