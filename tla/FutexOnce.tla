------------------------------ MODULE FutexOnce ------------------------------
(***************************************************************************)
(* LinuxRawOnce of fusion-pal under Once and OnceLock of fusion-sys.  Each *)
(* thread calls OnceLock::get_or_try_init up to Calls times; its           *)
(* initializer yields a value (named by the thread) or fails, by error or  *)
(* by panic, which drops OnceInitGuard and resets the word.                *)
(***************************************************************************)
EXTENDS Naturals

CONSTANTS Callers,   \* the threads that call
          Empty,     \* an uninitialized cell
          Calls      \* bound on the calls each thread makes

ASSUME CallsAssumption == Calls \in Nat
ASSUME EmptyAssumption == Empty \notin Callers

VARIABLES once_state,  \* the futex word of LinuxRawOnce
          value,       \* the OnceLock cell: Empty or the thread that wrote it
          once_pc,     \* where each thread is
          result,      \* what a thread's last call returned
          calls_left   \* calls a thread may still make

once_vars == <<once_state, value, once_pc, result, calls_left>>

UNINITIALIZED == 0
RUNNING == 1
COMPLETE == 2

OnceInit == /\ once_state = UNINITIALIZED /\ value = Empty
            /\ once_pc = [t \in Callers |-> "idle"]
            /\ result = [t \in Callers |-> Empty]
            /\ calls_left = [t \in Callers |-> Calls]

OnceGoto(t, l) == once_pc' = [once_pc EXCEPT ![t] = l]
Return(t, v) == result' = [result EXCEPT ![t] = v] /\ OnceGoto(t, "idle")

\* get_or_try_init: the fast path through get.
Get(t) ==
  /\ once_pc[t] = "idle" /\ calls_left[t] > 0
  /\ calls_left' = [calls_left EXCEPT ![t] = @ - 1]
  /\ \/ once_state = COMPLETE /\ Return(t, value)
     \/ once_state # COMPLETE /\ OnceGoto(t, "begin") /\ UNCHANGED result
  /\ UNCHANGED <<once_state, value>>

\* begin: the load and its three answers.
Begin(t) ==
  /\ once_pc[t] = "begin"
  /\ \/ once_state = COMPLETE /\ OnceGoto(t, "reget")
     \/ once_state = RUNNING /\ OnceGoto(t, "wait")
     \/ once_state = UNINITIALIZED /\ OnceGoto(t, "claim")
  /\ UNCHANGED <<once_state, value, result, calls_left>>

\* Mutant: the claim is a store, so two threads may both initialize.
Claim_Stores(t) ==
  /\ once_pc[t] = "claim"
  /\ once_state' = RUNNING /\ OnceGoto(t, "init")
  /\ UNCHANGED <<value, result, calls_left>>

\* begin: the compare_exchange that elects the initializer.
Claim(t) ==
  /\ once_pc[t] = "claim"
  /\ \/ once_state = UNINITIALIZED /\ once_state' = RUNNING /\ OnceGoto(t, "init")
     \/ once_state # UNINITIALIZED /\ OnceGoto(t, "begin") /\ UNCHANGED once_state
  /\ UNCHANGED <<value, result, calls_left>>

\* The initializer runs: it writes the cell, or fails and writes nothing.
Initialize(t) ==
  /\ once_pc[t] = "init"
  /\ \/ value' = t /\ OnceGoto(t, "complete")
     \/ OnceGoto(t, "reset") /\ UNCHANGED value
  /\ UNCHANGED <<once_state, result, calls_left>>

\* complete_unchecked: the store that publishes the value.
Complete(t) ==
  /\ once_pc[t] = "complete"
  /\ once_state' = COMPLETE /\ OnceGoto(t, "wakeok")
  /\ UNCHANGED <<value, result, calls_left>>

\* Mutant: a failed initializer leaves the word RUNNING.
Reset_Forgotten(t) ==
  /\ once_pc[t] = "reset"
  /\ OnceGoto(t, "wakeerr")
  /\ UNCHANGED <<once_state, value, result, calls_left>>

\* reset_unchecked, from the drop of OnceInitGuard.
Reset(t) ==
  /\ once_pc[t] = "reset"
  /\ once_state' = UNINITIALIZED /\ OnceGoto(t, "wakeerr")
  /\ UNCHANGED <<value, result, calls_left>>

\* Both stores are followed by a wake of every waiter; the failed caller
\* then returns its error.
WakeAll(t) ==
  /\ once_pc[t] \in {"wakeok", "wakeerr"}
  /\ once_pc' = [s \in Callers |->
              IF s = t THEN IF once_pc[t] = "wakeok" THEN "reget" ELSE "idle"
              ELSE IF once_pc[s] = "asleep" THEN "wait" ELSE once_pc[s]]
  /\ UNCHANGED <<once_state, value, result, calls_left>>

\* wait: the load at the head of the loop.
Wait(t) ==
  /\ once_pc[t] = "wait"
  /\ OnceGoto(t, IF once_state = RUNNING THEN "sleep" ELSE "begin")
  /\ UNCHANGED <<once_state, value, result, calls_left>>

\* futex_wait(word, RUNNING): compare and enqueue atomically.
OnceFutexWait(t) ==
  /\ once_pc[t] = "sleep"
  /\ OnceGoto(t, IF once_state = RUNNING THEN "asleep" ELSE "wait")
  /\ UNCHANGED <<once_state, value, result, calls_left>>

\* A signal ends the wait with Interrupted.
OnceInterrupt(t) ==
  /\ once_pc[t] = "asleep" /\ OnceGoto(t, "wait")
  /\ UNCHANGED <<once_state, value, result, calls_left>>

\* get_or_try_init: the get after call_once_try; SyncError::invalid when the
\* cell is not complete.
Reget(t) ==
  /\ once_pc[t] = "reget"
  /\ \/ once_state = COMPLETE /\ Return(t, value)
     \/ once_state # COMPLETE /\ OnceGoto(t, "invalid") /\ UNCHANGED result
  /\ UNCHANGED <<once_state, value, calls_left>>

OnceStep(t) == \/ Get(t) \/ Begin(t) \/ Claim(t) \/ Initialize(t) \/ Complete(t)
               \/ Reset(t) \/ WakeAll(t) \/ Wait(t) \/ OnceFutexWait(t) \/ Reget(t)

OnceNext == \E t \in Callers : OnceStep(t) \/ OnceInterrupt(t)

\* Runnable threads are scheduled; nobody is owed a signal.
OnceFairness == \A t \in Callers : WF_once_vars(OnceStep(t))

OnceSpec == OnceInit /\ [][OnceNext]_once_vars /\ OnceFairness
-----------------------------------------------------------------------------
OnceLabels == {"idle", "begin", "claim", "init", "complete", "reset", "wakeok",
               "wakeerr", "wait", "sleep", "asleep", "reget", "invalid"}

\* Type correctness; the word is always one the `begin` match accepts.
OnceTypeOK == /\ once_state \in {UNINITIALIZED, RUNNING, COMPLETE}
              /\ value \in Callers \cup {Empty}
              /\ once_pc \in [Callers -> OnceLabels]
              /\ result \in [Callers -> Callers \cup {Empty}]
              /\ calls_left \in [Callers -> Nat]

Owner == {"init", "complete", "reset"}

\* "the once primitive guarantees exclusive initialization for the winning
\* thread": at most one thread is between begin's Initialize and the store
\* that ends it, and only while the word says RUNNING.
ExclusiveInit ==
  \A t \in Callers : once_pc[t] \in Owner =>
     once_state = RUNNING /\ \A u \in Callers : once_pc[u] \in Owner => u = t

\* OnceLock is single-assignment: every call that returned a reference
\* returned the one value the cell holds, whatever failed attempts preceded it.
OneValue == \A t \in Callers : result[t] # Empty => result[t] = value

\* A call never ends in the `invalid` fallback after call_once_try succeeded.
NeverInvalid == \A t \in Callers : once_pc[t] # "invalid"

\* A thread asleep in `wait` has somebody left to wake it: an initializer at
\* work or a completed / reset one that still owes its wake.
OnceNoLostWakeup ==
  (\E s \in Callers : once_pc[s] = "asleep") =>
     \E t \in Callers : once_pc[t] \in Owner \cup {"wakeok", "wakeerr"}

\* Every get_or_try_init call returns.
EveryCallReturns == <>[](\A t \in Callers : once_pc[t] = "idle")
=============================================================================
