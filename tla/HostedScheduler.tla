--------------------------- MODULE HostedScheduler ---------------------------
(***************************************************************************)
(* Dispatch onto hosted carrier threads and its shutdown: the external     *)
(* in-flight count of ExecutorCore and the per-worker ready queues of      *)
(* HostedThreadScheduler.  A dispatcher is one call of                     *)
(* dispatch_marked_slot_with_lease, by a waker or a spawn on any thread;   *)
(* its job is named after it.  The ready queue of a worker is touched only *)
(* under its mutex; counts, flags and signals are atomics touched between. *)
(***************************************************************************)
EXTENDS ExecutorShutdown, Integers, Sequences, FiniteSets

CONSTANTS Dispatchers,   \* calls that dispatch a marked slot
          WorkerCounts,  \* the numbers of workers to look at
          Capacity       \* CURRENT_QUEUE_CAPACITY

ASSUME SchedulerAssumption ==
  WorkerCounts \subseteq Nat \ {0} /\ Capacity \in Nat \ {0} /\ None \notin Dispatchers

VARIABLES worker_count,       \* fixed by new
          external_inflight,  \* ExecutorCore
          shutdown,           \* HostedThreadScheduler
          ready, signal,      \* worker -> its queue, permits of its semaphore
          wpc, job,           \* worker -> position, the job it runs
          dpc,                \* dispatcher -> position in the dispatch
          at, tried,          \* dispatcher -> worker it tries, number tried
          next, dropped       \* shutdown: next worker, jobs cleared

core == <<shutdown_requested, external_inflight>>
queues == <<ready, signal>>
work == <<wpc, job>>
dispatch == <<dpc, at, tried>>
closing == <<shutdown, spc, next, dropped>>
vars == <<worker_count, core, queues, work, dispatch, closing>>

Workers == 0..(worker_count - 1)
SignalMax == Capacity + worker_count

Init == /\ worker_count \in WorkerCounts
        /\ shutdown_requested = FALSE /\ external_inflight = 0 /\ shutdown = FALSE
        /\ ready = [w \in Workers |-> <<>>]
        /\ signal = [w \in Workers |-> 0]
        /\ wpc = [w \in Workers |-> "acquire"]
        /\ job = [w \in Workers |-> None]
        /\ dpc = [d \in Dispatchers |-> "begin"]
        /\ at = [d \in Dispatchers |-> 0]
        /\ tried = [d \in Dispatchers |-> 0]
        /\ spc = "idle" /\ next = 0 /\ dropped = 0

Goto(d, l) == dpc' = [dpc EXCEPT ![d] = l]
-----------------------------------------------------------------------------
\* begin_external_schedule: check the flag, ...
Begin(d) ==
  /\ dpc[d] = "begin"
  /\ Goto(d, IF shutdown_requested THEN "failed" ELSE "count")
  /\ UNCHANGED <<core, queues, work, at, tried, closing>>

\* ... count the job, ...
Count(d) ==
  /\ dpc[d] = "count"
  /\ external_inflight' = external_inflight + 1
  /\ Goto(d, "recheck")
  /\ UNCHANGED <<shutdown_requested, queues, work, at, tried, closing>>

\* ... and check the flag again.
Recheck(d) ==
  /\ dpc[d] = "recheck"
  /\ Goto(d, IF shutdown_requested THEN "undo" ELSE "enqueue")
  /\ UNCHANGED <<core, queues, work, at, tried, closing>>

\* Mutant: a failed dispatch keeps its count.
Undo_Keeps(d) ==
  /\ dpc[d] = "undo"
  /\ Goto(d, "failed")
  /\ UNCHANGED <<core, queues, work, at, tried, closing>>

\* finish_external_schedule on the error paths; the slot is then failed.  The
\* job of an overflowed signal is still queued.
Undo(d) ==
  /\ dpc[d] \in {"undo", "overflow"}
  /\ external_inflight' = external_inflight - 1
  /\ Goto(d, IF dpc[d] = "undo" THEN "failed" ELSE "lost")
  /\ UNCHANGED <<shutdown_requested, queues, work, at, tried, closing>>

\* HostedThreadScheduler::enqueue: refuse after shutdown, else start at the
\* round-robin or best-placed worker, which may be any.
Enqueue(d) ==
  /\ dpc[d] = "enqueue"
  /\ \/ shutdown /\ Goto(d, "undo") /\ UNCHANGED <<at, tried>>
     \/ /\ ~shutdown /\ Goto(d, "push")
        /\ \E w \in Workers : at' = [at EXCEPT ![d] = w]
        /\ tried' = [tried EXCEPT ![d] = 0]
  /\ UNCHANGED <<core, queues, work, closing>>

\* One pass of enqueue's loop, under the mutex of that worker's queue.
Push(d) ==
  /\ dpc[d] = "push"
  /\ \/ /\ tried[d] = worker_count /\ Goto(d, "undo")
        /\ UNCHANGED <<ready, at, tried>>
     \/ /\ tried[d] < worker_count /\ Len(ready[at[d]]) < Capacity
        /\ ready' = [ready EXCEPT ![at[d]] = Append(@, d)]
        /\ Goto(d, "signal")
        /\ UNCHANGED <<at, tried>>
     \/ /\ tried[d] < worker_count /\ Len(ready[at[d]]) = Capacity
        /\ at' = [at EXCEPT ![d] = (@ + 1) % worker_count]
        /\ tried' = [tried EXCEPT ![d] = @ + 1]
        /\ UNCHANGED <<ready, dpc>>
  /\ UNCHANGED <<core, signal, work, closing>>

\* Mutant: enqueue wakes the next worker instead of the one it pushed to.
Signal_WrongWorker(d) ==
  /\ dpc[d] = "signal"
  /\ LET w == (at[d] + 1) % worker_count
     IN  signal' = [signal EXCEPT ![w] = IF @ < SignalMax THEN @ + 1 ELSE @]
  /\ Goto(d, "done")
  /\ UNCHANGED <<core, ready, work, at, tried, closing>>

\* enqueue releases the worker's signal after unlocking its queue; an
\* overflow is an error of the whole dispatch.
Signal(d) ==
  /\ dpc[d] = "signal"
  /\ \/ /\ signal[at[d]] < SignalMax
        /\ signal' = [signal EXCEPT ![at[d]] = @ + 1]
        /\ Goto(d, "done")
     \/ /\ signal[at[d]] = SignalMax /\ UNCHANGED signal
        /\ Goto(d, "overflow")
  /\ UNCHANGED <<core, ready, work, at, tried, closing>>
-----------------------------------------------------------------------------
\* run_hosted_thread_scheduler: signal.acquire().
Acquire(w) ==
  /\ wpc[w] = "acquire" /\ signal[w] > 0
  /\ signal' = [signal EXCEPT ![w] = @ - 1]
  /\ wpc' = [wpc EXCEPT ![w] = "dequeue"]
  /\ UNCHANGED <<core, ready, job, dispatch, closing>>

Dequeue(w) ==
  /\ wpc[w] = "dequeue"
  /\ \/ /\ ready[w] # <<>>
        /\ job' = [job EXCEPT ![w] = Head(ready[w])]
        /\ ready' = [ready EXCEPT ![w] = Tail(@)]
        /\ wpc' = [wpc EXCEPT ![w] = "run"]
     \/ /\ ready[w] = <<>> /\ wpc' = [wpc EXCEPT ![w] = "check"]
        /\ UNCHANGED <<ready, job>>
  /\ UNCHANGED <<core, signal, dispatch, closing>>

\* An empty-handed worker leaves once the scheduler is shut down.
Check(w) ==
  /\ wpc[w] = "check"
  /\ wpc' = [wpc EXCEPT ![w] = IF shutdown THEN "exit" ELSE "acquire"]
  /\ UNCHANGED <<core, queues, job, dispatch, closing>>

\* (job.run)(..): run_current_slot borrows the executor core.
Run(w) ==
  /\ wpc[w] = "run"
  /\ wpc' = [wpc EXCEPT ![w] = "finish"]
  /\ UNCHANGED <<core, queues, job, dispatch, closing>>

\* finish_external_schedule after the run.
Finish(w) ==
  /\ wpc[w] = "finish"
  /\ external_inflight' = external_inflight - 1
  /\ wpc' = [wpc EXCEPT ![w] = "acquire"]
  /\ job' = [job EXCEPT ![w] = None]
  /\ UNCHANGED <<shutdown_requested, queues, dispatch, closing>>
-----------------------------------------------------------------------------
\* ExecutorCore::shutdown: set the core's flag, ...
RequestShutdown ==
  /\ spc = "idle"
  /\ shutdown_requested' = TRUE
  /\ spc' = "flag"
  /\ UNCHANGED <<external_inflight, queues, work, dispatch, shutdown, next, dropped>>

\* ... then request_shutdown: the scheduler's flag, ...
StopScheduler ==
  /\ spc = "flag"
  /\ shutdown' = TRUE
  /\ spc' = "clear" /\ next' = 0
  /\ UNCHANGED <<core, queues, work, dispatch, dropped>>

\* ... and per worker, clear its queue under the mutex ...
Clear ==
  /\ spc = "clear" /\ next < worker_count
  /\ dropped' = dropped + Len(ready[next])
  /\ ready' = [ready EXCEPT ![next] = <<>>]
  /\ spc' = "wake"
  /\ UNCHANGED <<core, signal, work, dispatch, shutdown, next>>

\* ... and release its signal; an overflow ends request_shutdown, and the
\* number of jobs it has dropped is lost.
Wake ==
  /\ spc = "wake"
  /\ \/ /\ signal[next] < SignalMax
        /\ signal' = [signal EXCEPT ![next] = @ + 1]
        /\ next' = next + 1 /\ spc' = "clear"
     \/ /\ signal[next] = SignalMax
        /\ spc' = "wait"
        /\ UNCHANGED <<signal, next>>
  /\ UNCHANGED <<core, ready, work, dispatch, shutdown, dropped>>

\* drop_external_scheduled(dropped).
DropScheduled ==
  /\ spc = "clear" /\ next = worker_count
  /\ external_inflight' = external_inflight - dropped
  /\ dropped' = 0
  /\ spc' = "wait"
  /\ UNCHANGED <<shutdown_requested, queues, work, dispatch, shutdown, next>>

\* wait_external_idle; the slots are then torn down.
WaitIdle ==
  /\ spc = "wait" /\ external_inflight = 0
  /\ spc' = "down"
  /\ UNCHANGED <<core, queues, work, dispatch, shutdown, next, dropped>>

DispatchStep(d) == \/ Begin(d) \/ Count(d) \/ Recheck(d) \/ Undo(d)
                   \/ Enqueue(d) \/ Push(d) \/ Signal(d)
WorkerStep(w) == Acquire(w) \/ Dequeue(w) \/ Check(w) \/ Run(w) \/ Finish(w)
ShutdownStep == StopScheduler \/ Clear \/ Wake \/ DropScheduled \/ WaitIdle

Next == /\ \/ \E d \in Dispatchers : DispatchStep(d)
           \/ \E w \in Workers : WorkerStep(w)
           \/ RequestShutdown \/ ShutdownStep
        /\ UNCHANGED worker_count

Spec == Init /\ [][Next]_vars
-----------------------------------------------------------------------------
\* A dispatch whose signal overflowed has failed, yet its job is queued.
Lost == {d \in Dispatchers : dpc[d] = "lost"}
Overflowed == \E d \in Dispatchers : dpc[d] \in {"overflow", "lost"}
Counted == {d \in Dispatchers : dpc[d] \in {"recheck", "undo", "enqueue", "push"}}
Running == {w \in Workers : wpc[w] \in {"run", "finish"}}
\* The dispatches that have pushed to a worker's queue and yet to signal it.
Signalling(w) == {d \in Dispatchers : dpc[d] = "signal" /\ at[d] = w}
\* The occupied places of the ready queues, one for each queued job.
Places == UNION {{w} \X (1..Len(ready[w])) : w \in Workers}

\* The in-flight count is one for each dispatch under way, each queued job,
\* each job with a worker, and each job that shutdown has cleared and not yet
\* taken off, less one for each job whose dispatch gave its count back after
\* the signal overflowed.  Until that happens "external inflight count should
\* not underflow" and "dropped jobs should be accounted for" follow; each time
\* it happens wait_external_idle may return with one more job outstanding.
InflightExact ==
  external_inflight = Cardinality(Counted) + Cardinality(Places)
                        + Cardinality(Running) + dropped - Cardinality(Lost)

\* Every queued job has a wake-up of its own: a permit of its worker's signal,
\* the worker on its way from a permit to the queue, or the dispatch that
\* pushed it and has yet to signal.  An overflowed signal leaves more permits
\* than the queue holds jobs, so no worker sleeps on a job.
SignalsCover ==
  \A w \in Workers :
    Len(ready[w]) <= signal[w] + (IF wpc[w] = "dequeue" THEN 1 ELSE 0)
                       + Cardinality(Signalling(w))
=============================================================================
