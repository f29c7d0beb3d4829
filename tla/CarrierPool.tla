---------------------------- MODULE CarrierPool ----------------------------
(***************************************************************************)
(* The carrier pool: SystemThreadPool of fusion-sys under the ThreadPool   *)
(* of fusion-std.  Jobs are closures passed to ThreadPool::submit, each    *)
(* once.  A worker has a FIFO queue and a semaphore of wake tokens; the    *)
(* slot's queue lock makes every with_slot section one action, while token *)
(* releases and acquires happen outside it.  submit_raw keeps the `inner`  *)
(* mutex locked through a whole SystemThreadPool::submit.                  *)
(***************************************************************************)
EXTENDS Integers, Sequences, FiniteSets

CONSTANTS Jobs,          \* the closures submitted
          WorkerCount,   \* max_threads of the configuration
          QueueItems,    \* MAX_POOL_QUEUE_ITEMS
          MaxWorkers,    \* MAX_POOL_WORKERS
          Policies,      \* shutdown policies considered
          Boundaries,    \* steal boundaries considered
          None           \* no worker, no job

Workers == 0..(WorkerCount - 1)
TokenMax == QueueItems + MaxWorkers

ASSUME PoolAssumption ==
  /\ WorkerCount \in Nat \ {0} /\ QueueItems \in Nat \ {0}
  /\ MaxWorkers \in Nat /\ WorkerCount <= MaxWorkers
  /\ Policies \subseteq {"Drain", "Cancel"}
  /\ Boundaries \subseteq {"LocalOnly", "Global", "Located"}
  /\ None \notin Workers \cup Jobs /\ IsFiniteSet(Jobs)

VARIABLES policy, boundary,  \* the pool's configuration
          queues,            \* worker -> jobs queued for it
          tokens,            \* worker -> permits of its work_ready semaphore
          wpc, job,          \* worker -> position in worker_thread_entry; its item
          spc,               \* job -> position of its submit call
          target, companion, \* job -> workers whose tokens its submit releases
          outcome,           \* job -> what submit reported, and why
          shutdown,          \* position of the pool's shutdown
          runs, cancels      \* job -> times its closure ran / was cancelled

config == <<policy, boundary>>
submitting == <<spc, target, companion, outcome>>
working == <<wpc, job>>
vars == <<config, queues, tokens, working, submitting, shutdown, runs, cancels>>

Init == /\ policy \in Policies /\ boundary \in Boundaries
        /\ queues = [w \in Workers |-> <<>>]
        /\ tokens = [w \in Workers |-> 0]
        /\ wpc = [w \in Workers |-> "acquire"]
        /\ job = [w \in Workers |-> None]
        /\ spc = [j \in Jobs |-> "new"]
        /\ target = [j \in Jobs |-> None]
        /\ companion = [j \in Jobs |-> None]
        /\ outcome = [j \in Jobs |-> "none"]
        /\ shutdown = "up"
        /\ runs = [j \in Jobs |-> 0]
        /\ cancels = [j \in Jobs |-> 0]

shutting_down == shutdown \notin {"up", "taken"}
Queued == {j \in Jobs : \E w \in Workers :
                          \E i \in DOMAIN queues[w] : queues[w][i] = j}
InnerFree == \A j \in Jobs : spc[j] \notin {"primary", "companion"}
After(w, k) == (w + k) % WorkerCount

\* companion_worker_for_submission.  The observed placements behind the
\* located boundaries change as threads migrate, so any worker, or none, may
\* qualify.
Companions(w) ==
  CASE boundary = "LocalOnly" \/ WorkerCount = 1 -> {None}
    [] boundary = "Global" /\ WorkerCount # 1 -> {After(w, 1)}
    [] boundary = "Located" /\ WorkerCount # 1 -> {None} \cup (Workers \ {w})

\* steal_for_worker: the victims a worker may pick, in the order of the scan
\* for a global boundary; {} when there is nothing to steal.
Loaded(w) == {v \in Workers \ {w} : queues[v] # <<>>}
Victims(w) ==
  CASE boundary = "LocalOnly" -> {}
    [] boundary = "Located" -> Loaded(w)
    [] boundary = "Global" ->
         {v \in Loaded(w) : \E k \in 1..(WorkerCount - 1) :
             v = After(w, k) /\ \A i \in 1..(k - 1) : After(w, i) \notin Loaded(w)}
-----------------------------------------------------------------------------
\* submit gives up before submit_raw (closure too large, no job record): the
\* closure is dropped unrun.
Refuse(j) ==
  /\ spc[j] = "new"
  /\ spc' = [spc EXCEPT ![j] = "done"]
  /\ outcome' = [outcome EXCEPT ![j] = "rejected"]
  /\ UNCHANGED <<config, queues, tokens, working, target, companion, shutdown,
                 runs, cancels>>

\* submit_raw fails: the pool is gone, shutting down or full.
SubmitFails(j) ==
  /\ spc[j] = "new" /\ InnerFree
  /\ shutdown # "up" \/ Cardinality(Queued) = QueueItems
  /\ spc' = [spc EXCEPT ![j] = "failed"]
  /\ outcome' = [outcome EXCEPT ![j] = "rejected"]
  /\ UNCHANGED <<config, queues, tokens, working, target, companion, shutdown,
                 runs, cancels>>

\* SystemThreadPool::submit, under the queue lock: choose a worker (by
\* locality of the caller, or round robin) and append to its queue.
Enqueue(j) ==
  /\ spc[j] = "new" /\ InnerFree
  /\ shutdown = "up" /\ Cardinality(Queued) < QueueItems
  /\ \E w \in Workers : \E c \in Companions(w) :
       /\ queues' = [queues EXCEPT ![w] = Append(@, j)]
       /\ target' = [target EXCEPT ![j] = w]
       /\ companion' = [companion EXCEPT ![j] = c]
  /\ spc' = [spc EXCEPT ![j] = "primary"]
  /\ UNCHANGED <<config, tokens, working, outcome, shutdown, runs, cancels>>

\* One semaphore.release(1) of submit: an overflow is returned as an error.
ReleaseToken(j, w, next) ==
  /\ \/ /\ tokens[w] < TokenMax
        /\ tokens' = [tokens EXCEPT ![w] = @ + 1]
        /\ spc' = [spc EXCEPT ![j] = next]
        /\ outcome' = [outcome EXCEPT ![j] = IF next = "done" THEN "accepted" ELSE @]
     \/ /\ tokens[w] = TokenMax
        /\ spc' = [spc EXCEPT ![j] = "failed"]
        /\ outcome' = [outcome EXCEPT ![j] = "overflow"]
        /\ UNCHANGED tokens
  /\ UNCHANGED <<config, queues, working, target, companion, shutdown, runs, cancels>>

\* Mutant: a submission with a companion wakes only the companion.
ReleasePrimary_OnlyCompanion(j) ==
  /\ spc[j] = "primary"
  /\ ReleaseToken(j, IF companion[j] = None THEN target[j] ELSE companion[j], "done")

ReleasePrimary(j) ==
  /\ spc[j] = "primary"
  /\ ReleaseToken(j, target[j], IF companion[j] = None THEN "done" ELSE "companion")

ReleaseCompanion(j) ==
  /\ spc[j] = "companion"
  /\ ReleaseToken(j, companion[j], "done")

\* The error path of ThreadPool::submit: run_contained on the caller's thread.
RunRejected(j) ==
  /\ spc[j] = "failed"
  /\ spc' = [spc EXCEPT ![j] = "done"]
  /\ runs' = [runs EXCEPT ![j] = @ + 1]
  /\ UNCHANGED <<config, queues, tokens, working, target, companion, outcome,
                 shutdown, cancels>>
-----------------------------------------------------------------------------
\* worker_thread_entry: semaphore.acquire().
Acquire(w) ==
  /\ wpc[w] = "acquire" /\ tokens[w] > 0
  /\ tokens' = [tokens EXCEPT ![w] = @ - 1]
  /\ wpc' = [wpc EXCEPT ![w] = "take"]
  /\ UNCHANGED <<config, queues, job, submitting, shutdown, runs, cancels>>

\* dequeue_for_worker(v) on behalf of worker w.
Dequeue(w, v) ==
  /\ job' = [job EXCEPT ![w] = Head(queues[v])]
  /\ queues' = [queues EXCEPT ![v] = Tail(@)]
  /\ wpc' = [wpc EXCEPT ![w] = "run"]

\* worker_thread_entry under the queue lock: own work, else stolen work, else
\* leave if shutting down, else go back for another token.
Take(w) ==
  /\ wpc[w] = "take"
  /\ \/ queues[w] # <<>> /\ Dequeue(w, w)
     \/ queues[w] = <<>> /\ \E v \in Victims(w) : Dequeue(w, v)
     \/ /\ queues[w] = <<>> /\ (Victims(w) = {} \/ boundary = "Located")
        /\ wpc' = [wpc EXCEPT ![w] = IF shutting_down THEN "exit" ELSE "acquire"]
        /\ UNCHANGED <<queues, job>>
  /\ UNCHANGED <<config, tokens, submitting, shutdown, runs, cancels>>

\* The item's entry runs to completion; a panic is contained.
Run(w) ==
  /\ wpc[w] = "run"
  /\ runs' = [runs EXCEPT ![job[w]] = @ + 1]
  /\ wpc' = [wpc EXCEPT ![w] = "acquire"]
  /\ job' = [job EXCEPT ![w] = None]
  /\ UNCHANGED <<config, queues, tokens, submitting, shutdown, cancels>>
-----------------------------------------------------------------------------
\* ThreadPool::shutdown (or the drop of the last handle) takes `inner`.
TakeInner ==
  /\ shutdown = "up" /\ InnerFree
  /\ shutdown' = "taken"
  /\ UNCHANGED <<config, queues, tokens, working, submitting, runs, cancels>>

\* Mutant: one token wakes one worker only.
BeginShutdown_OneToken ==
  /\ shutdown = "taken"
  /\ tokens' = [tokens EXCEPT ![0] = @ + 1]
  /\ shutdown' = "joining"
  /\ cancels' = [j \in Jobs |-> IF policy = "Cancel" /\ j \in Queued
                                THEN cancels[j] + 1 ELSE cancels[j]]
  /\ queues' = IF policy = "Cancel" THEN [w \in Workers |-> <<>>] ELSE queues
  /\ UNCHANGED <<config, working, submitting, runs>>

\* shutdown_inner under the queue lock: stop accepting, cancel the queued
\* items unless draining, and release one token per worker; an overflow ends
\* the shutdown before any join.
BeginShutdown ==
  /\ shutdown = "taken"
  /\ LET full == {w \in Workers : tokens[w] = TokenMax}
         woken == {w \in Workers : \A f \in full : w < f}
     IN  /\ tokens' = [w \in Workers |-> IF w \in woken THEN tokens[w] + 1 ELSE tokens[w]]
         /\ shutdown' = IF full = {} THEN "joining" ELSE "failed"
  /\ \/ policy = "Drain" /\ UNCHANGED <<queues, cancels>>
     \/ /\ policy = "Cancel"
        /\ cancels' = [j \in Jobs |-> IF j \in Queued THEN cancels[j] + 1 ELSE cancels[j]]
        /\ queues' = [w \in Workers |-> <<>>]
  /\ UNCHANGED <<config, working, submitting, runs>>

\* Every worker has been joined; the slot is reset.
Join ==
  /\ shutdown = "joining" /\ \A w \in Workers : wpc[w] = "exit"
  /\ shutdown' = "down"
  /\ queues' = [w \in Workers |-> <<>>]
  /\ tokens' = [w \in Workers |-> 0]
  /\ UNCHANGED <<config, working, submitting, runs, cancels>>

SubmitStep(j) == \/ SubmitFails(j) \/ Enqueue(j) \/ ReleasePrimary(j)
                 \/ ReleaseCompanion(j) \/ RunRejected(j)
WorkerStep(w) == Acquire(w) \/ Take(w) \/ Run(w)
ShutdownStep == BeginShutdown \/ Join

Next == \/ \E j \in Jobs : SubmitStep(j) \/ Refuse(j)
        \/ \E w \in Workers : WorkerStep(w)
        \/ TakeInner \/ ShutdownStep

\* Threads that can run do, and jobs terminate; nobody has to shut down.
Fairness == /\ \A j \in Jobs : WF_vars(SubmitStep(j))
            /\ \A w \in Workers : WF_vars(WorkerStep(w))
            /\ WF_vars(ShutdownStep)

Spec == Init /\ [][Next]_vars /\ Fairness
-----------------------------------------------------------------------------
\* Type correctness of the pool slot, the workers and the submitters.
TypeOK ==
  /\ policy \in Policies /\ boundary \in Boundaries
  /\ queues \in [Workers -> Seq(Jobs)]
  /\ tokens \in [Workers -> 0..TokenMax]
  /\ wpc \in [Workers -> {"acquire", "take", "run", "exit"}]
  /\ job \in [Workers -> Jobs \cup {None}]
  /\ spc \in [Jobs -> {"new", "primary", "companion", "failed", "done"}]
  /\ target \in [Jobs -> Workers \cup {None}]
  /\ companion \in [Jobs -> Workers \cup {None}]
  /\ outcome \in [Jobs -> {"none", "accepted", "rejected", "overflow"}]
  /\ shutdown \in {"up", "taken", "joining", "failed", "down"}
  /\ runs \in [Jobs -> Nat] /\ cancels \in [Jobs -> Nat]

Holds(w) == IF wpc[w] = "take" THEN 1 ELSE 0
InFlight(w) ==
  IF \E j \in Jobs : spc[j] = "primary" /\ target[j] = w THEN 1 ELSE 0

\* Every queued item has a token of its own worker behind it: in the
\* semaphore, in the worker's hand, or still to be released by its submitter.
\* Stealing takes items without tokens, so the two counts drift apart, but
\* only in the safe direction, and a release that overflows has left at least
\* QueueItems tokens behind.
TokensCover ==
  \A w \in Workers :
     Len(queues[w]) <= tokens[w] + Holds(w) + InFlight(w)

\* A closure is consumed at most once: run by one worker, run by its rejected
\* submitter, or cancelled, never two of these, unless releasing one of its
\* tokens overflowed.
ConsumedOnce ==
  \A j \in Jobs : outcome[j] # "overflow" => runs[j] + cancels[j] <= 1

\* "Drain queued work before shutdown completes": when a draining shutdown has
\* returned, every accepted job has run.
Drained == shutdown = "down" /\ policy = "Drain" =>
             \A j \in Jobs : outcome[j] = "accepted" => runs[j] = 1

\* Every accepted job is eventually run or cancelled.
AcceptedJobsFinish ==
  \A j \in Jobs : outcome[j] = "accepted" ~> runs[j] + cancels[j] = 1

\* A shutdown that leaves nothing to steal returns: each worker finds the
\* token that lets it leave.
StealFreeShutdownReturns ==
  shutdown = "taken" /\ (policy = "Cancel" \/ boundary = "LocalOnly")
    ~> shutdown \in {"down", "failed"}

\* Every shutdown returns.  It does not: a worker that spends its shutdown
\* token on a stolen item waits for another one that never comes.
ShutdownReturns == shutdown = "taken" ~> shutdown \in {"down", "failed"}

\* The error path assumes "submission failed, so no worker can observe the
\* record": no failed submission leaves its job in a queue or with a worker.
FailedNotObservable ==
  \A j \in Jobs : spc[j] = "failed" =>
     j \notin Queued /\ \A w \in Workers : job[w] # j

\* ... and that a rejected job only goes through its "drop/recycle path":
\* its closure is not executed.
RejectedNeverRuns == \A j \in Jobs : outcome[j] = "rejected" => runs[j] = 0
=============================================================================
