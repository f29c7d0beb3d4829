------------------------------ MODULE AsyncTask ------------------------------
(***************************************************************************)
(* One AsyncTaskSlot of an executor with external carriers, through its    *)
(* generations.  Its threads are the workers, which run dispatched jobs    *)
(* (run_slot_by_ref); the wakers, which own clones of the task's waker;    *)
(* and the owner, which spawns the task and joins, polls, aborts or        *)
(* detaches its handle.  Each atomic access and each section under an      *)
(* ExecutorCell lock is an action, except where a slot begins or ends a    *)
(* generation: Spawn sets all of it up in one step, and reset_empty takes  *)
(* two, the cells and the atomics.  The operations of the slot that        *)
(* several threads call are written once, for a thread t that returns to   *)
(* the label on top of ret[t].                                             *)
(***************************************************************************)
EXTENDS Integers, Sequences, FiniteSets

CONSTANTS Workers, Wakers, Owner,
          Generations,  \* bound: tasks spawned into the slot
          Polls,        \* bound: polls of a task that return Pending
          Refusals,     \* bound: dispatches the scheduler refuses
          None

Threads == Workers \cup Wakers \cup {Owner}

ASSUME TaskAssumption ==
  Generations \in Nat \ {0} /\ Polls \in Nat /\ Refusals \in Nat /\ None \notin Nat

VARIABLES generation, state,           \* the slot's atomics
          scheduled, running,          \* the two bits of run_state
          handle_live, waker_refs,
          future, polling,             \* cell: generation of the future; who polls it
          result, error,               \* cells: generation of the output; failure
          completed, join_waker,       \* cells: permits or None; registered
          free,                        \* the slot is on the free stack
          jobs,                        \* jobs queued on the carriers, by generation
          clones,                      \* waker clones held outside the executor
          pc, gen, ret, cause,         \* thread -> label, generation, return, error
          polled, refused,             \* bounds used
          woken, ended, joined         \* history: wake since the last poll began,
                                       \* how its future ended, what join got
slot == <<generation, state, scheduled, running, handle_live, waker_refs>>
cells == <<future, polling, result, error, completed, join_waker>>
threads == <<pc, gen, ret, cause>>
bounds == <<polled, refused>>
history == <<woken, ended, joined>>
vars == <<slot, cells, free, jobs, clones, threads, bounds, history>>

Init == /\ generation = 0 /\ state = "EMPTY"
        /\ scheduled = FALSE /\ running = FALSE
        /\ handle_live = FALSE /\ waker_refs = 0
        /\ future = None /\ polling = None /\ result = None /\ error = None
        /\ completed = None /\ join_waker = FALSE
        /\ free = TRUE
        /\ jobs = [g \in 1..Generations |-> 0] /\ clones = 0
        /\ pc = [t \in Threads |-> "idle"]
        /\ gen = [t \in Threads |-> 0]
        /\ ret = [t \in Threads |-> <<>>]
        /\ cause = [t \in Threads |-> None]
        /\ polled = 0 /\ refused = 0
        /\ woken = FALSE /\ ended = [g \in 1..Generations |-> None]
        /\ joined = [g \in 1..Generations |-> None]

Live(t) == generation = gen[t] /\ state = "PENDING"
Move(t, l, rs, g, c) ==
  /\ pc' = [pc EXCEPT ![t] = l] /\ ret' = [ret EXCEPT ![t] = rs]
  /\ gen' = [gen EXCEPT ![t] = g] /\ cause' = [cause EXCEPT ![t] = c]
Goto(t, l) == Move(t, l, ret[t], gen[t], cause[t])
\* Go to l, and from there return to the labels rs.
Call(t, l, rs) == Move(t, l, rs \o ret[t], gen[t], cause[t])
CallFor(t, l, rs, c) == Move(t, l, rs \o ret[t], gen[t], c)
Return(t) == IF ret[t] = <<>> THEN Move(t, "idle", <<>>, 0, None)
                              ELSE Move(t, Head(ret[t]), Tail(ret[t]), gen[t], cause[t])
\* History: the first outcome of a task's future.
End(g, o) == ended' = [ended EXCEPT ![g] = IF @ = None THEN o ELSE @]
-----------------------------------------------------------------------------
\* schedule_slot: a wake of a task that is still pending ...
Schedule(t) ==
  /\ pc[t] = "schedule"
  /\ IF Live(t) THEN Goto(t, "mark") /\ woken' = TRUE ELSE Return(t) /\ UNCHANGED woken
  /\ UNCHANGED <<slot, cells, free, jobs, clones, bounds, ended, joined>>

\* Mutant: the mark overwrites the run state.
Mark_Stores(t) ==
  /\ pc[t] = "mark"
  /\ scheduled' = TRUE /\ running' = FALSE
  /\ IF scheduled THEN Return(t) ELSE Goto(t, "dispatch")
  /\ UNCHANGED <<generation, state, handle_live, waker_refs, cells, free, jobs, clones,
                 bounds, history>>

\* ... marks it (try_mark_scheduled); the first mark outside a run dispatches.
Mark(t) ==
  /\ pc[t] = "mark"
  /\ scheduled' = TRUE
  /\ IF scheduled \/ running THEN Return(t) ELSE Goto(t, "dispatch")
  /\ UNCHANGED <<generation, state, running, handle_live, waker_refs, cells, free, jobs,
                 clones, bounds, history>>

\* dispatch_marked_slot_with_lease: queue a job, or fail the task when the
\* scheduler refuses it.
Dispatch(t) ==
  /\ pc[t] = "dispatch"
  /\ \/ ~Live(t) /\ Return(t) /\ UNCHANGED <<jobs, scheduled, running, refused>>
     \/ /\ Live(t) /\ jobs' = [jobs EXCEPT ![gen[t]] = @ + 1]
        /\ Return(t) /\ UNCHANGED <<scheduled, running, refused>>
     \/ /\ Live(t) /\ refused < Refusals /\ refused' = refused + 1
        /\ scheduled' = FALSE /\ running' = FALSE
        /\ Move(t, "fail", <<"recycle">> \o (IF t = Owner THEN <<"detach">> ELSE ret[t]),
                gen[t], "Stopped")
        /\ UNCHANGED jobs
  /\ UNCHANGED <<generation, state, handle_live, waker_refs, cells, free, clones,
                 polled, history>>

\* fail and complete check the generation, ...
Settle(t) ==
  /\ pc[t] \in {"fail", "complete"}
  /\ IF generation = gen[t]
       THEN Goto(t, IF pc[t] = "fail" THEN "failing" ELSE "completing") ELSE Return(t)
  /\ UNCHANGED <<slot, cells, free, jobs, clones, bounds, history>>

\* ... and the first to take the state away from PENDING goes on: it ...
Decide(t) ==
  /\ pc[t] \in {"failing", "completing"}
  /\ IF state = "PENDING"
       THEN IF pc[t] = "failing" THEN state' = "FAILED" /\ Goto(t, "failed")
                                 ELSE state' = "READY" /\ Goto(t, "completed")
       ELSE Return(t) /\ UNCHANGED state
  /\ UNCHANGED <<generation, scheduled, running, handle_live, waker_refs, cells, free,
                 jobs, clones, bounds, history>>

\* ... clears the cells, each under its lock (the future's waits for a poll to
\* end), ...
ClearCells(t) ==
  /\ \/ /\ pc[t] \in {"failed", "completed"} /\ polling = None
        /\ future' = None /\ UNCHANGED <<result, error>>
        /\ Goto(t, IF pc[t] = "failed" THEN "dropresult" ELSE "noerror")
     \/ /\ pc[t] = "dropresult" /\ result' = None /\ UNCHANGED <<future, error>>
        /\ Goto(t, "seterror")
     \/ /\ pc[t] \in {"seterror", "noerror"} /\ UNCHANGED <<future, result>>
        /\ error' = IF pc[t] = "seterror" THEN cause[t] ELSE None
        /\ Goto(t, "clearrun")
  /\ UNCHANGED <<slot, polling, completed, join_waker, free, jobs, clones, bounds,
                 history>>

\* ... the run state, ...
ClearRun(t) ==
  /\ pc[t] = "clearrun"
  /\ scheduled' = FALSE /\ running' = FALSE
  /\ Goto(t, "wakejoin")
  /\ UNCHANGED <<generation, state, handle_live, waker_refs, cells, free, jobs, clones,
                 bounds, history>>

\* Mutant: the semaphore of a blocked join is not released.
Signal_Forgets(t) ==
  /\ pc[t] = "signal"
  /\ Return(t)
  /\ UNCHANGED <<slot, cells, free, jobs, clones, bounds, history>>

\* ... and wakes whoever joins: wake_join_waker, ...
WakeJoiner(t) ==
  /\ pc[t] = "wakejoin"
  /\ join_waker' = FALSE
  /\ Goto(t, "signal")
  /\ UNCHANGED <<slot, future, polling, result, error, completed, free, jobs, clones,
                 bounds, history>>

\* ... signal_completed.
Signal(t) ==
  /\ pc[t] = "signal"
  /\ completed' = IF completed = None THEN None ELSE 1
  /\ Return(t)
  /\ UNCHANGED <<slot, future, polling, result, error, join_waker, free, jobs, clones,
                 bounds, history>>

\* recycle_slot_if_possible: can_recycle, ...
Recycle(t) ==
  /\ pc[t] = "recycle"
  /\ IF generation = gen[t] /\ ~handle_live /\ waker_refs = 0 /\ ~running
           /\ state \in {"READY", "FAILED"}
       THEN Goto(t, "reset") ELSE Return(t)
  /\ UNCHANGED <<slot, cells, free, jobs, clones, bounds, history>>

\* ... reset_empty: check the generation, ...
Reset(t) ==
  /\ pc[t] = "reset"
  /\ IF generation = gen[t] THEN Goto(t, "empty") ELSE Return(t)
  /\ UNCHANGED <<slot, cells, free, jobs, clones, bounds, history>>

\* ... empty the slot: the cells, whose locks are taken in one step here, ...
EmptyCells(t) ==
  /\ pc[t] = "empty" /\ polling = None
  /\ future' = None /\ result' = None /\ error' = None /\ join_waker' = FALSE
  /\ completed' = IF completed = None THEN None ELSE 0
  /\ Goto(t, "unset")
  /\ UNCHANGED <<slot, polling, free, jobs, clones, bounds, history>>

\* ... then the atomics, the executor's pointer with them, ...
Empty(t) ==
  /\ pc[t] = "unset"
  /\ scheduled' = FALSE /\ running' = FALSE /\ handle_live' = FALSE
  /\ state' = "EMPTY"
  /\ Goto(t, "release")
  /\ UNCHANGED <<generation, waker_refs, cells, free, jobs, clones, bounds, history>>

\* ... and release_slot.
Release(t) ==
  /\ pc[t] = "release"
  /\ free' = (free \/ (generation = gen[t] /\ state = "EMPTY"))
  /\ Return(t)
  /\ UNCHANGED <<slot, cells, jobs, clones, bounds, history>>

\* Mutant: a reference is only released while the task is pending.
DropWaker_Pending(t) ==
  /\ pc[t] = "dropwaker"
  /\ IF state = "PENDING" /\ waker_refs > 0
       THEN waker_refs' = waker_refs - 1
            /\ (IF waker_refs = 1 THEN Goto(t, "recycle") ELSE Return(t))
       ELSE Return(t) /\ UNCHANGED waker_refs
  /\ UNCHANGED <<generation, state, scheduled, running, handle_live, cells, free, jobs,
                 clones, bounds, history>>

\* drop_async_task_waker, release_waker_ref: unless the slot is empty, and with it
\* the waker's pointer to the executor, one reference less of the generation the
\* slot is in, whichever the waker was made for.  The last tries to recycle the slot.
DropWaker(t) ==
  /\ pc[t] = "dropwaker"
  /\ IF state # "EMPTY" /\ waker_refs > 0
       THEN waker_refs' = waker_refs - 1
            /\ (IF waker_refs = 1 THEN Goto(t, "recycle") ELSE Return(t))
       ELSE Return(t) /\ UNCHANGED waker_refs
  /\ UNCHANGED <<generation, state, scheduled, running, handle_live, cells, free, jobs,
                 clones, bounds, history>>

SlotStep(t) == \/ Schedule(t) \/ Mark(t) \/ Dispatch(t) \/ Settle(t) \/ Decide(t)
               \/ ClearCells(t) \/ ClearRun(t) \/ WakeJoiner(t) \/ Signal(t)
               \/ Recycle(t) \/ Reset(t) \/ EmptyCells(t) \/ Empty(t) \/ Release(t)
               \/ DropWaker(t)
-----------------------------------------------------------------------------
(* A worker: run_slot_by_ref. *)

RunSame == UNCHANGED <<generation, state, handle_live, completed, join_waker, free,
                          clones, joined>>

TakeJob(t) ==
  /\ pc[t] = "idle"
  /\ \E g \in 1..Generations :
       /\ jobs[g] > 0 /\ jobs' = [jobs EXCEPT ![g] = @ - 1]
       /\ Move(t, "run", <<>>, g, None)
  /\ UNCHANGED <<slot, cells, free, clones, bounds, history>>

Run(t) ==
  /\ pc[t] = "run"
  /\ IF Live(t) THEN Goto(t, "begin") ELSE Return(t)
  /\ UNCHANGED <<slot, cells, free, jobs, clones, bounds, history>>

\* begin_run clears the mark: wakes from here on ask for another run.
BeginRun(t) ==
  /\ pc[t] = "begin"
  /\ IF running THEN Return(t) /\ UNCHANGED <<scheduled, running>>
                ELSE running' = TRUE /\ scheduled' = FALSE /\ Goto(t, "waker")
  /\ UNCHANGED <<waker_refs, future, polling, result, error, jobs, bounds, woken,
                 ended>> /\ RunSame

\* create_waker.
CreateWaker(t) ==
  /\ pc[t] = "waker"
  /\ IF generation = gen[t] /\ state # "EMPTY"
       THEN waker_refs' = waker_refs + 1 /\ Goto(t, "poll") /\ UNCHANGED running
       ELSE running' = FALSE /\ Return(t) /\ UNCHANGED waker_refs
  /\ UNCHANGED <<scheduled, future, polling, result, error, jobs, bounds, woken,
                 ended>> /\ RunSame

\* AsyncTaskSlot::poll_in_place: a task that is no longer pending is Ready.
Poll(t) ==
  /\ pc[t] = "poll"
  /\ IF Live(t) THEN Goto(t, "lock") ELSE Call(t, "dropwaker", <<"finish_ready">>)
  /\ UNCHANGED <<slot, cells, free, jobs, clones, bounds, history>>

\* The future's cell is locked for the poll; an empty one is an error.
LockFuture(t) ==
  /\ pc[t] = "lock" /\ polling = None
  /\ IF future = None
       THEN /\ CallFor(t, "dropwaker", <<"finish_err">>, "Invalid")
            /\ UNCHANGED <<polling, woken>>
       ELSE polling' = t /\ woken' = FALSE /\ Goto(t, "polling")
  /\ UNCHANGED <<scheduled, running, waker_refs, future, result, error, jobs, bounds,
                 ended>> /\ RunSame

\* The poll returns.  Ready: the future is dropped and its output stored.
PollReady(t) ==
  /\ pc[t] = "polling" /\ polling' = None
  /\ future' = None /\ result' = future /\ End(future, "Ok")
  /\ Call(t, "dropwaker", <<"finish_ready">>)
  /\ UNCHANGED <<scheduled, running, waker_refs, error, jobs, bounds, woken>>
  /\ RunSame

\* A panic: poll_future_contained catches it.
PollPanics(t) ==
  /\ pc[t] = "polling" /\ polling' = None
  /\ End(future, "TaskPanicked")
  /\ CallFor(t, "dropwaker", <<"finish_err">>, "TaskPanicked")
  /\ UNCHANGED <<scheduled, running, waker_refs, future, result, error, jobs, bounds,
                 woken>> /\ RunSame

\* Pending: the future kept a clone of the waker, or asked to run again
\* (a current-task requeue), or counts on a clone it has.
PollPending(t) ==
  /\ pc[t] = "polling" /\ polling' = None
  /\ polled < Polls /\ polled' = polled + 1
  /\ \/ /\ clones' = clones + 1 /\ waker_refs' = waker_refs + 1
        /\ Call(t, "dropwaker", <<"finish">>) /\ UNCHANGED woken
     \/ /\ Call(t, "dropwaker", <<"requeue">>) /\ woken' = TRUE
        /\ UNCHANGED <<clones, waker_refs>>
     \/ /\ clones > 0 /\ Call(t, "dropwaker", <<"finish">>)
        /\ UNCHANGED <<clones, waker_refs, woken>>
  /\ UNCHANGED <<generation, state, scheduled, running, handle_live, future, result,
                 error, completed, join_waker, free, jobs, refused, ended, joined>>

SelfRequeue(t) ==
  /\ pc[t] = "requeue" /\ scheduled' = TRUE /\ Goto(t, "finish")
  /\ UNCHANGED <<running, waker_refs, future, polling, result, error, jobs, bounds,
                 woken, ended>> /\ RunSame

\* Mutant: a wake that arrived during the poll is not replayed.
FinishRun_Forgets(t) ==
  /\ pc[t] \in {"finish", "finish_ready", "finish_err"} /\ running' = FALSE
  /\ CASE pc[t] = "finish" -> Return(t)
       [] pc[t] = "finish_ready" -> Call(t, "complete", <<"recycle">>)
       [] pc[t] = "finish_err" -> Call(t, "fail", <<"recycle">>)
  /\ UNCHANGED <<scheduled, waker_refs, future, polling, result, error, jobs, bounds,
                 woken, ended>> /\ RunSame

\* finish_pending_run ends the run; a task still pending that was marked
\* meanwhile is dispatched again with its mark in place.
FinishRun(t) ==
  /\ pc[t] \in {"finish", "finish_ready", "finish_err"} /\ running' = FALSE
  /\ CASE pc[t] = "finish" -> IF scheduled THEN Goto(t, "dispatch") ELSE Return(t)
       [] pc[t] = "finish_ready" -> Call(t, "complete", <<"recycle">>)
       [] pc[t] = "finish_err" -> Call(t, "fail", <<"recycle">>)
  /\ UNCHANGED <<scheduled, waker_refs, future, polling, result, error, jobs, bounds,
                 woken, ended>> /\ RunSame

WorkerStep(t) == \/ TakeJob(t) \/ Run(t) \/ BeginRun(t) \/ CreateWaker(t) \/ Poll(t)
                 \/ LockFuture(t) \/ PollReady(t) \/ PollPanics(t) \/ PollPending(t)
                 \/ SelfRequeue(t) \/ FinishRun(t)
-----------------------------------------------------------------------------
(* A holder of a clone: the waker's vtable. *)

\* wake (schedule, then release), wake_by_ref (schedule and keep), drop.
UseWaker(t) ==
  /\ pc[t] = "idle" /\ clones > 0 /\ clones' = clones - 1
  /\ \/ \E l \in {"dropwaker", "keep"} : Move(t, "schedule", <<l>>, generation, None)
     \/ Move(t, "dropwaker", <<>>, generation, None)
  /\ UNCHANGED <<slot, cells, free, jobs, bounds, history>>

KeepWaker(t) ==
  /\ pc[t] = "keep" /\ clones' = clones + 1 /\ Return(t)
  /\ UNCHANGED <<slot, cells, free, jobs, bounds, history>>
-----------------------------------------------------------------------------
(* The owner: spawn_with_admission and TaskHandleInner. *)

OwnerSame == UNCHANGED <<generation, state, scheduled, running, waker_refs, future,
                         polling, free, jobs, clones, bounds, woken,
                         ended>>

\* allocate_slot and initialize_for_allocation, ...
Spawn ==
  /\ pc[Owner] = "idle" /\ free /\ state = "EMPTY" /\ generation < Generations
  /\ free' = FALSE
  /\ generation' = generation + 1
  /\ future' = None /\ result' = None /\ error' = None /\ join_waker' = FALSE
  /\ completed' = IF completed = None THEN None ELSE 0
  /\ scheduled' = FALSE /\ running' = FALSE
  /\ handle_live' = TRUE /\ waker_refs' = 0 /\ state' = "PENDING"
  /\ polled' = 0 /\ woken' = FALSE
  /\ Move(Owner, "store", <<>>, generation + 1, None)
  /\ UNCHANGED <<polling, jobs, clones, refused, ended, joined>>

\* ... store_future, schedule_slot.
Store ==
  /\ pc[Owner] = "store" /\ polling = None
  /\ future' = gen[Owner]
  /\ Call(Owner, "schedule", <<"hold">>)
  /\ UNCHANGED <<slot, polling, result, error, completed, join_waker, free, jobs,
                 clones, bounds, history>>

\* The handle is joined, awaited, aborted or dropped.
UseHandle ==
  /\ pc[Owner] = "hold"
  /\ \/ \E l \in {"join", "register", "detach"} : Goto(Owner, l)
     \/ /\ cause[Owner] # "Cancelled"
        /\ CallFor(Owner, "fail", <<"recycle", "hold">>, "Cancelled")
  /\ UNCHANGED <<slot, cells, free, jobs, clones, bounds, history>>

Finished == state \in {"READY", "FAILED"}

\* join: finished, or make the semaphore, look again, and wait for it.
Join ==
  /\ pc[Owner] \in {"join", "ensure", "recheck", "wait"}
  /\ CASE pc[Owner] = "join" -> Goto(Owner, IF Finished THEN "take" ELSE "ensure")
                               /\ UNCHANGED completed
       [] pc[Owner] = "ensure" ->
            /\ completed' = IF completed # None THEN completed
                            ELSE IF Finished THEN 1 ELSE 0
            /\ Goto(Owner, "recheck")
       [] pc[Owner] = "recheck" -> Goto(Owner, IF Finished THEN "take" ELSE "wait")
                               /\ UNCHANGED completed
       [] pc[Owner] = "wait" -> /\ completed = 1 /\ completed' = 0 /\ Goto(Owner, "take")
  /\ UNCHANGED <<handle_live, result, error, join_waker, joined>> /\ OwnerSame

\* poll_join: register the waker, then look; it is polled again when woken.
PollJoin ==
  /\ pc[Owner] \in {"register", "look", "await"}
  /\ CASE pc[Owner] = "register" -> join_waker' = TRUE /\ Goto(Owner, "look")
       [] pc[Owner] = "look" -> Goto(Owner, IF Finished THEN "take" ELSE "await")
                                /\ UNCHANGED join_waker
       [] pc[Owner] = "await" -> ~join_waker /\ Goto(Owner, "register")
                                /\ UNCHANGED join_waker
  /\ UNCHANGED <<handle_live, result, error, completed, joined>> /\ OwnerSame

\* take_result.
TakeResult ==
  /\ pc[Owner] = "take"
  /\ joined' = [joined EXCEPT ![gen[Owner]] =
        CASE generation = gen[Owner] /\ state = "READY" ->
               IF result = gen[Owner] THEN "Ok" ELSE "Invalid"
          [] generation = gen[Owner] /\ state = "FAILED" ->
               IF error = None THEN "Stopped" ELSE error
          [] OTHER -> "Stopped"]
  /\ result' = IF state = "READY" THEN None ELSE result
  /\ error' = IF state = "FAILED" THEN None ELSE error
  /\ Goto(Owner, "detach")
  /\ UNCHANGED <<handle_live, completed, join_waker>> /\ OwnerSame

\* detach_handle.
Detach ==
  /\ pc[Owner] = "detach"
  /\ handle_live' = IF generation = gen[Owner] THEN FALSE ELSE handle_live
  /\ Goto(Owner, "recycle")
  /\ UNCHANGED <<result, error, completed, join_waker, joined>> /\ OwnerSame

OwnerStep == Spawn \/ Store \/ UseHandle \/ Join \/ PollJoin \/ TakeResult \/ Detach

Next == \/ \E t \in Threads : SlotStep(t)
        \/ \E t \in Workers : WorkerStep(t)
        \/ \E t \in Wakers : UseWaker(t) \/ KeepWaker(t)
        \/ OwnerStep

\* Carriers run, futures return from poll, and a call into the executor or a
\* join that can go on does; nobody is obliged to wake, abort or join.
Spec == /\ Init /\ [][Next]_vars
        /\ \A t \in Threads : WF_vars(SlotStep(t))
        /\ \A t \in Workers : WF_vars(WorkerStep(t))
        /\ WF_vars(Join \/ PollJoin \/ TakeResult \/ Detach \/ Store)
-----------------------------------------------------------------------------
At(ls) == {t \in Threads : pc[t] \in ls /\ gen[t] = generation}
Current == IF generation = 0 THEN 0 ELSE jobs[generation]

\* Runs of a pending task never overlap: begin_run admits a worker only when
\* the one before has passed finish_pending_run.
RunsDisjoint == state = "PENDING" =>
  Cardinality(At({"waker", "poll", "lock", "polling", "requeue", "finish"})
              \cup {t \in Workers : pc[t] \in {"dropwaker"} /\ gen[t] = generation}) <= 1

\* While a task is pending, its runs are disjoint and it has at most one job: on
\* its way to the carriers, queued, or taken and not yet begun.  "racing
\* external wakes cannot duplicate ... the requeue" (run_slot_by_ref).
OneJob ==
  /\ RunsDisjoint
  /\ state = "PENDING" => Current + Cardinality(At({"dispatch", "run", "begin"})) <= 1

\* A wake of a pending task is never lost: a job is coming, or a run that has
\* not polled yet, or a run that will find the mark and dispatch again, or
\* somebody is about to settle the task.  "... or lose the requeue".
WakeNotLost == woken /\ state = "PENDING" =>
  \/ Current > 0
  \/ At({"mark", "dispatch", "run", "begin", "waker", "poll", "lock", "requeue",
         "fail", "failing", "complete", "completing"}) # {}
  \/ \E t \in Workers : /\ gen[t] = generation
                        /\ pc[t] \in {"polling", "dropwaker", "finish", "recycle"}
                        /\ scheduled \/ "requeue" \in {ret[t][i] : i \in DOMAIN ret[t]}
  \/ \E t \in Workers : /\ gen[t] = generation
                        /\ \E i \in DOMAIN ret[t] :
                             ret[t][i] \in {"finish_ready", "finish_err"}
  \/ At({"finish_ready", "finish_err"}) # {}

\* The references counted are the ones that exist: the clones outside, the one
\* of each run between create_waker and its drop, and those in a waker's hands.
\* can_recycle relies on it.  An empty slot is left out: a worker that passed its
\* checks before the recycling may make a waker of it, which is then not released.
RefsExact == state # "EMPTY" =>
  waker_refs = clones
     + Cardinality(At({"poll", "lock", "polling"}))
     + Cardinality({t \in Workers : pc[t] = "dropwaker"})
     + Cardinality({t \in Wakers : pc[t] \in {"dropwaker", "keep"}
                       \/ \E i \in DOMAIN ret[t] : ret[t][i] \in {"dropwaker", "keep"}})

\* Between the state's change and wake_join_waker.
Settling == {"failed", "completed", "dropresult", "seterror", "noerror", "clearrun", "wakejoin"}

\* Nobody waits for a task that is over, however the join raced with its end:
\* while the semaphore of a blocked join is down, or the waker of a polled one
\* still registered, the thread that settled the task has its signals ahead.
JoinNotLost ==
  Finished =>
    /\ pc[Owner] = "wait" /\ completed # 1 => At(Settling \cup {"signal"}) # {}
    /\ pc[Owner] = "await" /\ join_waker => At(Settling) # {}

\* "Blocks until the task completes and returns its result" (TaskHandle::join):
\* a task whose future returned Ready joins with its output, unless aborted.
JoinReturnsResult == \A g \in 1..Generations :
  ended[g] = "Ok" => joined[g] \in {None, "Ok", "Cancelled"}
=============================================================================
