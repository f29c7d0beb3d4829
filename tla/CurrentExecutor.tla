--------------------------- MODULE CurrentExecutor ---------------------------
(***************************************************************************)
(* The async executor driven by its own thread (SchedulerBinding::Current):*)
(* a registry of task slots, a bounded ring of ready jobs, and the reactor *)
(* state that turns readiness and timers into wakes.  Everything runs on   *)
(* one thread, so a call of the executor is one action; what interleaves   *)
(* is the user's code (in and between polls, polls nested through join),   *)
(* the clock and the sources.  A blocking drive is two actions, before and *)
(* after the call that sleeps.                                             *)
(*                                                                         *)
(* Assumed of the user's code: a task polls one wait at a time and does    *)
(* not hand it to another task, a yield ends the poll, Pending is returned *)
(* only with a wake arranged, and no task is aborted while it is polled.   *)
(***************************************************************************)
EXTENDS Naturals, FiniteSets, FiniteSetsExt, Sequences, SequencesExt

CONSTANTS Capacity,     \* slots of the registry, and places of the ready ring
          EventBatch,   \* max_events, or REACTOR_EVENT_BATCH
          Workloads,    \* what the user's code does, each with its bounds
          None

VARIABLES bound,    \* depth of nested polls, sources waited for, generations (tasks
                    \* of one slot), clones (wakers of one task held), time (the clock)
          ex,       \* slot, free, ring, waits, outcomes, poller of the ExecutorCore
          stack,    \* the slots being polled, innermost last
          context,  \* the thread's async context names the innermost poll
          blocked,  \* None, or the blocking call: its poller and its deadline
          ready,    \* the sources that are ready now
          now,
          stopped   \* the executor was dropped

vars == <<bound, ex, stack, context, blocked, ready, now, stopped>>
world == <<bound, ready, now>>

Slots == 1..Capacity
Polled == Last(stack)
Idle == stack = <<>>
UserCode == blocked = None          \* the thread is not inside a blocking call

EmptySlot(g) == [gen |-> g, state |-> "EMPTY", scheduled |-> FALSE, running |-> FALSE,
                 handle |-> FALSE, refs |-> 0, join_waker |-> None,
                 wait |-> None,        \* the registration the task's future holds
                 awaits |-> None]      \* history: the task whose completion it awaits

\* AsyncReactorWaitEntry.  An outcome is the entry it resolved: the code keeps its kind.
Wait(g, kind, what) == [gen |-> g, kind |-> kind, what |-> what]

Init ==
  /\ bound \in Workloads
  /\ ex = [slot |-> [i \in Slots |-> EmptySlot(0)],
           free |-> [k \in Slots |-> Capacity + 1 - k],
           ring |-> <<>>,
           waits |-> [i \in Slots |-> None],
           outcomes |-> [i \in Slots |-> None],
           poller |-> {}]
  /\ stack = <<>> /\ context = FALSE /\ blocked = None
  /\ ready = {} /\ now = 0 /\ stopped = FALSE

LiveJob(e, job) == e.slot[job.i].gen = job.gen /\ e.slot[job.i].state = "PENDING"
Finished(e, i) == e.slot[i].state \in {"READY", "FAILED"}

-----------------------------------------------------------------------------
(* The executor's own operations, as functions of its state.               *)

\* Mutant: the outcome survives the wait it belongs to.
ClearWait_KeepsOutcome(e, i, g) ==
  LET w == e.waits[i] IN
  IF w = None \/ w.gen # g THEN e
  ELSE [e EXCEPT !.waits[i] = None,
                 !.poller = IF w.kind = "ready" THEN @ \ {w.what} ELSE @]

ClearWait(e, i, g) ==
  LET w == e.waits[i]
      mine == w # None /\ w.gen = g
  IN [e EXCEPT !.waits[i] = IF mine THEN None ELSE @,
               !.poller = IF mine /\ w.kind = "ready" THEN @ \ {w.what} ELSE @,
               !.outcomes[i] = None]

\* Dropping a wait future, alone or with the future that holds it.
DropWaitOf(e, i) ==
  IF e.slot[i].wait = None THEN e
  ELSE [ClearWait(e, i, e.slot[i].gen) EXCEPT !.slot[i].wait = None]

RECURSIVE Recycle(_, _), WakeJoiner(_, _), Dispatch(_, _)

can_recycle(e, i) ==
  Finished(e, i) /\ ~e.slot[i].handle /\ e.slot[i].refs = 0 /\ ~e.slot[i].running

\* Mutant: the last release of a waker leaves the slot to the handle.
Release_Leaves(e, i) == [e EXCEPT !.slot[i].refs = @ - 1]

\* release_waker_ref, and the recycling its last release may bring.
Release(e, i) ==
  LET f == [e EXCEPT !.slot[i].refs = @ - 1] IN
  IF f.slot[i].refs = 0 THEN Recycle(f, i) ELSE f

SetJoinWaker(e, i, j) ==
  LET old == e.slot[i].join_waker
      f == [e EXCEPT !.slot[i].join_waker = j]
  IN IF old = None THEN f ELSE Release(f, old)

\* recycle_slot_if_possible: clear_wait, reset_empty, release_slot.
Recycle(e, i) ==
  IF ~can_recycle(e, i) THEN e
  ELSE LET f == SetJoinWaker(ClearWait(e, i, e.slot[i].gen), i, None)
       IN [f EXCEPT !.slot[i] = EmptySlot(f.slot[i].gen),
                    !.free = IF Contains(@, i) THEN @ ELSE Append(@, i)]

Stop(e, i) == [e EXCEPT !.slot[i].scheduled = FALSE, !.slot[i].running = FALSE]

\* complete and fail: the future is dropped, the joiner woken.
Settle(e, i, state) ==
  IF e.slot[i].state # "PENDING" THEN e
  ELSE LET f == DropWaitOf([e EXCEPT !.slot[i].state = state, !.slot[i].awaits = None], i)
       IN WakeJoiner(Stop(f, i), i)

\* dispatch_marked_slot_with_lease: a full ring fails the task.
Dispatch(e, i) ==
  IF e.slot[i].state # "PENDING" THEN e
  ELSE IF Len(e.ring) < Capacity
       THEN [e EXCEPT !.ring = Append(@, [i |-> i, gen |-> e.slot[i].gen])]
       ELSE Recycle(Settle(Stop(e, i), i, "FAILED"), i)

\* Mutant: a wake queues its task although it is being polled.
Schedule_WhilePolled(e, i, g) ==
  IF e.slot[i].gen # g \/ e.slot[i].state # "PENDING" \/ e.slot[i].scheduled THEN e
  ELSE Dispatch([e EXCEPT !.slot[i].scheduled = TRUE], i)

\* schedule_slot: only the mark of an idle, unmarked task queues a job.
Schedule(e, i, g) ==
  IF e.slot[i].gen # g \/ e.slot[i].state # "PENDING" \/ e.slot[i].scheduled THEN e
  ELSE LET f == [e EXCEPT !.slot[i].scheduled = TRUE]
       IN IF e.slot[i].running THEN f ELSE Dispatch(f, i)

WakeJoiner(e, i) ==
  LET j == e.slot[i].join_waker IN
  IF j = None THEN e
  ELSE Release(Schedule([e EXCEPT !.slot[i].join_waker = None], j, e.slot[j].gen), j)

\* An event or a timer resolved the wait of slot i.
Deliver(e, i) ==
  LET w == e.waits[i]
      f == [e EXCEPT !.waits[i] = None, !.outcomes[i] = w,
                     !.poller = IF w.kind = "ready" THEN @ \ {w.what} ELSE @]
  IN Schedule(f, i, w.gen)

Due(e, i) == e.waits[i] # None /\ e.waits[i].kind = "sleep" /\ e.waits[i].what <= now

CollectDue(e) ==
  FoldLeft(LAMBDA f, i : IF Due(f, i) THEN Deliver(f, i) ELSE f, e, [k \in Slots |-> k])

WaitsFor(e, s) ==
  {i \in Slots : e.waits[i] # None /\ e.waits[i].kind = "ready" /\ e.waits[i].what = s}

\* resolve_reactor_events: the first wait with the event's key.
Resolve(e, events) ==
  FoldLeft(LAMBDA f, s : IF WaitsFor(f, s) = {} THEN f
                         ELSE Deliver(f, Min(WaitsFor(f, s))), e, events)

ReadinessWaits(e) == {i \in Slots : e.waits[i] # None /\ e.waits[i].kind = "ready"}
Deadlines(e) ==
  {e.waits[i].what : i \in {j \in Slots : e.waits[j] # None /\ e.waits[j].kind = "sleep"}}
next_timer_deadline(e) == IF Deadlines(e) = {} THEN None ELSE Min(Deadlines(e))

\* What one poll may report: up to a batch of the ready keys, in any order.
Reports(e) ==
  LET keys == e.poller \cap ready
      count == Min({EventBatch, Cardinality(keys)})
  IN UNION {SetToSeqs(S) : S \in kSubset(count, keys)}

-----------------------------------------------------------------------------
(* Spawning, the handle and the wakers: the user's code, in a poll or not. *)

\* allocate_slot: the top of the free stack, in its next generation.
Allocated(i) ==
  [ex EXCEPT !.free = Front(@),
             !.slot[i] = [EmptySlot(@.gen + 1) EXCEPT !.state = "PENDING", !.handle = TRUE]]

CanSpawn == UserCode /\ ~stopped /\ ex.free # <<>> /\ ex.slot[Last(ex.free)].gen < bound.generations

Spawn ==
  /\ CanSpawn
  /\ LET i == Last(ex.free)
         e == Schedule(Allocated(i), i, Allocated(i).slot[i].gen)
     IN ex' = IF e.slot[i].state = "PENDING" THEN e     \* else the ring refused it
              ELSE Recycle([e EXCEPT !.slot[i].handle = FALSE], i)
  /\ UNCHANGED <<stack, context, blocked, stopped, world>>

\* store_future finds no room: the slot is reset and given back.
SpawnFails ==
  /\ CanSpawn
  /\ LET i == Last(ex.free)
     IN ex' = [Allocated(i) EXCEPT !.slot[i] = EmptySlot(@.gen), !.free = Append(@, i)]
  /\ UNCHANGED <<stack, context, blocked, stopped, world>>

\* The handle of i is with the user's code, not inside a future that awaits it.
Owned(i) ==
  /\ ex.slot[i].handle
  /\ \A j \in Slots : ex.slot[j].awaits # [i |-> i, gen |-> ex.slot[i].gen]

Abort(i) ==
  /\ UserCode /\ Owned(i) /\ ~ex.slot[i].running
  /\ ex' = Recycle(Settle(ClearWait(ex, i, ex.slot[i].gen), i, "FAILED"), i)
  /\ UNCHANGED <<stack, context, blocked, stopped, world>>

\* Dropping the handle, and join once the task is finished: detach_handle.
Detach(i) ==
  /\ UserCode /\ Owned(i)
  /\ ex' = Recycle([ex EXCEPT !.slot[i].handle = FALSE], i)
  /\ UNCHANGED <<stack, context, blocked, stopped, world>>

JoinWakersOf(i) == {k \in Slots : ex.slot[k].join_waker = i}
Clones(i) ==
  ex.slot[i].refs - Cardinality(JoinWakersOf(i)) - (IF ex.slot[i].running THEN 1 ELSE 0)

CloneWaker ==
  /\ UserCode /\ ~Idle /\ Clones(Polled) < bound.clones
  /\ ex' = [ex EXCEPT !.slot[Polled].refs = @ + 1]
  /\ UNCHANGED <<stack, context, blocked, stopped, world>>

Wake(i) ==
  /\ UserCode /\ Clones(i) > 0
  /\ ex' = Release(Schedule(ex, i, ex.slot[i].gen), i)
  /\ UNCHANGED <<stack, context, blocked, stopped, world>>

WakeByRef(i) ==
  /\ UserCode /\ ex.slot[i].refs > Cardinality(JoinWakersOf(i))
  /\ ex' = Schedule(ex, i, ex.slot[i].gen)
  /\ UNCHANGED <<stack, context, blocked, stopped, world>>

DropWaker(i) ==
  /\ UserCode /\ Clones(i) > 0
  /\ ex' = Release(ex, i)
  /\ UNCHANGED <<stack, context, blocked, stopped, world>>

\* Dropping the executor: every slot is stopped, none is recycled.
Shutdown ==
  /\ UserCode /\ Idle /\ ~stopped
  /\ LET ForceShutdown(e, i) ==
           Stop(Settle(ClearWait(e, i, e.slot[i].gen), i, "FAILED"), i)
     IN ex' = FoldLeft(LAMBDA e, i : IF e.slot[i].gen = 0 THEN e ELSE ForceShutdown(e, i),
                       ex, [k \in Slots |-> k])
  /\ stopped' = TRUE
  /\ UNCHANGED <<stack, context, blocked, world>>

-----------------------------------------------------------------------------
(* The polls.                                                              *)

\* Mutant: a job of an ended generation runs the task now in its slot.
RunNext_AnyGeneration ==
  /\ UserCode /\ ~stopped /\ ex.ring # <<>> /\ Len(stack) < bound.depth
  /\ LET job == Head(ex.ring)
         e == [ex EXCEPT !.ring = Tail(@)]
     IN IF ex.slot[job.i].state = "PENDING" /\ ~ex.slot[job.i].running
        THEN /\ ex' = [e EXCEPT !.slot[job.i].running = TRUE, !.slot[job.i].scheduled = FALSE,
                                !.slot[job.i].refs = @ + 1, !.slot[job.i].awaits = None]
             /\ stack' = Append(stack, job.i) /\ context' = TRUE
        ELSE ex' = e /\ UNCHANGED <<stack, context>>
  /\ UNCHANGED <<blocked, stopped, world>>

\* run_next and run_slot_by_ref up to the poll.
RunNext ==
  /\ UserCode /\ ~stopped /\ ex.ring # <<>> /\ Len(stack) < bound.depth
  /\ LET job == Head(ex.ring)
         e == [ex EXCEPT !.ring = Tail(@)]
     IN IF LiveJob(ex, job) /\ ~ex.slot[job.i].running
        THEN /\ ex' = [e EXCEPT !.slot[job.i].running = TRUE, !.slot[job.i].scheduled = FALSE,
                                !.slot[job.i].refs = @ + 1, !.slot[job.i].awaits = None]
             /\ stack' = Append(stack, job.i) /\ context' = TRUE
        ELSE ex' = e /\ UNCHANGED <<stack, context>>
  /\ UNCHANGED <<blocked, stopped, world>>

StartWait(kind, what) ==
  /\ UserCode /\ ~Idle /\ context /\ ex.slot[Polled].wait = None
  /\ LET w == Wait(ex.slot[Polled].gen, kind, what)
     IN ex' = [ex EXCEPT !.waits[Polled] = w, !.outcomes[Polled] = None,
                         !.slot[Polled].wait = w,
                         !.poller = IF kind = "ready" THEN @ \cup {what} ELSE @]
  /\ UNCHANGED <<stack, context, blocked, stopped, world>>

\* A source another wait has registered is refused by the poller.
WaitForReadiness(s) == s \notin ex.poller /\ StartWait("ready", s)
SleepUntil(d) == d > now /\ StartWait("sleep", d)

Elapsed(w) == w.kind = "sleep" /\ w.what <= now

\* The wait future polled again: its deadline is past, or its outcome is there.
ResolveWait ==
  /\ UserCode /\ ~Idle /\ ex.slot[Polled].wait # None
  /\ LET w == ex.slot[Polled].wait
         o == ex.outcomes[Polled]
     IN \/ Elapsed(w) /\ ex' = DropWaitOf(ex, Polled)
        \/ /\ ~Elapsed(w) /\ o # None
           /\ ex' = [ex EXCEPT !.outcomes[Polled] = None,
                               !.slot[Polled].wait = IF o.kind = w.kind THEN None ELSE @]
  /\ UNCHANGED <<stack, context, blocked, stopped, world>>

DropWait ==
  /\ UserCode /\ ~Idle /\ ex.slot[Polled].wait # None
  /\ ex' = DropWaitOf(ex, Polled)
  /\ UNCHANGED <<stack, context, blocked, stopped, world>>

\* poll_join: the waker is registered first, then the state looked at.
PollJoin(i) ==
  /\ UserCode /\ ~Idle /\ i # Polled /\ Owned(i)
  /\ LET j == Polled
         e == IF ex.slot[i].join_waker = j THEN ex
              ELSE SetJoinWaker([ex EXCEPT !.slot[j].refs = @ + 1], i, j)
     IN ex' = IF Finished(e, i) THEN Recycle([e EXCEPT !.slot[i].handle = FALSE], i)
              ELSE [e EXCEPT !.slot[j].awaits = [i |-> i, gen |-> e.slot[i].gen]]
  /\ UNCHANGED <<stack, context, blocked, stopped, world>>

\* The poll's own waker and the thread's context are gone before the verdict.
PollEnds(e, i) == [Release(e, i) EXCEPT !.slot[i].running = FALSE]

EndPoll(state) ==
  /\ UserCode /\ ~Idle
  /\ ex' = Recycle(Settle(PollEnds(ex, Polled), Polled, state), Polled)
  /\ stack' = Front(stack) /\ context' = FALSE
  /\ UNCHANGED <<blocked, stopped, world>>

\* Its wait was pending when polled; an outcome since then has marked the task.
Unresolved(i) == ex.outcomes[i] = None \/ ex.slot[i].scheduled

\* Mutant: the mark of a wake that came during the poll is not replayed.
EndPending_Forgets(requeue) ==
  /\ UserCode /\ ~Idle /\ Unresolved(Polled)
  /\ LET i == Polled
         e == PollEnds(ex, i)
     IN /\ requeue \/ e.slot[i].scheduled \/ e.slot[i].wait # None \/ e.slot[i].refs > 0
        /\ ex' = IF requeue THEN Dispatch([e EXCEPT !.slot[i].scheduled = TRUE], i)
                 ELSE [e EXCEPT !.slot[i].scheduled = FALSE]
  /\ stack' = Front(stack) /\ context' = FALSE
  /\ UNCHANGED <<blocked, stopped, world>>

EndPending(requeue) ==
  /\ UserCode /\ ~Idle /\ Unresolved(Polled)
  /\ LET i == Polled
         e == PollEnds(ex, i)
         marked == requeue \/ e.slot[i].scheduled
     IN /\ marked \/ e.slot[i].wait # None \/ e.slot[i].refs > 0
        /\ ex' = IF marked THEN Dispatch([e EXCEPT !.slot[i].scheduled = TRUE], i) ELSE e
  /\ stack' = Front(stack) /\ context' = FALSE
  /\ UNCHANGED <<blocked, stopped, world>>

-----------------------------------------------------------------------------
(* The reactor, which its callers drive when there is nothing to run.      *)

\* join, block_on and the pump call drive_current_once until it has found no job.
NothingQueued == ex.ring = <<>>

Drive(blocking) ==
  /\ UserCode /\ ~stopped /\ NothingQueued
  /\ LET e == CollectDue(ex)
         deadline == next_timer_deadline(e)
         waiters == ReadinessWaits(e) # {}
     IN \/ /\ ~waiters /\ ~(blocking /\ deadline # None)
           /\ ex' = e /\ UNCHANGED blocked
        \/ /\ blocking /\ (waiters \/ deadline # None)
           /\ ex' = e /\ blocked' = [poll |-> waiters, until |-> deadline]
        \/ /\ ~blocking /\ waiters
           /\ \E events \in Reports(e) : ex' = CollectDue(Resolve(e, events))
           /\ UNCHANGED blocked
  /\ UNCHANGED <<stack, context, stopped, world>>

TimedOut == blocked.until # None /\ blocked.until <= now

DriveReturns ==
  /\ blocked # None
  /\ \/ blocked.poll /\ (ex.poller \cap ready # {} \/ TimedOut)
        /\ \E events \in Reports(ex) : ex' = CollectDue(Resolve(ex, events))
     \/ ~blocked.poll /\ TimedOut /\ ex' = CollectDue(ex)
  /\ blocked' = None
  /\ UNCHANGED <<stack, context, stopped, world>>

\* external: a source becomes ready or stops being so, the clock advances.
Turn(s) ==
  /\ ready' = IF s \in ready THEN ready \ {s} ELSE ready \cup {s}
  /\ UNCHANGED <<bound, ex, stack, context, blocked, now, stopped>>

Tick ==
  /\ now < bound.time /\ now' = now + 1
  /\ UNCHANGED <<bound, ex, stack, context, blocked, ready, stopped>>

Next ==
  \/ Spawn \/ SpawnFails \/ CloneWaker \/ Shutdown
  \/ \E i \in Slots : Abort(i) \/ Detach(i) \/ Wake(i) \/ WakeByRef(i) \/ DropWaker(i)
  \/ RunNext \/ ResolveWait \/ DropWait
  \/ \E s \in bound.sources : WaitForReadiness(s) \/ Turn(s)
  \/ \E d \in 1..bound.time : SleepUntil(d)
  \/ \E i \in Slots : PollJoin(i)
  \/ \E state \in {"READY", "FAILED"} : EndPoll(state)
  \/ \E b \in BOOLEAN : EndPending(b) \/ Drive(b)
  \/ DriveReturns \/ Tick

Spec == Init /\ [][Next]_vars

-----------------------------------------------------------------------------
(* What must hold of the executor between any two calls.                   *)

Pending(i) == ex.slot[i].state = "PENDING"

\* AsyncTaskRegistry: a slot is on the free stack exactly once while it is
\* empty and never otherwise, and a finished task keeps its slot only while a
\* handle or a waker of it is left (release_slot, recycle_slot_if_possible).
\* A slot nobody refers to that is not recycled is capacity lost for good.
SlotsAccounted ==
  /\ IsInjective(ex.free)
  /\ \A i \in Slots : Contains(ex.free, i) <=> ex.slot[i].state = "EMPTY"
  /\ stopped \/ \A i \in Slots : ~can_recycle(ex, i)

\* CurrentQueue: of a task that is not being polled the ring holds exactly one
\* live job if it is marked scheduled and none otherwise, and none of one that
\* is polled.  So a wake is refused with Overflow (the ring has a place per
\* slot) only while jobs of ended tasks fill the ring.
JobsExact ==
  /\ Len(ex.ring) <= Capacity
  /\ \A i \in Slots :
       LET live == {k \in DOMAIN ex.ring : ex.ring[k].i = i /\ LiveJob(ex, ex.ring[k])}
       IN Cardinality(live) = IF Pending(i) /\ ex.slot[i].scheduled /\ ~ex.slot[i].running
                              THEN 1 ELSE 0

\* ExecutorReactorState: the keys in the poller are those of the registered
\* waits, and every wait and every outcome kept for a slot belongs to the wait
\* future its task holds now, whatever was dropped, aborted or recycled in
\* between (clear_wait, Drop of the wait futures, take_wait_outcome, which does
\* not look at the generation).
RegistrationsExact ==
  /\ ex.poller = {ex.waits[i].what : i \in ReadinessWaits(ex)}
  /\ Cardinality(ex.poller) = Cardinality(ReadinessWaits(ex))
  /\ \A i \in Slots : \A w \in {ex.waits[i], ex.outcomes[i]} \ {None} :
       Pending(i) /\ w = ex.slot[i].wait

\* A task that holds a wait is still registered for it, or its outcome is
\* stored and the task queued or being polled: collect_due_timers and
\* resolve_reactor_events take the entry, store the outcome and schedule the
\* task, and no later call erases one without the other.
WaitNotLost ==
  \A i \in Slots : Pending(i) /\ ex.slot[i].wait # None /\ ~ex.slot[i].running =>
    \/ ex.waits[i] # None /\ ex.outcomes[i] = None
    \/ ex.waits[i] = None /\ ex.outcomes[i] # None /\ ex.slot[i].scheduled

\* A task that awaits another's handle is registered with it while it is
\* pending and is queued once it has finished, failed, been refused by the ring
\* or been stopped (poll_join against complete and fail).
JoinerWoken ==
  \A j \in Slots :
    LET a == ex.slot[j].awaits IN
    a # None /\ Pending(j) /\ ~ex.slot[j].running =>
      \/ ex.slot[j].scheduled
      \/ ex.slot[a.i].gen = a.gen /\ Pending(a.i) /\ ex.slot[a.i].join_waker = j

\* A pending task outside its poll has whatever it waits for ahead of it, be it
\* an event, a deadline or another task (finish_pending_run replays the wakes
\* that came during the poll).
WakeNotLost == WaitNotLost /\ JoinerWoken

\* A poll borrows the future from a cell that, on the thread's own executor,
\* takes no lock (ExecutorCell::with).  So until the poll returns nothing may
\* poll that future again, drop it or reuse its slot: not a nested poll, not a
\* wake of the task, not a ring too full to take it.
PollUndisturbed ==
  /\ IsInjective(stack)
  /\ \A i \in Slots : ex.slot[i].running <=> i \in Range(stack)
  /\ \A i \in Range(stack) : Pending(i)
=============================================================================
