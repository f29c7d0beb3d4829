---------------------------- MODULE ReactorDriver ----------------------------
(***************************************************************************)
(* The reactor of an executor with thread workers: tasks register waits in *)
(* shared tables, a thread of its own (run_reactor_driver) registers their *)
(* sources with the poller, sleeps in it and stores the outcomes.  Every   *)
(* table has its own lock, so one action is one locked access, together    *)
(* with the calls on the poller next to it: only the driver has the poller *)
(* in hand.  A pipe (signalled) wakes the driver out of the poller.        *)
(*                                                                         *)
(* What schedules and polls the tasks is AsyncTask and HostedScheduler;    *)
(* here a mark (scheduled) is followed by a poll.  A task holds one wait   *)
(* at a time and may drop it unanswered.                                   *)
(*                                                                         *)
(* Two things are coarser than the locks.  A task whose dispatch is        *)
(* refused is failed and its wait cleared in one step (Settled).  And no   *)
(* other thread aborts a task that waits (ExecutorTaskHandle::abort clears *)
(* its wait, fails it and recycles its slot): AsyncTask has the abort,     *)
(* without the waits.                                                      *)
(***************************************************************************)
EXTENDS ExecutorShutdown, Naturals, FiniteSets, FiniteSetsExt

CONSTANTS EventBatch,   \* max_events, or REACTOR_EVENT_BATCH
          Pipe,         \* the key of the wake signal
          Workloads     \* the values of bound to look at

VARIABLES bound,        \* slots, sources of each, waits of one task, generations, time, full rings
          waits, outcomes, pending_deregister,
          poller,       \* the keys registered: a key is its source
          signalled,    \* the pipe holds a byte
          driver,       \* pc, slot, the wait in hand, events to resolve, deadline
          task,         \* slot -> pc, generation, mark, the wait its future holds
          closer,       \* the thread in ExecutorCore::shutdown
          ready_sources, now,
          fault         \* history: what the races named below have done

reactor == <<waits, outcomes, pending_deregister>>
outside == <<bound, ready_sources, now>>
reactor_vars == <<reactor, poller, signalled, driver, task, closer, outside, fault>>

SlotCount == bound.slots
Slots == 1..SlotCount
NoFault == [erased |-> {}, crossed |-> {}, leaked |-> {}]

\* What a wait may be for, a source or a time, and the entries of the tables.
Wants == Nat \cup UNION {UNION {b.sources[i] : i \in 1..b.slots} : b \in Workloads}
Entries(kinds) == [kind : kinds, what : Wants, gen : Nat, n : Nat]
Kinds == {"pending", "ready", "sleep", "error"}

ASSUME WorkloadAssumption ==
  /\ \A b \in Workloads : b.slots \in Nat \ {0} /\ b.generations \in Nat /\ b.time \in Nat
  /\ None \notin Wants /\ None \notin Entries(Kinds)

\* AsyncReactorWaitEntry; n numbers the task's waits, for the properties.
Entry(kind, what, g, n) == [kind |-> kind, what |-> what, gen |-> g, n |-> n]
Kind(w) == IF w = None THEN "none" ELSE w.kind

NewTask(g) == [pc |-> "idle", gen |-> g, live |-> TRUE, scheduled |-> TRUE,
               wait |-> None, n |-> 0, key |-> None, then |-> "poll"]

RInit ==
  /\ bound \in Workloads
  /\ waits = [i \in Slots |-> None] /\ outcomes = [i \in Slots |-> None]
  /\ pending_deregister = {} /\ poller = {} /\ signalled = FALSE
  /\ driver = [pc |-> "off", i |-> 1, hand |-> None, events |-> {}, until |-> None,
               now |-> 0, then |-> "look", waiters |-> FALSE]
  /\ task = [i \in Slots |-> [NewTask(0) EXCEPT !.live = FALSE, !.scheduled = FALSE]]
  /\ closer = [pc |-> "up", i |-> 1, key |-> None]
  /\ ready_sources = {} /\ now = 0 /\ fault = NoFault

EntryOf(i, w) == waits[i] # None /\ waits[i].gen = w.gen /\ waits[i].n = w.n
TaskAt(i, l) == task' = [task EXCEPT ![i].pc = l]
Holds(i) == task[i].wait # None
Elapsed(w) == w.kind = "sleep" /\ w.what <= now

-----------------------------------------------------------------------------
(* A task: spawned, polled by some worker, waiting, finished.              *)

Spawn(i) ==
  /\ ~task[i].live /\ task[i].pc = "idle" /\ task[i].gen < bound.generations
  /\ ~shutdown_requested
  /\ task' = [task EXCEPT ![i] = NewTask(task[i].gen + 1)]
  /\ UNCHANGED <<reactor, poller, signalled, driver, closer, outside, flags, fault>>

PollTask(i) ==
  /\ task[i].pc = "idle" /\ task[i].live /\ task[i].scheduled /\ ~drained
  /\ task' = [task EXCEPT ![i].pc = "poll", ![i].scheduled = FALSE]
  /\ UNCHANGED <<reactor, poller, signalled, driver, closer, outside, flags, fault>>

\* ensure_reactor_driver, then the entry is published under the lock of waits.
StartWait(i, kind, what) ==
  /\ task[i].pc = "poll" /\ ~Holds(i) /\ task[i].n < bound.waits
  /\ LET w == Entry(kind, what, task[i].gen, task[i].n + 1)
     IN /\ waits' = [waits EXCEPT ![i] = w]
        /\ task' = [task EXCEPT ![i].pc = "started", ![i].wait = w, ![i].n = w.n]
  /\ fault' = [fault EXCEPT !.erased = @ \ {i}, !.crossed = @ \ {i},
                            !.leaked = IF Kind(waits[i]) = "ready" THEN @ \cup {waits[i].what} ELSE @]
  /\ driver' = [driver EXCEPT !.pc = IF @ = "off" THEN "check" ELSE @]
  /\ UNCHANGED <<outcomes, pending_deregister, poller, signalled, closer, outside, flags>>

QueueReadinessWait(i, s) == StartWait(i, "pending", s)
RegisterSleepWait(i, d) == d > now /\ StartWait(i, "sleep", d)

\* Mutant: a timer is registered without a word to the driver.
ResetOutcome_TimerSilent(i) ==
  /\ task[i].pc = "started"
  /\ outcomes' = [outcomes EXCEPT ![i] = None]
  /\ fault' = fault
  /\ task' = [task EXCEPT ![i].pc = IF Kind(task[i].wait) = "sleep" THEN "pending" ELSE "signal",
                          ![i].then = "pending"]
  /\ UNCHANGED <<waits, pending_deregister, poller, signalled, driver, closer, outside, flags>>

\* The second lock: an outcome stored since the first one is gone, which matters
\* when the entry it answers is gone as well.
ResetOutcome(i) ==
  /\ task[i].pc = "started"
  /\ outcomes' = [outcomes EXCEPT ![i] = None]
  /\ fault' = IF outcomes[i] # None /\ ~EntryOf(i, task[i].wait)
              THEN [fault EXCEPT !.erased = @ \cup {i}] ELSE fault
  /\ task' = [task EXCEPT ![i].pc = "signal", ![i].then = "pending"]
  /\ UNCHANGED <<waits, pending_deregister, poller, signalled, driver, closer, outside, flags>>

\* signal_driver; the pipe is made with the driver.
WriteByte == signalled' = (signalled \/ driver.pc # "off")

SignalDriver(i) ==
  /\ task[i].pc = "signal"
  /\ WriteByte
  /\ task' = [task EXCEPT ![i].pc = task[i].then, ![i].then = "poll"]
  /\ UNCHANGED <<reactor, poller, driver, closer, outside, flags, fault>>

\* The wait future polled again: take_wait_outcome.  A wait whose answer has
\* the wrong kind keeps its registration until it is dropped.
TakeOutcome(i) ==
  /\ task[i].pc = "poll" /\ Holds(i) /\ ~Elapsed(task[i].wait)
  /\ LET o == outcomes[i]
         mine == Kind(o) = "error" \/ (Kind(o) = "sleep" <=> Kind(task[i].wait) = "sleep")
     IN task' = [task EXCEPT ![i].pc = IF o = None THEN "pending" ELSE "poll",
                             ![i].wait = IF o # None /\ mine THEN None ELSE @]
  /\ outcomes' = [outcomes EXCEPT ![i] = None]
  /\ UNCHANGED <<waits, pending_deregister, poller, signalled, driver, closer, outside, flags, fault>>

-----------------------------------------------------------------------------
(* clear_wait_deferred, by the task when it drops a wait (or finds it has  *)
(* elapsed), by the recycling of its slot, and by shutdown for every slot. *)

Mine(i, g) == waits[i] # None /\ waits[i].gen = g
KeyOf(i, g) == IF Mine(i, g) /\ waits[i].kind = "ready" THEN waits[i].what ELSE None

\* Mutant: the key of the entry is forgotten.
ClearEntry_ForgetsKey(i) ==
  /\ waits' = [waits EXCEPT ![i] = IF Mine(i, task[i].gen) THEN None ELSE @]
  /\ task' = [task EXCEPT ![i].pc = "clear", ![i].wait = None, ![i].key = None]

ClearEntry(i) ==
  /\ waits' = [waits EXCEPT ![i] = IF Mine(i, task[i].gen) THEN None ELSE @]
  /\ task' = [task EXCEPT ![i].pc = "clear", ![i].wait = None, ![i].key = KeyOf(i, task[i].gen)]

DropWait(i) ==
  /\ task[i].pc \in {"poll", "pending"} /\ Holds(i)
  /\ ClearEntry(i)
  /\ UNCHANGED <<outcomes, pending_deregister, poller, signalled, driver, closer, outside, flags, fault>>

\* The key goes to the list the driver empties, which has a place per slot.
Room == Cardinality(pending_deregister) < SlotCount
Defer(keys) ==
  /\ pending_deregister' = IF Room THEN pending_deregister \cup keys ELSE pending_deregister
  /\ fault' = IF Room THEN fault ELSE [fault EXCEPT !.leaked = @ \cup keys]

\* Without room the call fails here; a slot that was to be recycled stays lost.
DeferKey(i) ==
  /\ task[i].pc = "clear" /\ task[i].key # None
  /\ Defer({task[i].key})
  /\ task' = [task EXCEPT ![i].key = None,
                          ![i].pc = IF Room THEN "clear" ELSE IF task[i].live THEN "poll" ELSE "lost"]
  /\ UNCHANGED <<waits, outcomes, poller, signalled, driver, closer, outside, flags>>

ClearOutcome(i) ==
  /\ task[i].pc = "clear" /\ task[i].key = None
  /\ outcomes' = [outcomes EXCEPT ![i] = None]
  /\ task' = [task EXCEPT ![i].pc = "signal", ![i].then = IF task[i].live THEN "poll" ELSE "idle"]
  /\ UNCHANGED <<waits, pending_deregister, poller, signalled, driver, closer, outside, flags, fault>>

\* The task completes, and its slot is recycled: clear_wait once more.
FinishTask(i) ==
  /\ task[i].pc = "poll" /\ ~Holds(i)
  /\ waits' = [waits EXCEPT ![i] = IF Mine(i, task[i].gen) THEN None ELSE @]
  /\ task' = [task EXCEPT ![i].pc = "clear", ![i].live = FALSE, ![i].scheduled = FALSE,
                          ![i].key = KeyOf(i, task[i].gen)]
  /\ UNCHANGED <<outcomes, pending_deregister, poller, signalled, driver, closer, outside, flags, fault>>

\* A slot whose dispatch is refused is failed and its future dropped, which clears
\* the wait, by the thread that wanted to dispatch it.  One step here; in the code
\* one lock after the other.
Settled(i) ==
  /\ waits' = [waits EXCEPT ![i] = IF Mine(i, task[i].gen) THEN None ELSE @]
  /\ outcomes' = [outcomes EXCEPT ![i] = None]
  /\ Defer({KeyOf(i, task[i].gen)} \ {None})
  /\ WriteByte
  /\ task' = [task EXCEPT ![i] = [NewTask(@.gen) EXCEPT !.live = FALSE, !.scheduled = FALSE]]

\* dispatch_marked_slot_with_lease: refused after shutdown, or for want of room.
Refusals == IF shutdown_requested THEN {TRUE} ELSE IF bound.full THEN BOOLEAN ELSE {FALSE}

EndPending(i) ==
  /\ task[i].pc = "pending"
  /\ \E refused \in IF task[i].scheduled THEN Refusals ELSE {FALSE} :
       IF refused THEN Settled(i) ELSE TaskAt(i, "idle") /\ UNCHANGED <<reactor, signalled, fault>>
  /\ UNCHANGED <<poller, driver, closer, outside, flags>>

-----------------------------------------------------------------------------
(* The driver: drive(true) in a loop.                                      *)

At(l) == driver.pc = l
Move(l) == driver' = [driver EXCEPT !.pc = l, !.i = 1, !.hand = None, !.now = 0, !.then = "look"]
Past(l, m) == IF driver.i < SlotCount THEN driver' = [driver EXCEPT !.pc = l, !.i = @ + 1, !.hand = None]
              ELSE Move(m)
MyTask == task[driver.i]
MyWait == waits[driver.i]

CheckShutdown ==
  /\ At("check") /\ Move(IF shutdown_requested THEN "exit" ELSE "flush")
  /\ UNCHANGED <<reactor, poller, signalled, task, closer, outside, flags, fault>>

\* flush_pending_deregistrations, one key at a time.
Flush ==
  /\ At("flush")
  /\ \/ \E k \in pending_deregister :
          /\ pending_deregister' = pending_deregister \ {k} /\ poller' = poller \ {k}
          /\ UNCHANGED driver
     \/ pending_deregister = {} /\ Move("activate") /\ UNCHANGED <<pending_deregister, poller>>
  /\ UNCHANGED <<waits, outcomes, signalled, task, closer, outside, flags, fault>>

\* activate_pending_readiness_waits: the entry is read and its source
\* registered, which the poller refuses if it has the source already, ...
Activate ==
  /\ At("activate")
  /\ IF Kind(MyWait) # "pending" THEN Past("activate", "due") /\ UNCHANGED poller
     ELSE /\ driver' = [driver EXCEPT !.hand = MyWait,
                                      !.pc = IF MyWait.what \in poller THEN "reject" ELSE "publish"]
          /\ poller' = poller \cup {MyWait.what}
  /\ UNCHANGED <<reactor, signalled, task, closer, outside, flags, fault>>

\* ... and then the key is published if the entry is still pending, ...
StillPending == Kind(MyWait) = "pending" /\ MyWait.gen = driver.hand.gen

Publish ==
  /\ At("publish") /\ Past("activate", "due")
  /\ waits' = IF StillPending
              THEN [waits EXCEPT ![driver.i].kind = "ready", ![driver.i].what = driver.hand.what]
              ELSE waits
  /\ fault' = IF ~StillPending THEN [fault EXCEPT !.leaked = @ \cup {driver.hand.what}]
              ELSE IF MyWait.what = driver.hand.what THEN fault
              ELSE [fault EXCEPT !.crossed = @ \cup {driver.i}]
  /\ UNCHANGED <<outcomes, pending_deregister, poller, signalled, task, closer, outside, flags>>

\* Mutant: the wait is dropped and nobody is told.
Reject_Silent ==
  /\ At("reject") /\ Past("activate", "due")
  /\ waits' = [waits EXCEPT ![driver.i] = IF StillPending THEN None ELSE @]
  /\ UNCHANGED <<outcomes, pending_deregister, poller, signalled, task, closer, outside, flags, fault>>

\* ... or the task is told that its source was refused.
Reject ==
  /\ At("reject")
  /\ waits' = [waits EXCEPT ![driver.i] = IF StillPending THEN None ELSE @]
  /\ driver' = [driver EXCEPT !.pc = "store", !.hand.kind = "error"]
  /\ UNCHANGED <<outcomes, pending_deregister, poller, signalled, task, closer, outside, flags, fault>>

\* collect_due_timers, if there is a timer at all, before and after the poll.
Sleeps == {i \in Slots : Kind(waits[i]) = "sleep"}

LookForTimers ==
  /\ At("due") \/ At("due again")
  /\ LET after == IF At("due") THEN "look" ELSE "check"
     IN driver' = IF Sleeps = {} THEN [driver EXCEPT !.pc = after]
                  ELSE [driver EXCEPT !.pc = "collect", !.now = now, !.then = after]
  /\ UNCHANGED <<reactor, poller, signalled, task, closer, outside, flags, fault>>

CollectDue ==
  /\ At("collect")
  /\ IF Kind(MyWait) = "sleep" /\ MyWait.what <= driver.now
     THEN /\ waits' = [waits EXCEPT ![driver.i] = None]
          /\ driver' = [driver EXCEPT !.pc = "store", !.hand = MyWait]
     ELSE Past("collect", driver.then) /\ UNCHANGED waits
  /\ UNCHANGED <<outcomes, pending_deregister, poller, signalled, task, closer, outside, flags, fault>>

StoreOutcome ==
  /\ At("store")
  /\ outcomes' = [outcomes EXCEPT ![driver.i] = driver.hand]
  /\ driver' = [driver EXCEPT !.pc = "schedule"]
  /\ UNCHANGED <<waits, pending_deregister, poller, signalled, task, closer, outside, flags, fault>>

\* schedule_slot; a refused dispatch ends the driver.
ScheduleSlot ==
  /\ At("schedule")
  /\ LET i == driver.i
         wanted == MyTask.live /\ MyTask.gen = driver.hand.gen /\ ~MyTask.scheduled
     IN \E refused \in IF wanted /\ MyTask.pc = "idle" THEN Refusals ELSE {FALSE} :
          /\ IF refused THEN Settled(i)
             ELSE /\ task' = [task EXCEPT ![i].scheduled = @ \/ wanted]
                  /\ UNCHANGED <<reactor, signalled, fault>>
          /\ CASE refused -> Move("exit")
               [] ~refused /\ driver.hand.kind = "error" -> Past("activate", "due")
               [] ~refused /\ driver.hand.kind = "sleep" -> Past("collect", driver.then)
               [] ~refused /\ driver.hand.kind = "ready" -> Move("resolve")
  /\ UNCHANGED <<poller, closer, outside, flags>>

\* Two reads decide how to wait: the poller, the clock or not at all.
LookForWaiters ==
  /\ At("look")
  /\ driver' = [driver EXCEPT !.pc = "choose",
                              !.waiters = \E i \in Slots : Kind(waits[i]) \in {"pending", "ready"}]
  /\ UNCHANGED <<reactor, poller, signalled, task, closer, outside, flags, fault>>

Choose ==
  /\ At("choose")
  /\ LET deadlines == {waits[i].what : i \in Sleeps}
         until == IF deadlines = {} THEN None ELSE Min(deadlines)
     IN driver' = [driver EXCEPT !.until = until, !.waiters = FALSE,
                                 !.pc = IF driver.waiters THEN "poll"
                                        ELSE IF until # None THEN "sleep" ELSE "check"]
  /\ UNCHANGED <<reactor, poller, signalled, task, closer, outside, flags, fault>>

TimedOut == driver.until # None /\ driver.until <= now

\* The signal does not end this sleep.
Sleep ==
  /\ At("sleep") /\ TimedOut
  /\ driver' = [driver EXCEPT !.pc = "collect", !.until = None, !.now = now, !.then = "check"]
  /\ UNCHANGED <<reactor, poller, signalled, task, closer, outside, flags, fault>>

Reported == (poller \cap ready_sources) \cup (IF signalled THEN {Pipe} ELSE {})

Poll ==
  /\ At("poll") /\ (Reported # {} \/ TimedOut)
  /\ \E events \in kSubset(Min({EventBatch, Cardinality(Reported)}), Reported) :
       driver' = [driver EXCEPT !.pc = "resolve", !.i = 1, !.until = None, !.events = events]
  /\ UNCHANGED <<reactor, poller, signalled, task, closer, outside, flags, fault>>

\* resolve_reactor_events: the first entry with the key is taken, the key
\* deregistered; a key no entry names stays.
Resolve ==
  /\ At("resolve")
  /\ \E k \in driver.events \ {Pipe} :
       LET found == {i \in Slots : Kind(waits[i]) = "ready" /\ waits[i].what = k}
           events == driver.events \ {k}
       IN IF found = {} THEN driver' = [driver EXCEPT !.events = events] /\ UNCHANGED <<waits, poller>>
          ELSE /\ waits' = [waits EXCEPT ![Min(found)] = None]
               /\ poller' = poller \ {k}
               /\ driver' = [driver EXCEPT !.events = events, !.pc = "store", !.i = Min(found),
                                           !.hand = waits[Min(found)]]
  /\ UNCHANGED <<outcomes, pending_deregister, signalled, task, closer, outside, flags, fault>>

Drain ==
  /\ At("resolve") /\ driver.events \subseteq {Pipe}
  /\ signalled' = (signalled /\ Pipe \notin driver.events)
  /\ driver' = [driver EXCEPT !.pc = "due again", !.events = {}]
  /\ UNCHANGED <<reactor, poller, task, closer, outside, flags, fault>>

-----------------------------------------------------------------------------
(* ExecutorCore::shutdown once the workers are idle: the waits of every    *)
(* slot are cleared and its task failed, then the driver is joined.        *)

CloseEntry ==
  /\ closer.pc = "up" /\ drained /\ \A i \in Slots : task[i].pc \in {"idle", "lost"}
  /\ LET g == task[closer.i].gen
     IN /\ waits' = [waits EXCEPT ![closer.i] = IF Mine(closer.i, g) THEN None ELSE @]
        /\ closer' = [closer EXCEPT !.pc = "clear", !.key = KeyOf(closer.i, g)]
  /\ UNCHANGED <<outcomes, pending_deregister, poller, signalled, driver, task, outside, flags, fault>>

CloseKey ==
  /\ closer.pc = "clear"
  /\ Defer({closer.key} \ {None})
  /\ closer' = [closer EXCEPT !.pc = "fail", !.key = IF Room THEN None ELSE @]
  /\ UNCHANGED <<waits, outcomes, poller, signalled, driver, task, outside, flags>>

\* force_shutdown: the future is dropped, and with it the outcome.
CloseTask ==
  /\ closer.pc = "fail"
  /\ outcomes' = [outcomes EXCEPT ![closer.i] = None]
  /\ IF task[closer.i].gen > 0 /\ (closer.key = None \/ Holds(closer.i)) THEN WriteByte ELSE UNCHANGED signalled
  /\ task' = [task EXCEPT ![closer.i].live = FALSE, ![closer.i].scheduled = FALSE,
                          ![closer.i].wait = None]
  /\ closer' = IF closer.i < SlotCount THEN [closer EXCEPT !.pc = "up", !.i = @ + 1]
               ELSE [closer EXCEPT !.pc = "join"]
  /\ UNCHANGED <<waits, pending_deregister, poller, driver, outside, flags, fault>>

JoinDriver ==
  /\ closer.pc = "join" /\ driver.pc \in {"off", "exit"}
  /\ closer' = [closer EXCEPT !.pc = "down"]
  /\ UNCHANGED <<reactor, poller, signalled, driver, task, outside, flags, fault>>

-----------------------------------------------------------------------------
\* external: a source becomes ready or stops being so, the clock advances.
Turn(s) ==
  /\ ready_sources' = IF s \in ready_sources THEN ready_sources \ {s} ELSE ready_sources \cup {s}
  /\ UNCHANGED <<bound, reactor, poller, signalled, driver, task, closer, now, flags, fault>>

Tick ==
  /\ now < bound.time /\ now' = now + 1
  /\ UNCHANGED <<bound, reactor, poller, signalled, driver, task, closer, ready_sources, flags, fault>>

TaskStep(i) ==
  \/ Spawn(i) \/ PollTask(i) \/ ResetOutcome(i) \/ SignalDriver(i) \/ TakeOutcome(i) \/ DropWait(i)
  \/ DeferKey(i) \/ ClearOutcome(i) \/ FinishTask(i) \/ EndPending(i)
  \/ \E s \in bound.sources[i] : QueueReadinessWait(i, s)
  \/ \E d \in 1..bound.time : RegisterSleepWait(i, d)

DriverStep ==
  \/ CheckShutdown \/ Flush \/ Activate \/ Publish \/ Reject \/ LookForTimers \/ CollectDue
  \/ StoreOutcome \/ ScheduleSlot \/ LookForWaiters \/ Choose \/ Sleep \/ Poll \/ Resolve \/ Drain

CloserStep == CloseEntry \/ CloseKey \/ CloseTask \/ JoinDriver

RNext ==
  \/ \E i \in Slots : TaskStep(i)
  \/ DriverStep \/ CloserStep
  \/ \E s \in UNION {bound.sources[i] : i \in Slots} : Turn(s)
  \/ Tick

-----------------------------------------------------------------------------
(* What must hold between any two steps.                                   *)

\* The driver is about to store an outcome for the task and to mark it.
Answering(i) == (At("store") \/ At("schedule")) /\ driver.i = i /\ driver.hand.gen = task[i].gen
Closing(i) == closer.pc \in {"clear", "fail"} /\ closer.i = i

\* A task that is not polled and not marked still has its wait in the table, for
\* the source or the time it asked for, or the driver is answering it, or shutdown
\* is failing it (queue_readiness_wait against activate_pending_readiness_waits,
\* collect_due_timers, resolve_reactor_events and force_shutdown).  The two races
\* of the code are left out: an answer that came between the two locks of the
\* registration was erased, and a key was published to the wait that followed
\* the one it was registered for.
WaitKept ==
  \A i \in Slots \ (fault.erased \cup fault.crossed) :
    LET t == task[i]
    IN t.live /\ t.pc = "idle" /\ ~t.scheduled /\ t.wait # None =>
         \/ EntryOf(i, t.wait) /\ waits[i].what = t.wait.what
         \/ Answering(i) \/ Closing(i)

\* Each key of the poller is named by a registered wait, by the driver that
\* is about to publish it or by a thread that is clearing its wait, or it is
\* queued for deregistration, and every registered wait has its key.  A key
\* nobody names makes the poller refuse its source for ever after; the code
\* loses one only where a wait is cleared between registration and publication,
\* overwritten by the next wait of the task, or cleared with the list full.
KeysNamed ==
  /\ \A k \in poller \ fault.leaked :
       \/ \E i \in Slots : Kind(waits[i]) = "ready" /\ waits[i].what = k
       \/ At("publish") /\ driver.hand.what = k
       \/ k \in pending_deregister
       \/ closer.key = k \/ \E i \in Slots : task[i].key = k
  /\ \A i \in Slots : Kind(waits[i]) = "ready" => waits[i].what \in poller

\* The driver never sleeps in the poller beside work it has not been told of:
\* a pending wait, an earlier timer, a key to deregister or the end of the
\* executor comes with a byte in the pipe, or with a thread that is about to
\* write it.  (Asleep on a timer it is not told.)
Untold(i) == task[i].pc \in {"started", "clear", "signal"}
DriverNotified ==
  At("poll") /\ ~signalled =>
    /\ \A i \in Slots : ~Untold(i) =>
         /\ Kind(waits[i]) # "pending"
         /\ Kind(waits[i]) = "sleep" => driver.until # None /\ driver.until <= waits[i].what
    /\ pending_deregister # {} => closer.pc # "up" \/ \E i \in Slots : Untold(i)
    /\ closer.pc # "join"
=============================================================================
