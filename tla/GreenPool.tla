------------------------------ MODULE GreenPool ------------------------------
(***************************************************************************)
(* The green-thread pool: clients spawn tasks into per-carrier ready       *)
(* queues, carriers run, steal, park and finish them, handles join them,   *)
(* and a task slot is recycled when its task is published and no handle is *)
(* left.  The same engine driven by its own thread (CurrentFiberPool) has  *)
(* no carrier threads.  Either pool may have a runtime sink, through which *)
(* it reports its fibers to a courier's ledger; the sink synchronises its  *)
(* calls (CourierRuntimeSink leaves that to its provider).                 *)
(*                                                                         *)
(* An action is what one thread does under one lock or with one atomic,    *)
(* with the steps that follow on what no other thread can reach meanwhile: *)
(* a slot popped from the free stack, taken out of a queue or out of the   *)
(* waiter table, and the report of that slot's fiber.                      *)
(***************************************************************************)
EXTENDS StackSlab, CourierLedger, Sequences, SequencesExt

CONSTANTS Carriers,     \* the carriers' indices
          Clients, Sources,
          Configs,      \* the pools looked at, each with its bounds
          None

VARIABLES config,     \* driver, lanes (its carriers), stealing, reactor, sink; the
                      \* bounds: spawners, joiners, spawns, turns (times one task gives
                      \* its carrier back), stops (shutdown may be requested)
                      \* and execution (FiberTaskExecution of the tasks)
          task,       \* slot -> GreenTaskRecord
          done,       \* slot -> its completion and handle words
          free,       \* GreenTaskRegistry.free, top last
          active, next_id, shutdown,
          queue,      \* carrier -> its ready queue, oldest first
          ready,      \* carrier -> permits of ready, or the wake event
          parked,     \* carrier -> waiters of its reactor
          carrier,    \* carrier -> what its thread is at
          client,     \* client -> the spawn or the handle it is at
          refused     \* history: the courier ledger refused a registration

registry == <<task, done, free>>
lanes    == <<queue, ready, parked>>
counts   == <<active, next_id>>
courier  == <<ledger, live, refused>>
vars     == <<config, registry, lanes, counts, shutdown, carrier, client, slab, courier>>

Slots    == 1..StackCapacity      \* task_capacity is stacks.total_capacity
Stopper  == "stopper"             \* the owner of the pool handle, as a client

Terminal(s) == s = "Completed"       \* or Failed: how it ended is left out
Alive(x, i) == task[x].id = i /\ i # 0            \* matches_id
is_finished(x, i) == Alive(x, i) /\ Terminal(task[x].state) /\ done[x].published

NoTask == [id |-> 0, state |-> "Completed", carrier |-> 0, stack |-> None, turns |-> 0]
AtRest == [pc |-> "idle", slot |-> None, id |-> 0, stack |-> None, left |-> {},
           late |-> FALSE]   \* history: counted itself between the permit and the flag
OnDuty == [pc |-> "next", slot |-> None, id |-> 0, due |-> {},
           left |-> {}, then |-> "next"]
OffDuty == [OnDuty EXCEPT !.pc = "off", !.then = "off"]
Hosted == config.driver = "CarrierPool"

Init ==
  /\ config \in Configs
  /\ SlabInit /\ LedgerInit
  /\ task = [x \in Slots |-> NoTask]
  /\ done = [x \in Slots |-> [published |-> FALSE, waiters |-> 0, permit |-> None, refs |-> 0]]
  /\ free = [x \in Slots |-> x]
  /\ active = 0 /\ next_id = 1 /\ shutdown = FALSE
  /\ queue = [c \in Carriers |-> <<>>]
  /\ ready = [c \in Carriers |-> 0]
  /\ parked = [c \in Carriers |-> {}]
  /\ carrier = [c \in Carriers |-> IF Hosted /\ c \in config.lanes THEN OnDuty ELSE OffDuty]
  /\ client = [k \in Clients \cup {Stopper} |-> AtRest]
  /\ refused = FALSE
-----------------------------------------------------------------------------
(* Queues, signals and slots                                               *)

\* enqueue_with_signal after its shutdown check: a full queue is refused.
HasRoom(c) == Len(queue[c]) < StackCapacity
Push(c, x) == queue' = [queue EXCEPT ![c] = Append(@, x)]

\* CarrierQueue.signal: overflow of the semaphore is dropped, the wake event
\* is level triggered.
Signal(c) == LET limit == IF config.reactor THEN 1 ELSE StackCapacity IN
             ready' = [ready EXCEPT ![c] = IF @ = limit THEN @ ELSE @ + 1]
\* register_runtime_fiber and its like do nothing without a sink.
Registering == IF config.sink THEN "register" ELSE "hold"

\* Mutant: the handles are not looked at.
Recyclable_IgnoresHandles(x, i) == is_finished(x, i)

\* try_recycle and recycle_slot.
Recyclable(x, i) == is_finished(x, i) /\ done[x].refs = 0
Recycle(x) == /\ task' = [task EXCEPT ![x] = NoTask]
              /\ done' = [done EXCEPT ![x].published = FALSE, ![x].waiters = 0, ![x].refs = 0]
              /\ free' = Append(free, x)
TryReclaim(x, i) == IF Recyclable(x, i) THEN Recycle(x) ELSE UNCHANGED <<task, done, free>>
-----------------------------------------------------------------------------
(* A client spawns a task                                                  *)

\* A current-thread pool is one thread: whoever acts, nobody else is under way.
MayAct(k) == Hosted \/ ( /\ \A c \in Carriers : carrier[c].pc = "off"
                         /\ \A j \in Clients \ {k} : client[j].pc \in {"idle", "hold"} )
At(k, pc) == client[k].pc = pc /\ MayAct(k)
Go(k, pc) == client' = [client EXCEPT ![k].pc = pc]
Rest(k)   == client' = [client EXCEPT ![k] = AtRest]

\* Mutant: the admission bound is off by one.
Admit_OffByOne(k) ==
  /\ At(k, "idle") /\ k \in config.spawners
  /\ next_id + Cardinality({j \in Clients : client[j].pc \in {"stack", "slot"}}) <= config.spawns
  /\ active \in 0..StackCapacity
  /\ active' = active + 1
  /\ \E execution \in config.execution :
       Go(k, IF execution = "Fiber" THEN "stack" ELSE "slot")
  /\ UNCHANGED <<config, registry, lanes, next_id, shutdown, carrier, slab, courier>>

\* reserve_spawn_slot_for, up to the admission.
Admit(k) ==
  /\ At(k, "idle") /\ k \in config.spawners
  /\ next_id + Cardinality({j \in Clients : client[j].pc \in {"stack", "slot"}}) <= config.spawns
  /\ active \in 0..(StackCapacity - 1)
  /\ active' = active + 1
  /\ \E execution \in config.execution :
       Go(k, IF execution = "Fiber" THEN "stack" ELSE "slot")
  /\ UNCHANGED <<config, registry, lanes, next_id, shutdown, carrier, slab, courier>>

TakeStack(k) ==
  /\ At(k, "stack")
  /\ IF CanAcquire
     THEN \E x \in Stacks :
            AcquireStack(x) /\ client' = [client EXCEPT ![k].pc = "slot", ![k].stack = x]
     ELSE Go(k, "deactivate") /\ UNCHANGED slab
  /\ UNCHANGED <<config, registry, lanes, counts, shutdown, carrier, courier>>

\* next_id, select_spawn_carrier, reserve_slot and prepare_assignment.
TakeSlot(k) ==
  /\ At(k, "slot")
  /\ next_id' = next_id + 1
  /\ IF free = <<>> THEN Go(k, "unstack") /\ UNCHANGED registry
     ELSE LET x == Last(free) IN
          \E c \in config.lanes :
            /\ free' = Front(free)
            /\ task' = [task EXCEPT ![x] = [id |-> next_id, state |-> "Queued", carrier |-> c,
                                            stack |-> client[k].stack, turns |-> 0]]
            /\ done' = [done EXCEPT ![x] = [published |-> FALSE, waiters |-> 0, refs |-> 1,
                                            permit |-> IF @.permit = None THEN None ELSE 0]]
            /\ client' = [client EXCEPT ![k].pc = "enqueue", ![k].slot = x, ![k].id = next_id]
  /\ UNCHANGED <<config, lanes, active, shutdown, carrier, slab, courier>>

\* enqueue_with_signal: shutdown is checked before the queue is taken; then the
\* slot is pushed, and the carriers are signalled in order.
Enqueue(k) ==
  /\ At(k, "enqueue")
  /\ Go(k, IF shutdown THEN "abandon" ELSE "push")
  /\ UNCHANGED <<config, registry, lanes, counts, shutdown, carrier, slab, courier>>
PushSpawned(k) ==
  /\ At(k, "push")
  /\ LET x == client[k].slot
         c == task[x].carrier
     IN  IF HasRoom(c)
         THEN /\ Push(c, x)
              /\ client' = [client EXCEPT
                   ![k].pc = IF Hosted THEN "notify" ELSE Registering,
                   ![k].left = IF ~Hosted THEN {} ELSE IF config.stealing THEN config.lanes ELSE {c}]
         ELSE Go(k, "abandon") /\ UNCHANGED queue
  /\ UNCHANGED <<config, registry, ready, parked, counts, shutdown, carrier, slab, courier>>
Notify(k) ==
  /\ At(k, "notify")
  /\ LET c == Min(client[k].left) IN
     /\ Signal(c)
     /\ client' = [client EXCEPT ![k].left = @ \ {c},
                     ![k].pc = CASE client[k].left # {c} -> "notify"
                                 [] k = Stopper          -> "gone"
                                 [] OTHER                -> Registering]
  /\ UNCHANGED <<config, registry, queue, parked, counts, shutdown, carrier, slab, courier>>

\* register_runtime_fiber, after the task is queued and its carrier signalled.
Register(k) ==
  /\ At(k, "register")
  /\ \E class \in Classes :
       \/ RegisterFiber(client[k].id, class) /\ Go(k, "hold") /\ UNCHANGED refused
       \/ ~Admits(client[k].id, class) /\ Go(k, "abandon") /\ refused' = TRUE
          /\ UNCHANGED <<ledger, live>>
  /\ UNCHANGED <<config, registry, lanes, counts, shutdown, carrier, slab>>

\* cleanup_failed_spawn_for: abandon (force_recycle), release, fetch_sub.
Abandon(k) ==
  /\ At(k, "abandon")
  /\ LET x == client[k].slot IN
     IF Alive(x, client[k].id)
     THEN Recycle(x) ELSE UNCHANGED registry
  /\ Go(k, "unstack")
  /\ UNCHANGED <<config, lanes, counts, shutdown, carrier, slab, courier>>
Unstack(k) ==
  /\ At(k, "unstack")
  /\ IF client[k].stack \in allocated THEN ReleaseStack(client[k].stack) ELSE UNCHANGED slab
  /\ Go(k, "deactivate")
  /\ UNCHANGED <<config, registry, lanes, counts, shutdown, carrier, courier>>
Deactivate(k) ==
  /\ At(k, "deactivate")
  /\ active' = active - 1 /\ Rest(k)
  /\ UNCHANGED <<config, registry, lanes, next_id, shutdown, carrier, slab, courier>>

\* Mutant: the carriers are not signalled.
Shutdown_Silent ==
  /\ At(Stopper, "idle") /\ config.stops
  /\ shutdown' = TRUE
  /\ Go(Stopper, "gone")
  /\ UNCHANGED <<config, registry, lanes, counts, carrier, slab, courier>>

\* GreenPool.shutdown: request_shutdown; the first caller signals.
Shutdown ==
  /\ At(Stopper, "idle") /\ config.stops
  /\ shutdown' = TRUE
  /\ client' = [client EXCEPT ![Stopper].pc = IF shutdown THEN "gone" ELSE "notify",
                              ![Stopper].left = IF shutdown THEN {} ELSE config.lanes]
  /\ UNCHANGED <<config, registry, lanes, counts, carrier, slab, courier>>
-----------------------------------------------------------------------------
(* A client uses a handle                                                  *)

\* GreenHandle<()>.try_clone, given to a client that holds none.
CloneHandle(k, j) ==
  /\ At(k, "hold") /\ At(j, "idle") /\ j \in config.joiners
  /\ done' = [done EXCEPT ![client[k].slot].refs = @ + 1]
  /\ client' = [client EXCEPT ![j] = [AtRest EXCEPT !.pc = "hold", !.slot = client[k].slot,
                                                    !.id = client[k].id]]
  /\ UNCHANGED <<config, task, free, lanes, counts, shutdown, carrier, slab, courier>>

\* join on another thread: wait_until_terminal.
Join(k) ==
  /\ Hosted /\ At(k, "hold") /\ k \in config.joiners
  /\ Go(k, IF is_finished(client[k].slot, client[k].id) THEN "joined" ELSE "arm")
  /\ UNCHANGED <<config, registry, lanes, counts, shutdown, carrier, slab, courier>>
Signalled(x) == \E c \in Carriers : carrier[c].pc = "publish" /\ carrier[c].slot = x
Arm(k) ==
  /\ At(k, "arm")
  /\ done' = [done EXCEPT ![client[k].slot].waiters = @ + 1,
                          ![client[k].slot].permit = IF @ = None THEN 0 ELSE @]
  /\ client' = [client EXCEPT ![k].pc = "recheck", ![k].late = Signalled(client[k].slot)]
  /\ UNCHANGED <<config, task, free, lanes, counts, shutdown, carrier, slab, courier>>
\* Mutant: a joiner that has counted itself sleeps without a second look.
Recheck_Skipped(k) ==
  /\ At(k, "recheck")
  /\ Go(k, "sleep")
  /\ UNCHANGED <<config, registry, lanes, counts, shutdown, carrier, slab, courier>>

Recheck(k) ==
  /\ At(k, "recheck")
  /\ IF is_finished(client[k].slot, client[k].id)
     THEN client' = [client EXCEPT ![k].pc = "withdraw", ![k].late = FALSE]
     ELSE Go(k, "sleep")
  /\ UNCHANGED <<config, registry, lanes, counts, shutdown, carrier, slab, courier>>
Withdraw(k) ==
  /\ At(k, "withdraw")
  /\ done' = [done EXCEPT ![client[k].slot].waiters = @ - 1]
  /\ Go(k, "joined")
  /\ UNCHANGED <<config, task, free, lanes, counts, shutdown, carrier, slab, courier>>
Sleep(k) ==
  /\ At(k, "sleep") /\ done[client[k].slot].permit = 1
  /\ done' = [done EXCEPT ![client[k].slot].permit = 0]
  /\ client' = [client EXCEPT ![k].pc = "woke", ![k].late = FALSE]
  /\ UNCHANGED <<config, task, free, lanes, counts, shutdown, carrier, slab, courier>>
Woke(k) ==
  /\ At(k, "woke")
  /\ LET x == client[k].slot IN
     /\ done' = [done EXCEPT ![x].waiters = @ - 1]
     /\ Go(k, IF Terminal(task[x].state) /\ done[x].waiters > 1 THEN "chain" ELSE "joined")
  /\ UNCHANGED <<config, task, free, lanes, counts, shutdown, carrier, slab, courier>>
Chain(k) ==
  /\ At(k, "chain")
  /\ done' = [done EXCEPT ![client[k].slot].permit = 1]   \* overflow is an error, the permit stays
  /\ Go(k, "joined")
  /\ UNCHANGED <<config, task, free, lanes, counts, shutdown, carrier, slab, courier>>

\* Drop of the handle: release_handle.  A join on a green thread or on the
\* driving thread polls the task's state and then drops the handle too.
Release(k) ==
  /\ At(k, "hold") \/ At(k, "joined")
  /\ LET x == client[k].slot IN
     /\ done' = [done EXCEPT ![x].refs = IF @ = 0 THEN 0 ELSE @ - 1]
     /\ IF done[x].refs = 1 THEN Go(k, "recycle") ELSE Rest(k)
  /\ UNCHANGED <<config, task, free, lanes, counts, shutdown, carrier, slab, courier>>
RecycleDropped(k) ==
  /\ At(k, "recycle")
  /\ TryReclaim(client[k].slot, client[k].id)
  /\ Rest(k)
  /\ UNCHANGED <<config, lanes, counts, shutdown, carrier, slab, courier>>
-----------------------------------------------------------------------------
(* A carrier: run_carrier_loop, run_reactor_carrier_loop                   *)

On(c, pc)   == carrier[c].pc = pc
Turn(c, pc) == carrier' = [carrier EXCEPT ![c].pc = pc]
\* The task is off this carrier's hands; the loop goes on.
Loop(c)     == carrier' = [carrier EXCEPT ![c] = [OnDuty EXCEPT !.pc = carrier[c].then, !.then = carrier[c].then]]
Fail(c)     == Turn(c, "error")
\* finish_task goes on after an error and returns the first one at its end.
Late(c, pc) == carrier' = [carrier EXCEPT ![c].pc = pc, ![c].then = "error"]
Mine(c)     == Alive(carrier[c].slot, carrier[c].id)

\* dequeue_ready; then try_steal_ready, which starts at a random other carrier
\* and takes the youngest entry.
Dequeue(c) ==
  /\ On(c, "next")
  /\ IF queue[c] # <<>>
     THEN /\ queue' = [queue EXCEPT ![c] = Tail(@)]
          /\ carrier' = [carrier EXCEPT ![c].pc = "begin", ![c].slot = Head(queue[c])]
     ELSE /\ carrier' = [carrier EXCEPT
               ![c].pc = IF config.stealing THEN "steal" ELSE "look",
               ![c].left = IF config.stealing THEN config.lanes \ {c} ELSE {}]
          /\ UNCHANGED queue
  /\ UNCHANGED <<config, registry, ready, parked, counts, shutdown, client, slab, courier>>
Steal(c) ==
  /\ On(c, "steal")
  /\ \E v \in carrier[c].left :
       IF queue[v] # <<>>
       THEN /\ queue' = [queue EXCEPT ![v] = Front(@)]
            /\ carrier' = [carrier EXCEPT ![c].pc = "migrate", ![c].slot = Last(queue[v]),
                                          ![c].left = {}]
       ELSE /\ carrier' = [carrier EXCEPT ![c].left = @ \ {v},
                             ![c].pc = IF carrier[c].left = {v} THEN "look" ELSE "steal"]
            /\ UNCHANGED queue
  /\ UNCHANGED <<config, registry, ready, parked, counts, shutdown, client, slab, courier>>
\* Mutant: a yielded task is not ready either.
Migrate_RefusesYielded(c) ==
  /\ On(c, "migrate")
  /\ LET x == carrier[c].slot IN
     IF task[x].id = 0 \/ task[x].state # "Queued"
     THEN Fail(c) /\ UNCHANGED task
     ELSE Turn(c, "begin") /\ task' = [task EXCEPT ![x].carrier = c]
  /\ UNCHANGED <<config, done, free, lanes, counts, shutdown, client, slab, courier>>

\* migrate_ready_task: reassign_carrier refuses a task that is not ready;
\* attach_slot_identity refuses only a stack outside the slab's table.
Migrate(c) ==
  /\ On(c, "migrate")
  /\ LET x == carrier[c].slot IN
     IF task[x].id = 0 \/ task[x].state \in {"Running", "Waiting", "Finishing"}
     THEN Fail(c) /\ UNCHANGED task
     ELSE Turn(c, "begin") /\ task' = [task EXCEPT ![x].carrier = c]
  /\ UNCHANGED <<config, done, free, lanes, counts, shutdown, client, slab, courier>>

\* drive_current_pool_once: the pool's own thread, between its other calls.
Drive ==
  /\ ~Hosted /\ On(0, "off")
  /\ \A k \in Clients \cup {Stopper} : client[k].pc \in {"idle", "hold", "gone"}
  /\ queue[0] # <<>>
  /\ queue' = [queue EXCEPT ![0] = Tail(@)]
  /\ carrier' = [carrier EXCEPT ![0].pc = "begin", ![0].slot = Head(queue[0])]
  /\ UNCHANGED <<config, registry, ready, parked, counts, shutdown, client, slab, courier>>

\* update_runtime_fiber: a fiber the ledger does not know is an error.
Reported(i, state) == IF config.sink THEN UpdateFiber(i, state) ELSE UNCHANGED <<ledger, live>>
Unknown(i)         == config.sink /\ i \notin DOMAIN ledger
\* The slot's fiber is finished or on another carrier: resume finds none.
NoFiber(x) == \/ Terminal(task[x].state) \/ task[x].state = "Finishing"
              \/ \E d \in Carriers : On(d, "run") /\ carrier[d].slot = x

\* run_ready_task: begin_run, and the ledger's record of the fiber.
Begin(c) ==
  /\ On(c, "begin")
  /\ LET x == carrier[c].slot
         i == task[x].id
     IN  IF i = 0 THEN Fail(c) /\ UNCHANGED <<task, ledger, live>>
         ELSE IF Unknown(i)
         THEN /\ task' = [task EXCEPT ![x].state = "Running"]
              /\ Turn(c, "unregistered") /\ UNCHANGED <<ledger, live>>
         ELSE /\ Reported(i, "Running")
              /\ task' = [task EXCEPT ![x].state = IF NoFiber(x) THEN "Finishing" ELSE "Running"]
              /\ carrier' = [carrier EXCEPT ![c].pc = IF NoFiber(x) THEN "unstack" ELSE "run",
                                            ![c].id = i]
  /\ UNCHANGED <<config, done, free, lanes, counts, shutdown, client, slab, refused>>

\* The task yields: Yielded, then back into this carrier's own queue.
Yield(c) ==
  /\ On(c, "run") /\ Mine(c)
  /\ LET x == carrier[c].slot IN
     /\ task[x].stack # None /\ task[x].turns < config.turns
     /\ task' = [task EXCEPT ![x].state = "Yielded", ![x].turns = @ + 1]
     /\ Reported(carrier[c].id, "Suspended")
  /\ Turn(c, "requeue")
  /\ UNCHANGED <<config, done, free, lanes, counts, shutdown, client, slab, refused>>
Requeue(c) ==
  /\ On(c, "requeue")
  /\ IF shutdown \/ task[carrier[c].slot].id = 0 \/ ~HasRoom(c) THEN Fail(c) /\ UNCHANGED queue
     ELSE Push(c, carrier[c].slot) /\ Loop(c)
  /\ UNCHANGED <<config, registry, ready, parked, counts, shutdown, client, slab, courier>>

\* park_on_readiness: the waiter is in the reactor's table before the task is
\* marked Waiting.  One wait per source and per slot; no reactor, no wait.
Conflict(c, x, s) == \E w \in parked[c] : w.source = s \/ w.slot = x
Park(c) ==
  /\ On(c, "run") /\ Mine(c)
  /\ LET x == carrier[c].slot IN
     /\ task[x].stack # None /\ task[x].turns < config.turns
     /\ Reported(carrier[c].id, "Suspended")
     /\ \E s \in Sources :
          IF ~config.reactor \/ Conflict(c, x, s)
          THEN /\ task' = [task EXCEPT ![x].state = "Finishing"]
               /\ carrier' = [carrier EXCEPT ![c].pc = "unstack"]
               /\ UNCHANGED parked
          ELSE /\ parked' = [parked EXCEPT ![c] =
                               @ \cup {[slot |-> x, id |-> carrier[c].id, source |-> s]}]
               /\ task' = [task EXCEPT ![x].turns = @ + 1]
               /\ Turn(c, "parked")
  /\ UNCHANGED <<config, done, free, queue, ready, counts, shutdown, client, slab, refused>>
\* Mutant: the waiter is queued again as if it had yielded.
MarkWaiting_Requeues(c) ==
  /\ On(c, "parked")
  /\ task' = [task EXCEPT ![carrier[c].slot].state = "Waiting"]
  /\ Turn(c, "requeue")
  /\ UNCHANGED <<config, done, free, lanes, counts, shutdown, client, slab, courier>>

MarkWaiting(c) ==
  /\ On(c, "parked")
  /\ IF Mine(c) THEN task' = [task EXCEPT ![carrier[c].slot].state = "Waiting"] /\ Loop(c)
     ELSE Fail(c) /\ UNCHANGED task
  /\ UNCHANGED <<config, done, free, lanes, counts, shutdown, client, slab, courier>>

\* The task is over, whole or failed: finish_task begins.
Finish(c) ==
  /\ On(c, "run")
  /\ IF Mine(c) THEN /\ task' = [task EXCEPT ![carrier[c].slot].state = "Finishing"]
                     /\ Turn(c, "unstack")
     ELSE Fail(c) /\ UNCHANGED task
  /\ UNCHANGED <<config, done, free, lanes, counts, shutdown, client, slab, courier>>
\* The stack goes back before the task leaves the active count, ...
FreeStack(c) ==
  /\ On(c, "unstack")
  /\ LET t == task[carrier[c].slot] IN
     IF Mine(c) /\ t.stack \in allocated
     THEN ReleaseStack(t.stack) /\ Turn(c, "settle")
     ELSE /\ IF t.id = 0 THEN Fail(c) ELSE IF t.stack = None THEN Turn(c, "settle")
             ELSE Late(c, "settle")
          /\ UNCHANGED slab
  /\ UNCHANGED <<config, registry, lanes, counts, shutdown, client, courier>>
\* ... and the count is lowered before the task is terminal.
Settle(c) ==
  /\ On(c, "settle")
  /\ active' = active - 1
  /\ Turn(c, "terminal")
  /\ UNCHANGED <<config, registry, lanes, next_id, shutdown, client, slab, courier>>
SettleState(c) ==
  /\ On(c, "terminal")
  /\ IF Mine(c) THEN /\ task' = [task EXCEPT ![carrier[c].slot].state = "Completed"]
                     /\ Turn(c, "signal")
     ELSE Late(c, "signal") /\ UNCHANGED task
  /\ UNCHANGED <<config, done, free, lanes, counts, shutdown, client, slab, courier>>
\* signal_completed: the permit first, the published flag after it.
SignalDone(c) ==
  /\ On(c, "signal")
  /\ LET x == carrier[c].slot IN
     IF Mine(c) /\ Terminal(task[x].state)
     THEN /\ done' = [done EXCEPT ![x].permit = IF @ = None THEN None ELSE 1]
          /\ Turn(c, "publish")
     ELSE Late(c, "reclaim") /\ UNCHANGED done
  /\ UNCHANGED <<config, task, free, lanes, counts, shutdown, client, slab, courier>>
Publish(c) ==
  /\ On(c, "publish")
  /\ done' = [done EXCEPT ![carrier[c].slot].published = TRUE]
  /\ Turn(c, "reclaim")
  /\ UNCHANGED <<config, task, free, lanes, counts, shutdown, client, slab, courier>>
\* The slot may be used again before the ledger knows that its fiber is over.
Reclaim(c) ==
  /\ On(c, "reclaim")
  /\ TryReclaim(carrier[c].slot, carrier[c].id)
  /\ IF config.sink THEN Turn(c, "report") ELSE Loop(c)
  /\ UNCHANGED <<config, lanes, counts, shutdown, client, slab, courier>>
ReportTerminal(c) ==
  /\ On(c, "report")
  /\ IF Unknown(carrier[c].id) THEN Fail(c) /\ UNCHANGED <<ledger, live>>
     ELSE MarkTerminal(carrier[c].id) /\ Loop(c)
  /\ UNCHANGED <<config, registry, lanes, counts, shutdown, client, slab, refused>>

\* Nothing to run: stop, or wait for a signal or a ready source.
Look(c) ==
  /\ On(c, "look")
  /\ Turn(c, IF ~shutdown THEN "wait" ELSE IF config.reactor THEN "cancel" ELSE "exit")
  /\ UNCHANGED <<config, registry, lanes, counts, shutdown, client, slab, courier>>
Wait(c) ==
  /\ On(c, "wait") /\ ~config.reactor /\ ready[c] > 0
  /\ ready' = [ready EXCEPT ![c] = @ - 1]
  /\ Turn(c, "next")
  /\ UNCHANGED <<config, registry, queue, parked, counts, shutdown, client, slab, courier>>
\* Mutant: a bare wake event is drained and the poll resumed.
PollReady_PollsAgain(c) ==
  /\ On(c, "wait") /\ config.reactor
  /\ \E due \in SUBSET parked[c] :
       /\ due # {} \/ ready[c] > 0
       /\ parked' = [parked EXCEPT ![c] = @ \ due]
       /\ carrier' = [carrier EXCEPT ![c].pc = IF due = {} THEN "wait" ELSE "deliver",
                                     ![c].due = due]
  /\ ready' = [ready EXCEPT ![c] = 0]
  /\ UNCHANGED <<config, registry, queue, counts, shutdown, client, slab, courier>>

\* poll_ready takes the ready waiters out of the table and drains the event.
PollReady(c) ==
  /\ On(c, "wait") /\ config.reactor
  /\ \E due \in SUBSET parked[c] :
       /\ due # {} \/ ready[c] > 0
       /\ parked' = [parked EXCEPT ![c] = @ \ due]
       /\ carrier' = [carrier EXCEPT ![c].pc = IF due = {} THEN "next" ELSE "deliver",
                                     ![c].due = due]
  /\ ready' = [ready EXCEPT ![c] = 0]
  /\ UNCHANGED <<config, registry, queue, counts, shutdown, client, slab, courier>>
\* Each of them: set_state Yielded, then enqueue_with_signal.
Deliver(c) ==
  /\ On(c, "deliver")
  /\ \E w \in carrier[c].due :
       IF ~Alive(w.slot, w.id) THEN Fail(c) /\ UNCHANGED <<task, queue>>
       ELSE /\ task' = [task EXCEPT ![w.slot].state = "Yielded"]
            /\ IF shutdown \/ ~HasRoom(c) THEN Fail(c) /\ UNCHANGED queue
               ELSE /\ Push(c, w.slot)
                    /\ carrier' = [carrier EXCEPT ![c].due = @ \ {w},
                         ![c].pc = IF carrier[c].due = {w} THEN "next" ELSE "deliver"]
  /\ UNCHANGED <<config, done, free, ready, parked, counts, shutdown, client, slab, courier>>
\* Shutdown fails what is still parked, one waiter at a time.
Cancel(c) ==
  /\ On(c, "cancel")
  /\ \/ parked[c] = {} /\ Turn(c, "exit") /\ UNCHANGED <<task, parked>>
     \/ \E w \in parked[c] :
          /\ parked' = [parked EXCEPT ![c] = @ \ {w}]
          /\ IF ~Alive(w.slot, w.id) THEN Fail(c) /\ UNCHANGED task
             ELSE /\ task' = [task EXCEPT ![w.slot].state = "Finishing"]
                  /\ carrier' = [carrier EXCEPT ![c] = [OnDuty EXCEPT !.pc = "unstack",
                       !.slot = w.slot, !.id = w.id, !.then = "cancel"]]
  /\ UNCHANGED <<config, done, free, queue, ready, counts, shutdown, client, slab, courier>>

\* run_carrier_loop_job: an error of the loop requests the shutdown of the
\* pool, and the first to request it signals the carriers; on the driving
\* thread it is the error of the call.
Error(c) ==
  /\ On(c, "error") \/ On(c, "unregistered")
  /\ shutdown' = (shutdown \/ Hosted)
  /\ carrier' = [carrier EXCEPT ![c] =
       IF ~Hosted THEN OffDuty ELSE IF shutdown THEN [OnDuty EXCEPT !.pc = "exit"]
       ELSE [OnDuty EXCEPT !.pc = "alarm", !.left = config.lanes]]
  /\ UNCHANGED <<config, registry, lanes, counts, client, slab, courier>>
Alarm(c) ==
  /\ On(c, "alarm")
  /\ LET v == Min(carrier[c].left) IN
     /\ Signal(v)
     /\ carrier' = [carrier EXCEPT ![c].left = @ \ {v},
                                   ![c].pc = IF carrier[c].left = {v} THEN "exit" ELSE "alarm"]
  /\ UNCHANGED <<config, registry, queue, parked, counts, shutdown, client, slab, courier>>
-----------------------------------------------------------------------------
ClientStep(k) ==
  \/ Admit(k) \/ TakeStack(k) \/ TakeSlot(k) \/ Enqueue(k) \/ PushSpawned(k) \/ Register(k)
  \/ Abandon(k) \/ Unstack(k) \/ Deactivate(k)
  \/ Join(k) \/ Arm(k) \/ Recheck(k) \/ Withdraw(k) \/ Sleep(k) \/ Woke(k) \/ Chain(k)
  \/ Release(k) \/ RecycleDropped(k)
  \/ \E j \in Clients : CloneHandle(k, j)
CarrierStep(c) ==
  \/ Dequeue(c) \/ Steal(c) \/ Migrate(c) \/ Begin(c) \/ Yield(c) \/ Requeue(c)
  \/ Park(c) \/ MarkWaiting(c)
  \/ Finish(c) \/ FreeStack(c) \/ Settle(c) \/ SettleState(c) \/ SignalDone(c) \/ Publish(c)
  \/ Reclaim(c) \/ ReportTerminal(c)
  \/ Look(c) \/ Wait(c) \/ PollReady(c) \/ Deliver(c) \/ Cancel(c)
  \/ Error(c) \/ Alarm(c)
Next == \/ \E k \in Clients : ClientStep(k)
        \/ \E k \in Clients \cup {Stopper} : Notify(k)
        \/ \E c \in Carriers : CarrierStep(c)
        \/ Shutdown \/ Drive
Spec == Init /\ [][Next]_vars

\* Every carrier keeps running: task bodies give their carrier back, and the
\* source a parked task waits for becomes ready.  A caller inside
\* enqueue_with_signal or request_shutdown goes on signalling.
Fairness == /\ \A c \in Carriers : WF_vars(CarrierStep(c))
            /\ \A k \in Clients \cup {Stopper} : WF_vars(Notify(k))
LiveSpec == Spec /\ Fairness
-----------------------------------------------------------------------------
\* Where slot x is: entries of the free stack, entries of the ready queues, a
\* carrier that has it in hand, the waiters of a reactor (still in the table
\* or just polled), a spawn that has not queued it.
InHand == {"migrate", "begin", "unregistered", "run", "requeue", "unstack", "settle", "terminal",
           "signal", "publish"}
Waiters(c) == parked[c] \cup carrier[c].due
Places(x) ==
  {<<"free", n>> : n \in {m \in DOMAIN free : free[m] = x}}
  \cup UNION {{<<"queue", c, n>> : n \in {m \in DOMAIN queue[c] : queue[c][m] = x}} : c \in Carriers}
  \cup {<<"carrier", c>> : c \in {d \in Carriers : carrier[d].pc \in InHand /\ carrier[d].slot = x}}
  \cup {<<"waiter", c>> : c \in {d \in Carriers : \E w \in Waiters(d) : w.slot = x}}
  \cup {<<"client", k>> : k \in {j \in Clients : client[j].pc \in {"enqueue", "push", "abandon"}
                                                /\ client[j].slot = x}}

\* A task is in one place, however it is stolen, requeued, parked, polled or
\* abandoned: no slot is queued twice or free while it is queued, and while
\* the pool runs no unpublished task is lost.  A polled waiter's task had been
\* marked Waiting, although park_on_readiness registers it before it does so.
\* The exception: complete_spawn_reservation abandons a task it has already
\* queued when the courier's ledger refuses the fiber.
OnePlace ==
  ~refused =>
    /\ \A x \in Slots :
         /\ Cardinality(Places(x)) <= 1
         /\ task[x].id = 0 <=> \E n \in DOMAIN free : free[n] = x
         /\ task[x].id # 0 /\ ~done[x].published /\ ~shutdown => Places(x) # {}
    /\ \A c \in Carriers : On(c, "deliver") => \A w \in carrier[c].due :
         Alive(w.slot, w.id) /\ task[w.slot].state = "Waiting"

\* No carrier loop fails in a running pool: a slot taken from a victim's queue
\* can always be migrated, a dequeued slot holds a task, a requeue finds room,
\* and a fiber the ledger has let run is known to it until it is terminal.
\* Only enqueue_with_signal after shutdown makes a carrier leave by an error.
\* The exceptions: a spawn the ledger refused, and a carrier pool with a sink,
\* where a carrier may begin a task that complete_spawn_reservation has queued
\* and not yet registered.  In a current-thread pool that cannot happen.
ErrorMeansShutdown ==
  ~refused => \A c \in Carriers : /\ On(c, "error") => shutdown
                                  /\ On(c, "unregistered") => Hosted /\ config.sink

\* Admission by the active count is honest: the count is that of the spawns
\* under way and the unfinished tasks, every allocated stack belongs to one of
\* them and to one only, and an admitted spawn never finds the slab empty
\* (finish_task returns the stack before it lowers the count).
Spawning == {k \in Clients : client[k].pc \in {"stack", "slot", "unstack", "deactivate"}}
Live     == {x \in Slots : /\ task[x].id # 0 /\ ~Terminal(task[x].state)
                           /\ ~ \E c \in Carriers : On(c, "terminal") /\ carrier[c].slot = x}
Owners(s) ==
  {x \in Live : task[x].stack = s /\ ~ \E c \in Carriers : On(c, "settle") /\ carrier[c].slot = x}
  \cup {k \in Spawning : client[k].stack = s /\ client[k].pc # "deactivate"}
AdmissionHonest ==
  /\ SlabExact
  /\ ~refused => /\ active = Cardinality(Spawning) + Cardinality(Live)
                 /\ \A s \in Stacks : Cardinality(Owners(s)) = IF s \in allocated THEN 1 ELSE 0
                 /\ \A k \in Spawning : client[k].pc = "stack" => CanAcquire

\* A slot is never recycled under a handle: handle_refs is the number of
\* handles, and each handle's task is still the one in the slot, although the
\* last drop and finish_task both try to recycle.
Holders(x) == {k \in Clients : /\ client[k].slot = x
                               /\ client[k].pc \notin {"unstack", "deactivate", "recycle"}}
HandlesExact ==
  ~refused => \A x \in Slots : /\ done[x].refs = Cardinality(Holders(x))
                               /\ \A k \in Holders(x) : Alive(x, client[k].id)

\* A joiner asleep on a published task has a permit to take or a joiner awake
\* that will pass one on, whatever joiners withdraw meanwhile, and passing it
\* on never overflows the semaphore of one.  The exception: a joiner that
\* counted itself after signal_completed released (or had no semaphore to
\* release) and before it stored completion_published; nothing wakes it.  (A
\* slot that a refused spawn left queued may run a finished task again.)
JoinNotLost ==
  ~refused => \A k \in Clients :
    LET x == client[k].slot
        awake == {j \in Clients : client[j].slot = x /\ client[j].pc \in {"woke", "chain"}}
    IN  /\ client[k].pc = "sleep" /\ ~client[k].late /\ done[x].published
             => done[x].permit = 1 \/ awake # {}
        /\ client[k].pc = "chain" => done[x].permit = 0

\* The courier's ledger tells the truth: its live counts are those of its
\* records, and a fiber is recorded live exactly while its task is unfinished,
\* but for the fibers whose spawn or whose finish_task is under way.
UnderWay(f) ==
  \/ \E k \in Clients : /\ client[k].id = f
                        /\ client[k].pc \in {"enqueue", "push", "notify", "register", "abandon"}
  \/ \E c \in Carriers : /\ carrier[c].id = f
                         /\ carrier[c].pc \in {"signal", "publish", "reclaim", "report"}
LedgerTruth ==
  ~refused =>
    /\ \A class \in Classes :
         live[class] = Cardinality({f \in DOMAIN ledger : /\ ledger[f].class = class
                                                          /\ ledger[f].state # "Terminal"})
    /\ config.sink =>
         \A f \in 1..(next_id - 1) : ~UnderWay(f) =>
           ( f \in DOMAIN ledger /\ ledger[f].state # "Terminal"
               <=> \E x \in Slots : task[x].id = f /\ ~Terminal(task[x].state) )

\* Accepted tasks finish: in a pool that is not shut down, again and again
\* every task that was queued has been published, though a requeue and a polled
\* waiter are pushed without a signal and a stolen task changes its carrier.
Unqueued(i) == \E k \in Clients : client[k].id = i /\ client[k].pc \in {"enqueue", "push", "abandon"}
Unfinished  == {x \in Slots : task[x].id # 0 /\ ~done[x].published /\ ~Unqueued(task[x].id)}
TasksFinish == []<>(Hosted /\ ~shutdown => Unfinished = {})

\* After a shutdown request every carrier loop returns, parked tasks and
\* errors of the loops included.
CarriersExit == Hosted /\ shutdown ~> \A c \in config.lanes : On(c, "exit")
=============================================================================
