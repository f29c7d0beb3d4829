------------------------- MODULE DriverNotifyProofs -------------------------
(***************************************************************************)
(* The reactor's driver is told: what is left for it to do while it may    *)
(* sleep in the poller is behind a raised flag, a finite poll or a thread  *)
(* that will still raise the flag.                                         *)
(***************************************************************************)
EXTENDS ReactorDriverProofs

\* Every leaf is tried with the SMT solver, then with Zenon, then with Z3 for longer.
USE SMTT(20), ZenonT(20), Z3T(40)

\* What is behind DriverNotified.  The driver will look at the flag and go through
\* the tables again before it next sleeps in the poller; ...
Restarting ==
  \/ driver.pc \in {"off", "check", "resolve", "due again", "exit", "sleep"}
  \/ At("collect") /\ driver.then = "check"
  \/ /\ At("store") \/ At("schedule")
     /\ driver.hand.kind = "ready" \/ (driver.hand.kind = "sleep" /\ driver.then = "check")

\* ... it will still empty the list of keys; ...
Flushing == Restarting \/ At("flush")

\* ... it will still come past the slot and find the entry there.
Scans(i) ==
  \/ Flushing
  \/ At("activate") /\ driver.i <= i
  \/ /\ At("publish") \/ At("reject")
     /\ driver.i < i \/ (driver.i = i /\ driver.hand.gen = waits[i].gen)
  \/ (At("store") \/ At("schedule")) /\ driver.hand.kind = "error" /\ driver.i < i

\* An entry belongs to the task of its slot, which is live while it waits.
Tidy(i) ==
  /\ waits[i] # None => waits[i].gen = task[i].gen /\ (Holds(i) \/ task[i].pc = "poll")
  /\ Holds(i) => task[i].live
  /\ task[i].live => task[i].gen > 0
  /\ task[i].pc = "poll" \/ (task[i].pc = "signal" /\ task[i].then = "poll") => task[i].live
  /\ task[i].pc = "clear" => ~Holds(i)

\* Shutdown has taken the entry of the slot it is at.
Shut(i) ==
  Closing(i) => /\ waits[i] = None
                /\ closer.key # None => task[i].gen > 0 /\ (Holds(i) \/ At("exit"))

\* It begins when no task is polled any more, and a driver has had a task.
Begun == closer.pc # "up" \/ closer.i # 1
Stopped == Begun => drained /\ \A i \in Slots : task[i].pc \in {"idle", "lost"}
Started == ~At("off") => \E i \in Slots : task[i].gen > 0

\* A task is on its way to signal_driver with nothing more to queue.
Telling(i) == task[i].pc = "signal" \/ (task[i].pc = "clear" /\ task[i].key = None)

\* What the driver is told, or sees by itself: the waits of a slot, ...
Told(i) ==
  /\ Kind(waits[i]) = "pending" => Untold(i) \/ signalled \/ Scans(i)
  /\ At("poll") /\ Kind(waits[i]) = "sleep" =>
       Untold(i) \/ signalled \/ (driver.until # None /\ driver.until <= waits[i].what)

\* ... keys to deregister, ...
KeysTold ==
  pending_deregister # {} =>
    \/ signalled \/ Flushing
    \/ closer.pc = "fail" /\ closer.key = None /\ task[closer.i].gen > 0
    \/ \E i \in Slots : Telling(i)

\* ... and the end of the executor.
EndTold ==
  (\E i \in Slots : task[i].gen > 0 /\ (i < closer.i \/ closer.pc \in {"join", "down"})) =>
    signalled \/ Restarting

NotifyInv ==
  /\ \A i \in Slots : Tidy(i) /\ Shut(i) /\ Told(i)
  /\ Stopped /\ Started /\ KeysTold /\ EndTold

\* A step of a task at its own slot: it keeps the entry in order, takes no byte
\* from the pipe, and leaves no wait and no key that the driver is not told of.
LEMMA TaskTells ==
  ASSUME RTypes, NEW i \in Slots, TaskStep(i), Tidy(i)
  PROVE  /\ Tidy(i)' /\ (signalled => signalled') /\ (task[i].gen > 0 => task'[i].gen > 0)
         /\ \/ waits'[i] = None \/ Untold(i)' \/ signalled' \/ At("off")
            \/ waits'[i] = waits[i] /\ ~Untold(i)
         /\ pending_deregister' = pending_deregister \/ Telling(i)' \/ signalled' \/ At("off")
         /\ Telling(i) => Telling(i)' \/ signalled' \/ At("off")
         /\ At("off") /\ ~At("off")' => task'[i].gen > 0
<1>. USE DEF reactor
<1>. DEFINE Goal == /\ Tidy(i)' /\ (signalled => signalled') /\ (task[i].gen > 0 => task'[i].gen > 0)
                    /\ \/ waits'[i] = None \/ Untold(i)' \/ signalled' \/ At("off")
                       \/ waits'[i] = waits[i] /\ ~Untold(i)
                    /\ pending_deregister' = pending_deregister \/ Telling(i)' \/ signalled' \/ At("off")
                    /\ Telling(i) => Telling(i)' \/ signalled' \/ At("off")
                    /\ At("off") /\ ~At("off")' => task'[i].gen > 0
<1>0. /\ task \in [Slots -> Tasks] /\ task[i] \in Tasks /\ waits \in [Slots -> Maybe(Registered)]
      /\ driver \in Drivers /\ task[i].gen \in Nat
  BY AtSlot DEF RTypes
<1>. USE <1>0 DEF Tidy, Holds, Untold, Telling, At
<1>1. ASSUME NEW kind, NEW what, StartWait(i, kind, what) PROVE Goal
  <2>. DEFINE w == Entry(kind, what, task[i].gen, task[i].n + 1)
  <2>1. w.gen = task[i].gen
    BY DEF Entry
  <2>2. /\ waits'[i] = w /\ task'[i].wait = w /\ task'[i].pc = "started" /\ task'[i].gen = task[i].gen
        /\ task'[i].live = task[i].live
    BY <1>1 DEF StartWait, Tasks
  <2>. QED
    BY <1>1, <2>1, <2>2 DEF StartWait
<1>2. ASSUME Spawn(i) PROVE Goal
  <2>1. task'[i] = NewTask(task[i].gen + 1)
    BY <1>2 DEF Spawn
  <2>2. /\ task'[i].pc = "idle" /\ task'[i].wait = None /\ task'[i].live
        /\ task'[i].gen = task[i].gen + 1 /\ task[i].gen \in Nat
    BY <2>1 DEF NewTask, Tasks
  <2>3. task[i].pc = "idle" /\ ~task[i].live
    BY <1>2 DEF Spawn
  <2>. QED
    BY <1>2, <2>2, <2>3 DEF Spawn
<1>3. ASSUME PollTask(i) PROVE Goal
  BY <1>3 DEF PollTask, Tasks
<1>4. ASSUME ResetOutcome(i) PROVE Goal
  BY <1>4 DEF ResetOutcome, Tasks
<1>5. ASSUME SignalDriver(i) PROVE Goal
  BY <1>5 DEF SignalDriver, Tasks, WriteByte
<1>6. ASSUME TakeOutcome(i) PROVE Goal
  BY <1>6 DEF TakeOutcome, Tasks
<1>7. ASSUME DropWait(i) PROVE Goal
  BY <1>7 DEF DropWait, ClearEntry, Mine, Tasks
<1>8. ASSUME DeferKey(i) PROVE Goal
  BY <1>8 DEF DeferKey, Defer, Tasks
<1>9. ASSUME ClearOutcome(i) PROVE Goal
  BY <1>9 DEF ClearOutcome, Tasks
<1>10. ASSUME FinishTask(i) PROVE Goal
  BY <1>10 DEF FinishTask, Mine, Tasks
<1>11. ASSUME EndPending(i) PROVE Goal
  <2>1. CASE Settled(i)
    <3>1. task'[i] = [NewTask(task[i].gen) EXCEPT !.live = FALSE, !.scheduled = FALSE]
      BY <2>1 DEF Settled
    <3>. QED
      BY <1>11, <2>1, <3>1, Zenon DEF EndPending, Settled, Mine, WriteByte, NewTask
  <2>2. CASE ~Settled(i)
    BY <1>11, <2>2 DEF EndPending, TaskAt, Tasks
  <2>. QED
    BY <2>1, <2>2
<1>. QED
  BY <1>1, <1>2, <1>3, <1>4, <1>5, <1>6, <1>7, <1>8, <1>9, <1>10, <1>11, Zenon
     DEF TaskStep, QueueReadinessWait, RegisterSleepWait

\* The driver goes round: what it was going to do it still does, or has done.
LEMMA DriverGoesOn ==
  ASSUME RTypes, Least, DriverStep
  PROVE  /\ Restarting => Restarting' \/ (At("flush")' /\ ~shutdown_requested)
         /\ Flushing => Flushing' \/ (At("activate")' /\ driver'.i = 1 /\ pending_deregister' = {})
         /\ signalled => signalled' \/ Restarting'
         /\ pending_deregister' \subseteq pending_deregister \/ signalled'
         /\ ~At("off") /\ ~At("exit")
<1>. USE DEF reactor
<1>. DEFINE Goal == /\ Restarting => Restarting' \/ (At("flush")' /\ ~shutdown_requested)
                    /\ Flushing => Flushing' \/ (At("activate")' /\ driver'.i = 1 /\ pending_deregister' = {})
                    /\ signalled => signalled' \/ Restarting'
                    /\ pending_deregister' \subseteq pending_deregister \/ signalled'
                    /\ ~At("off") /\ ~At("exit")
<1>0. driver \in Drivers
  BY DEF RTypes
<1>. USE <1>0 DEF Restarting, Flushing, At
<1>1. ASSUME CheckShutdown PROVE Goal
  <2>1. driver'.pc = IF shutdown_requested THEN "exit" ELSE "flush"
    BY <1>1 DEF CheckShutdown, Move, Drivers
  <2>. QED
    BY <1>1, <2>1 DEF CheckShutdown
<1>10. ASSUME Flush PROVE Goal
  <2>1. CASE driver' = driver
    BY <1>10, <2>1, Zenon DEF Flush
  <2>2. CASE pending_deregister = {} /\ Move("activate") /\ UNCHANGED pending_deregister
    <3>1. driver'.pc = "activate" /\ driver'.i = 1
      BY <2>2 DEF Move, Drivers
    <3>. QED
      BY <1>10, <2>2, <3>1 DEF Flush
  <2>. QED
    BY <1>10, <2>1, <2>2, Zenon DEF Flush
<1>2. ASSUME Activate \/ Publish \/ Reject PROVE Goal
  <2>1. driver.pc \in {"activate", "publish", "reject"} /\ UNCHANGED <<signalled, pending_deregister>>
    BY <1>2 DEF Activate, Publish, Reject
  <2>. QED
    BY <2>1, Zenon
<1>3. ASSUME LookForTimers PROVE Goal
  BY <1>3, Zenon DEF LookForTimers, Drivers
<1>4. ASSUME CollectDue PROVE Goal
  <2>1. CASE Kind(MyWait) = "sleep" /\ MyWait.what <= driver.now
    <3>1. driver' = [driver EXCEPT !.pc = "store", !.hand = MyWait] /\ MyWait.kind = "sleep"
      BY <1>4, <2>1 DEF CollectDue, Kind
    <3>. QED
      BY <1>4, <3>1 DEF CollectDue, Drivers
  <2>2. CASE ~(Kind(MyWait) = "sleep" /\ MyWait.what <= driver.now)
    <3>1. Past("collect", driver.then)
      BY <1>4, <2>2 DEF CollectDue
    <3>. QED
      BY <1>4, <3>1, Zenon DEF CollectDue, Past, Move, Drivers
  <2>. QED
    BY <2>1, <2>2, Zenon
<1>5. ASSUME StoreOutcome PROVE Goal
  BY <1>5 DEF StoreOutcome, Drivers
<1>6. ASSUME ScheduleSlot PROVE Goal
  <2>0. At("schedule") /\ driver.hand.kind \in {"ready", "sleep", "error"}
    BY <1>6 DEF ScheduleSlot, RTypes, Outcomes, Entries
  <2>1. CASE Settled(driver.i) /\ Move("exit")
    <3>1. signalled' /\ driver'.pc = "exit"
      BY <2>0, <2>1, Zenon DEF Settled, WriteByte, Move, Drivers
    <3>. QED
      BY <2>0, <3>1
  <2>2. CASE /\ UNCHANGED <<pending_deregister, signalled>>
             /\ \/ driver.hand.kind = "error" /\ Past("activate", "due")
                \/ driver.hand.kind = "sleep" /\ Past("collect", driver.then)
                \/ driver.hand.kind = "ready" /\ Move("resolve")
    BY <2>0, <2>2, Zenon DEF Past, Move, Drivers
  <2>. QED
    BY <1>6, <2>0, <2>1, <2>2, Zenon DEF ScheduleSlot
<1>7. ASSUME LookForWaiters \/ Choose \/ Sleep PROVE Goal
  <2>1. UNCHANGED <<signalled, pending_deregister>> /\ driver.pc \in {"look", "choose", "sleep"}
    BY <1>7 DEF LookForWaiters, Choose, Sleep
  <2>2. driver.pc = "sleep" => driver'.pc = "collect" /\ driver'.then = "check"
    BY <1>7, Zenon DEF LookForWaiters, Choose, Sleep, Drivers
  <2>. QED
    BY <2>1, <2>2, Zenon
<1>8. ASSUME Poll \/ Drain PROVE Goal
  BY <1>8, Zenon DEF Poll, Drain, Drivers
<1>9. ASSUME Resolve PROVE Goal
  <2>1. driver.pc = "resolve" /\ UNCHANGED <<signalled, pending_deregister>>
    BY <1>9 DEF Resolve
  <2>2. driver'.pc = "resolve" \/ (driver'.pc = "store" /\ driver'.hand.kind = "ready")
    BY <1>9, <2>1, ResolveCases, Zenon DEF ResolveNone, ResolveEntry, Drivers, Kind
  <2>. QED
    BY <2>1, <2>2, Zenon
<1>. QED
  BY <1>1, <1>2, <1>3, <1>4, <1>5, <1>6, <1>7, <1>8, <1>9, <1>10, Zenon DEF DriverStep

\* A pending wait that the driver was going to come past is still before it.
LEMMA DriverScans ==
  ASSUME RTypes, Least, DriverStep, NEW j \in Slots, Kind(waits'[j]) = "pending"
  PROVE  waits'[j] = waits[j] /\ (Scans(j) => Scans(j)')
<1>. USE DEF reactor
<1>. DEFINE i == driver.i
<1>0. /\ driver \in Drivers /\ i \in Slots /\ waits \in [Slots -> Maybe(Registered)]
      /\ SlotCount \in Nat /\ Slots = 1..SlotCount /\ i \in Nat /\ j \in Nat /\ 1 <= j /\ j <= SlotCount
      /\ At("store") \/ At("schedule") => driver.hand.kind \in {"ready", "sleep", "error"}
  BY WorkloadAssumption DEF RTypes, Drivers, Slots, SlotCount, At, Outcomes, Entries
<1>1. waits'[j] = waits[j] /\ ~Published(j)
  <2>1. ASSUME Published(j) PROVE waits'[j] # None => waits'[j].kind = "ready"
    BY <1>0, <2>1 DEF Published, StillPending, Kind, MyWait, Maybe, Registered, Entries
  <2>. QED
    BY <2>1, DriverEntries DEF Kind
<1>2. ASSUME Flushing PROVE Scans(j)'
  BY <1>0, <1>2, DriverGoesOn DEF Scans, Flushing
<1>3. ASSUME Past("activate", "due"), i < j PROVE Scans(j)'
  <2>1. driver' = [driver EXCEPT !.pc = "activate", !.i = i + 1, !.hand = None]
    BY <1>0, <1>3 DEF Past
  <2>2. driver'.pc = "activate" /\ driver'.i = i + 1
    BY <1>0, <2>1 DEF Drivers
  <2>. QED
    BY <1>0, <1>3, <2>2 DEF Scans, At
<1>4. ASSUME At("activate"), i <= j PROVE Scans(j)'
  <2>1. Activate
    BY <1>4, Zenon DEF DriverStep, Activate, At, CheckShutdown, Flush, Publish, Reject, LookForTimers,
       CollectDue, StoreOutcome, ScheduleSlot, LookForWaiters, Choose, Sleep, Poll, Resolve, Drain
  <2>2. CASE Kind(MyWait) # "pending"
    BY <1>0, <1>1, <1>3, <1>4, <2>1, <2>2 DEF Activate, MyWait
  <2>3. CASE Kind(MyWait) = "pending"
    <3>1. /\ driver'.pc \in {"publish", "reject"} /\ driver'.i = i /\ driver'.hand = waits[i]
      BY <1>0, <2>1, <2>3, Zenon DEF Activate, MyWait, Drivers
    <3>. QED
      BY <1>0, <1>1, <1>4, <3>1 DEF Scans, At
  <2>. QED
    BY <2>2, <2>3
<1>5. ASSUME At("publish") \/ At("reject"), i < j \/ (i = j /\ driver.hand.gen = waits[j].gen)
      PROVE  Scans(j)'
  <2>1. Publish \/ Reject
    BY <1>5, Zenon DEF DriverStep, Activate, At, CheckShutdown, Flush, Publish, Reject, LookForTimers,
       CollectDue, StoreOutcome, ScheduleSlot, LookForWaiters, Choose, Sleep, Poll, Resolve, Drain
  <2>2. i < j
    <3>1. ASSUME i = j PROVE StillPending
      BY <1>0, <1>1, <1>5, <3>1 DEF StillPending, MyWait
    <3>2. ASSUME Publish, i = j PROVE FALSE
      BY <1>0, <1>1, <3>1, <3>2 DEF Publish, Published
    <3>3. ASSUME Reject, i = j PROVE FALSE
      BY <1>0, <3>1, <3>3 DEF Reject, Kind
    <3>. QED
      BY <1>5, <2>1, <3>2, <3>3
  <2>3. CASE Publish
    BY <1>3, <2>2, <2>3 DEF Publish
  <2>4. CASE Reject
    <3>1. driver'.pc = "store" /\ driver'.i = i /\ driver'.hand.kind = "error"
      BY <1>0, <2>4 DEF Reject, RTypes, Drivers, Entries, At
    <3>. QED
      BY <2>2, <3>1 DEF Scans, At
  <2>. QED
    BY <2>1, <2>3, <2>4
<1>6. ASSUME At("store") \/ At("schedule"), driver.hand.kind = "error", i < j PROVE Scans(j)'
  <2>1. StoreOutcome \/ ScheduleSlot
    BY <1>6, Zenon DEF DriverStep, Activate, At, CheckShutdown, Flush, Publish, Reject, LookForTimers,
       CollectDue, StoreOutcome, ScheduleSlot, LookForWaiters, Choose, Sleep, Poll, Resolve, Drain
  <2>2. CASE StoreOutcome
    BY <1>0, <1>6, <2>2 DEF StoreOutcome, Drivers, Scans, At
  <2>3. CASE ScheduleSlot
    <3>1. Move("exit") \/ Past("activate", "due")
      BY <1>6, <2>3, Zenon DEF ScheduleSlot
    <3>2. ASSUME Move("exit") PROVE Scans(j)'
      BY <1>0, <3>2 DEF Move, Drivers, Scans, Flushing, Restarting, At
    <3>. QED
      BY <1>3, <1>6, <3>1, <3>2
  <2>. QED
    BY <2>1, <2>2, <2>3
<1>. QED
  BY <1>1, <1>2, <1>4, <1>5, <1>6 DEF Scans

\* When it goes to sleep in the poller, no timer is due before it wakes.
LEMMA DriverSleeps ==
  ASSUME ReactorTypes, Least, DriverStep, At("poll")', NEW j \in Slots, Kind(waits'[j]) = "sleep"
  PROVE  driver'.until # None /\ driver'.until <= waits'[j].what
<1>0. driver \in Drivers /\ driver.then \in {"look", "check"}
  BY DEF ReactorTypes, RTypes, Drivers
<1>1. Choose
  <2>1. ASSUME NEW l \in {"activate", "collect"}, NEW m \in {"due", "look", "check"}, Past(l, m)
        PROVE  driver'.pc # "poll"
    BY <1>0, <2>1, Zenon DEF Past, Move, Drivers
  <2>2. ASSUME CheckShutdown \/ Flush PROVE driver'.pc # "poll"
    BY <1>0, <2>2, Zenon DEF CheckShutdown, Flush, Move, Drivers, At
  <2>3. ASSUME Activate \/ Publish \/ Reject PROVE driver'.pc # "poll"
    BY <1>0, <2>1, <2>3, Zenon DEF Activate, Publish, Reject, Drivers
  <2>4. ASSUME LookForTimers \/ CollectDue \/ StoreOutcome PROVE driver'.pc # "poll"
    BY <1>0, <2>1, <2>4, Zenon DEF LookForTimers, CollectDue, StoreOutcome, Drivers
  <2>5. ASSUME ScheduleSlot PROVE driver'.pc # "poll"
    <3>1. driver.hand.kind \in {"ready", "sleep", "error"}
      BY <2>5 DEF ScheduleSlot, ReactorTypes, RTypes, Outcomes, Entries, At
    <3>2. Move("exit") \/ Move("resolve") \/ Past("activate", "due") \/ Past("collect", driver.then)
      BY <2>5, <3>1, Zenon DEF ScheduleSlot
    <3>. QED
      BY <1>0, <2>1, <3>2, Zenon DEF Move, Drivers
  <2>6. ASSUME LookForWaiters \/ Sleep \/ Poll \/ Drain PROVE driver'.pc # "poll"
    BY <1>0, <2>6, Zenon DEF LookForWaiters, Sleep, Poll, Drain, Drivers
  <2>7. ASSUME Resolve PROVE driver'.pc # "poll"
    BY <1>0, <2>7, ResolveCases, Zenon DEF ResolveNone, ResolveEntry, Drivers, At
  <2>. QED
    BY <2>2, <2>3, <2>4, <2>5, <2>6, <2>7, Zenon DEF DriverStep, At
<1>. DEFINE deadlines == {waits[k].what : k \in Sleeps}
<1>2. waits' = waits
  BY <1>1 DEF Choose, reactor
<1>3. j \in Sleeps /\ waits[j].what \in deadlines /\ deadlines \in SUBSET Nat
  BY <1>2 DEF Sleeps, ReactorTypes, TimerTypes
<1>4. Min(deadlines) \in Nat /\ Min(deadlines) <= waits[j].what
  BY <1>3, Zenon DEF Least
<1>5. driver'.until = Min(deadlines)
  BY <1>0, <1>1, <1>3, Zenon DEF Choose, Drivers
<1>6. None \notin Nat
  BY WorkloadAssumption DEF Wants
<1>. QED
  BY <1>2, <1>4, <1>5, <1>6

\* The driver marks a task, or fails it and ends.
SameTask(j) ==
  /\ task'[j].pc = task[j].pc /\ task'[j].gen = task[j].gen /\ task'[j].live = task[j].live
  /\ task'[j].wait = task[j].wait /\ task'[j].key = task[j].key /\ task'[j].then = task[j].then

LEMMA DriverTasks ==
  ASSUME RTypes, DriverStep, NEW j \in Slots
  PROVE  SameTask(j) \/ (Settled(j) /\ task[j].pc = "idle" /\ At("exit")')
<1>. USE DEF reactor
<1>0. /\ task \in [Slots -> Tasks] /\ task[j] \in Tasks /\ driver \in Drivers /\ driver.i \in Slots
  BY DEF RTypes, Drivers
<1>1. ASSUME ScheduleSlot PROVE SameTask(j) \/ (Settled(j) /\ task[j].pc = "idle" /\ At("exit")')
  <2>1. CASE Settled(driver.i) /\ MyTask.pc = "idle" /\ Move("exit")
    <3>1. At("exit")'
      BY <1>0, <2>1 DEF Move, Drivers, At
    <3>2. ASSUME driver.i # j PROVE SameTask(j)
      BY <1>0, <2>1, <3>2, Zenon DEF Settled, SameTask
    <3>. QED
      BY <2>1, <3>1, <3>2 DEF MyTask
  <2>2. ASSUME NEW b \in BOOLEAN, task' = [task EXCEPT ![driver.i].scheduled = b] PROVE SameTask(j)
    BY <1>0, <2>2 DEF SameTask, Tasks
  <2>3. \/ Settled(driver.i) /\ MyTask.pc = "idle" /\ Move("exit")
        \/ \E b \in BOOLEAN : task' = [task EXCEPT ![driver.i].scheduled = b]
    <3>. DEFINE wanted == MyTask.live /\ MyTask.gen = driver.hand.gen /\ ~MyTask.scheduled
    <3>1. CASE task' = [task EXCEPT ![driver.i].scheduled = @ \/ wanted]
      <4>1. (task[driver.i].scheduled \/ wanted) \in BOOLEAN
        BY Zenon
      <4>. QED
        BY <3>1, <4>1, Zenon
    <3>2. CASE Settled(driver.i) /\ MyTask.pc = "idle" /\ Move("exit")
      BY <3>2
    <3>. QED
      BY <1>1, <3>1, <3>2, Zenon DEF ScheduleSlot
  <2>. QED
    BY <2>1, <2>2, <2>3, Zenon
<1>2. CASE task' = task
  BY <1>2 DEF SameTask
<1>. QED
  BY <1>1, <1>2, Zenon DEF DriverStep, CheckShutdown, Flush, Activate, Publish, Reject, LookForTimers,
     CollectDue, StoreOutcome, LookForWaiters, Choose, Sleep, Poll, Resolve, Drain

\* Every step of the driver keeps the entries in order, ...
LEMMA DriverTidies ==
  ASSUME RTypes, DriverStep, closer' = closer, NEW j \in Slots, Tidy(j), Shut(j), ~At("exit")
  PROVE  Tidy(j)' /\ Shut(j)' /\ task'[j].gen = task[j].gen
<1>0. task \in [Slots -> Tasks] /\ task[j] \in Tasks /\ waits \in [Slots -> Maybe(Registered)]
  BY DEF RTypes
<1>1. CASE Settled(j) /\ task[j].pc = "idle" /\ At("exit")'
  <2>1. task'[j] = [NewTask(task[j].gen) EXCEPT !.live = FALSE, !.scheduled = FALSE]
    BY <1>0, <1>1 DEF Settled
  <2>2. /\ task'[j].gen = task[j].gen /\ ~task'[j].live /\ task'[j].wait = None /\ task'[j].pc = "idle"
    BY <2>1 DEF NewTask
  <2>3. waits'[j] = None
    BY <1>0, <1>1 DEF Settled, Mine, Tidy
  <2>. QED
    BY <1>1, <2>2, <2>3 DEF Tidy, Shut, Closing, Holds
<1>2. CASE SameTask(j)
  <2>1. \/ waits'[j] = None
        \/ waits[j] # None /\ waits'[j].gen = waits[j].gen
    <3>1. ASSUME Published(j) PROVE waits[j] # None /\ waits'[j].gen = waits[j].gen
      BY <1>0, <3>1 DEF Published, StillPending, Kind, MyWait, Maybe, Registered, Entries
    <3>. QED
      BY <3>1, DriverEntries
  <2>. QED
    BY <1>2, <2>1, Zenon DEF Tidy, Shut, Closing, Holds, SameTask
<1>. QED
  BY <1>1, <1>2, DriverTasks

\* ... and no step of a task follows the beginning of the end.
LEMMA TasksStopped ==
  ASSUME Stopped, drained => shutdown_requested, NEW i \in Slots, TaskStep(i)
  PROVE  ~Begun
<1>. SUFFICES ASSUME drained, shutdown_requested, task[i].pc \in {"idle", "lost"} PROVE FALSE
  BY DEF Stopped
<1>. QED
  BY Zenon DEF TaskStep, Spawn, PollTask, ResetOutcome, SignalDriver, TakeOutcome, DropWait, DeferKey,
     ClearOutcome, FinishTask, EndPending, QueueReadinessWait, RegisterSleepWait, StartWait

\* Every step of a task keeps the invariant, ...
LEMMA TaskNotifies ==
  ASSUME RTypes, NotifyInv, drained => shutdown_requested, Slots' = Slots,
         NEW i \in Slots, TaskStep(i)
  PROVE  NotifyInv'
<1>. USE DEF NotifyInv
<1>0. ~Begun /\ closer.pc = "up" /\ closer.i = 1 /\ closer' = closer
  BY TasksStopped, TaskLocal DEF Begun
<1>1. /\ \A j \in Slots \ {i} : waits'[j] = waits[j] /\ task'[j] = task[j]
      /\ driver' = driver \/ (At("off") /\ driver'.pc = "check")
  BY TaskLocal DEF RTypes, Drivers
<1>2. /\ Tidy(i)' /\ (signalled => signalled') /\ (task[i].gen > 0 => task'[i].gen > 0)
      /\ \/ waits'[i] = None \/ Untold(i)' \/ signalled' \/ At("off")
         \/ waits'[i] = waits[i] /\ ~Untold(i)
      /\ pending_deregister' = pending_deregister \/ Telling(i)' \/ signalled' \/ At("off")
      /\ Telling(i) => Telling(i)' \/ signalled' \/ At("off")
      /\ At("off") /\ ~At("off")' => task'[i].gen > 0
  BY TaskTells
<1>3. At("off") => Restarting' /\ ~At("poll")'
  BY <1>1, Zenon DEF At, Restarting
<1>4. ASSUME NEW j \in Slots PROVE (Tidy(j) /\ Shut(j) /\ Told(j))'
  <2>1. Tidy(j)'
    <3>1. CASE j = i
      BY <1>2, <3>1
    <3>2. CASE j # i
      <4>1. Tidy(j) /\ waits'[j] = waits[j] /\ task'[j] = task[j]
        BY <1>1, <3>2
      <4>. QED
        BY <4>1, Zenon DEF Tidy, Holds
    <3>. QED
      BY <3>1, <3>2
  <2>2. Shut(j)'
    BY <1>0 DEF Shut, Closing
  <2>3. ASSUME At("off") PROVE Told(j)'
    BY <1>3, <2>3 DEF Told, Scans, Flushing
  <2>4. ASSUME ~At("off") PROVE Told(j)'
    <3>1. driver' = driver
      BY <1>1, <2>4
    <3>2. ASSUME waits'[j] = waits[j] PROVE Scans(j)' <=> Scans(j)
      BY <3>1, <3>2 DEF Scans, Flushing, Restarting, At
    <3>3. CASE signalled'
      BY <3>3 DEF Told
    <3>4. CASE waits'[j] = waits[j] /\ (Untold(j) => Untold(j)')
      BY <1>2, <3>1, <3>2, <3>4 DEF Told, At
    <3>5. CASE waits'[j] = None \/ Untold(j)'
      BY <3>5 DEF Told, Kind
    <3>. QED
      BY <1>1, <1>2, <2>4, <3>3, <3>4, <3>5 DEF Untold
  <2>. QED
    BY <2>1, <2>2, <2>3, <2>4
<1>5. Stopped' /\ EndTold'
  BY <1>0 DEF Stopped, Begun, EndTold, Slots
<1>6. Started'
  BY <1>1, <1>2 DEF Started, At
<1>7. KeysTold'
  <2>1. CASE signalled' \/ At("off") \/ Telling(i)'
    BY <1>3, <2>1 DEF KeysTold, Flushing
  <2>2. CASE ~(signalled' \/ At("off") \/ Telling(i)')
    <3>1. driver' = driver /\ ~signalled /\ ~Telling(i) /\ pending_deregister' = pending_deregister
      BY <1>1, <1>2, <2>2
    <3>2. \A j \in Slots : Telling(j) => Telling(j)'
      BY <1>1, <3>1 DEF Telling
    <3>. QED
      BY <1>0, <3>1, <3>2, Zenon DEF KeysTold, Flushing, Restarting, At
  <2>. QED
    BY <2>1, <2>2
<1>. QED
  BY <1>4, <1>5, <1>6, <1>7

\* ... every step of the driver, ...
LEMMA DriverNotifies ==
  ASSUME ReactorTypes, Least, NotifyInv, drained => shutdown_requested, UNCHANGED flags,
         Slots' = Slots, DriverStep
  PROVE  NotifyInv'
<1>. USE DEF NotifyInv
<1>0. RTypes /\ closer' = closer /\ closer.i \in Slots /\ Slots \subseteq Nat
  <2>1. closer' = closer
    BY Zenon DEF DriverStep, CheckShutdown, Flush, Activate, Publish, Reject, LookForTimers, CollectDue,
       StoreOutcome, ScheduleSlot, LookForWaiters, Choose, Sleep, Poll, Resolve, Drain
  <2>. QED
    BY <2>1 DEF ReactorTypes, RTypes, Closers, Slots
<1>1. /\ Restarting => Restarting' \/ (At("flush")' /\ ~shutdown_requested)
      /\ Flushing => Flushing' \/ (At("activate")' /\ driver'.i = 1 /\ pending_deregister' = {})
      /\ signalled => signalled' \/ Restarting'
      /\ pending_deregister' \subseteq pending_deregister \/ signalled'
      /\ ~At("off") /\ ~At("exit")
  BY <1>0, DriverGoesOn
<1>2. \A j \in Slots : Tidy(j)' /\ Shut(j)' /\ task'[j].gen = task[j].gen
  BY <1>0, <1>1, DriverTidies
<1>3. ASSUME NEW j \in Slots
      PROVE  \/ task'[j].pc = task[j].pc /\ task'[j].key = task[j].key
             \/ task[j].pc = "idle" /\ task'[j].pc = "idle"
  <2>1. ASSUME Settled(j) PROVE task'[j].pc = "idle"
    BY <1>0, <2>1 DEF Settled, NewTask, RTypes
  <2>. QED
    BY <1>0, <2>1, DriverTasks DEF SameTask
<1>4. ASSUME NEW j \in Slots PROVE (Untold(j)' <=> Untold(j)) /\ (Telling(j)' <=> Telling(j))
  BY <1>3 DEF Untold, Telling
<1>5. ASSUME NEW j \in Slots PROVE Told(j)'
  <2>1. ASSUME Kind(waits'[j]) = "pending" PROVE (Untold(j) \/ signalled \/ Scans(j))'
    <3>1. Kind(waits[j]) = "pending" /\ (Scans(j) => Scans(j)')
      BY <1>0, <2>1, DriverScans
    <3>. QED
      BY <1>1, <1>4, <3>1, Zenon DEF Told, Scans, Flushing
  <2>2. ASSUME At("poll")', Kind(waits'[j]) = "sleep"
        PROVE  driver'.until # None /\ driver'.until <= waits'[j].what
    BY <2>2, DriverSleeps
  <2>. QED
    BY <2>1, <2>2 DEF Told
<1>6. Stopped'
  BY <1>0, <1>3, Zenon DEF Stopped, Begun, drained, flags
<1>7. Started'
  BY <1>1, <1>2 DEF Started
<1>8. KeysTold'
  BY <1>0, <1>1, <1>2, <1>4, Zenon DEF KeysTold, Flushing
<1>9. EndTold'
  <2>. SUFFICES ASSUME NEW j \in Slots, task'[j].gen > 0, j < closer.i \/ closer.pc \in {"join", "down"}
                PROVE  signalled' \/ Restarting'
    BY <1>0 DEF EndTold
  <2>1. Begun
    BY <1>0 DEF Begun, Slots
  <2>2. shutdown_requested
    BY <2>1 DEF Stopped
  <2>3. signalled \/ Restarting
    BY <1>2 DEF EndTold
  <2>. QED
    BY <1>1, <2>2, <2>3
<1>. QED
  BY <1>2, <1>5, <1>6, <1>7, <1>8, <1>9

\* ... and every step of the thread in shutdown.
LEMMA CloserNotifies ==
  ASSUME ReactorTypes, NotifyInv, UNCHANGED flags, Slots' = Slots, SlotCount' = SlotCount, CloserStep
  PROVE  NotifyInv'
<1>. USE DEF NotifyInv, reactor
<1>. DEFINE k == closer.i
<1>0. /\ task \in [Slots -> Tasks] /\ waits \in [Slots -> Maybe(Registered)] /\ closer \in Closers
      /\ k \in Slots /\ SlotCount \in Nat /\ Slots = 1..SlotCount /\ task[k] \in Tasks
  BY WorkloadAssumption DEF ReactorTypes, RTypes, Closers, Slots, SlotCount
<1>1. driver' = driver
  BY DEF CloserStep, CloseEntry, CloseKey, CloseTask, JoinDriver
<1>2. (Restarting' <=> Restarting) /\ (Flushing' <=> Flushing)
  BY <1>1 DEF Restarting, Flushing, At
<1>3. ASSUME NEW j \in Slots, waits'[j] = waits[j], Untold(j)' <=> Untold(j), Told(j),
             signalled => signalled'
      PROVE  Told(j)'
  <2>1. Scans(j)' <=> Scans(j)
    BY <1>1, <1>2, <1>3 DEF Scans, At
  <2>. QED
    BY <1>1, <1>3, <2>1 DEF Told, At
<1>4. ASSUME CloseEntry PROVE NotifyInv'
  <2>1. /\ waits'[k] = None /\ \A j \in Slots \ {k} : waits'[j] = waits[j]
    BY <1>0, <1>4 DEF CloseEntry, Mine, Tidy
  <2>2. /\ closer'.pc = "clear" /\ closer'.i = k /\ closer'.key = KeyOf(k, task[k].gen)
        /\ closer.pc = "up"
    BY <1>0, <1>4 DEF CloseEntry, Closers
  <2>3. closer'.key # None => Holds(k) /\ task[k].gen > 0
    BY <1>0, <1>4, <2>2 DEF KeyOf, Mine, Tidy, CloseEntry
  <2>4. UNCHANGED <<task, signalled, pending_deregister>>
    BY <1>4 DEF CloseEntry
  <2>5. ASSUME NEW j \in Slots PROVE (Tidy(j) /\ Shut(j) /\ Told(j))'
    <3>1. Tidy(j)'
      BY <2>1, <2>4 DEF Tidy, Holds
    <3>2. Shut(j)'
      BY <1>0, <2>1, <2>2, <2>3, <2>4, Zenon DEF Shut, Closing, Holds
    <3>3. Told(j)'
      BY <1>3, <2>1, <2>4, Zenon DEF Told, Untold, Kind
    <3>. QED
      BY <3>1, <3>2, <3>3
  <2>6. Stopped' /\ Started'
    BY <1>1, <1>4, <2>4 DEF Stopped, Started, CloseEntry, drained, flags, At
  <2>7. KeysTold' /\ EndTold'
    BY <1>2, <2>2, <2>4, Zenon DEF KeysTold, EndTold, Telling
  <2>. QED
    BY <2>5, <2>6, <2>7
<1>5. ASSUME CloseKey PROVE NotifyInv'
  <2>1. /\ closer'.pc = "fail" /\ closer'.i = k /\ closer.pc = "clear"
        /\ closer'.key = None \/ closer'.key = closer.key
    BY <1>0, <1>5 DEF CloseKey, Closers
  <2>2. UNCHANGED <<task, signalled, waits>>
    BY <1>5 DEF CloseKey
  <2>3. pending_deregister' = pending_deregister \/ (closer'.key = None /\ task[k].gen > 0)
    BY <1>0, <1>5, <2>1 DEF CloseKey, Defer, Shut, Closing, Closers
  <2>4. ASSUME NEW j \in Slots PROVE (Tidy(j) /\ Shut(j) /\ Told(j))'
    <3>1. Tidy(j)'
      BY <2>2 DEF Tidy, Holds
    <3>2. Shut(j)'
      BY <1>1, <2>1, <2>2 DEF Shut, Closing, Holds, At
    <3>3. Told(j)'
      BY <1>3, <2>2 DEF Untold
    <3>. QED
      BY <3>1, <3>2, <3>3
  <2>5. Stopped' /\ Started'
    BY <1>1, <2>1, <2>2 DEF Stopped, Begun, Started, drained, flags, At
  <2>6. KeysTold'
    BY <1>2, <2>1, <2>2, <2>3 DEF KeysTold, Telling
  <2>7. EndTold'
    BY <1>2, <2>1, <2>2 DEF EndTold
  <2>. QED
    BY <2>4, <2>5, <2>6, <2>7
<1>6. ASSUME CloseTask PROVE NotifyInv'
  <2>1. /\ UNCHANGED <<waits, pending_deregister>> /\ closer.pc = "fail"
        /\ \/ k < SlotCount /\ closer'.pc = "up" /\ closer'.i = k + 1
           \/ k = SlotCount /\ closer'.pc = "join" /\ closer'.i = k
    BY <1>0, <1>6 DEF CloseTask, Closers
  <2>2. /\ \A j \in Slots \ {k} : task'[j] = task[j]
        /\ \A j \in Slots : /\ task'[j].gen = task[j].gen /\ task'[j].pc = task[j].pc
                            /\ task'[j].then = task[j].then /\ task'[j].key = task[j].key
        /\ task'[k].wait = None /\ ~task'[k].live
    BY <1>0, <1>6, Zenon DEF CloseTask, Tasks
  <2>3. /\ signalled => signalled'
        /\ task[k].gen > 0 /\ (closer.key = None \/ Holds(k)) => signalled' \/ Restarting
    BY <1>6, Zenon DEF CloseTask, WriteByte, Restarting
  <2>4. task[k].gen > 0 => signalled' \/ Restarting
    BY <1>0, <2>1, <2>3, Zenon DEF Shut, Closing, Restarting, At
  <2>5. waits[k] = None /\ task[k].pc \in {"idle", "lost"}
    BY <1>0, <2>1 DEF Shut, Closing, Stopped, Begun
  <2>6. ASSUME NEW j \in Slots PROVE (Tidy(j) /\ Shut(j) /\ Told(j))'
    <3>1. Tidy(j)'
      <4>1. CASE j = k
        BY <2>1, <2>2, <2>5, <4>1, Zenon DEF Tidy, Holds
      <4>2. CASE j # k
        <5>1. Tidy(j) /\ waits'[j] = waits[j] /\ task'[j] = task[j]
          BY <2>1, <2>2, <4>2
        <5>. QED
          BY <5>1, Zenon DEF Tidy, Holds
      <4>. QED
        BY <4>1, <4>2
    <3>2. Shut(j)'
      <4>1. closer'.pc \in {"up", "join"}
        BY <2>1
      <4>. QED
        BY <4>1, Zenon DEF Shut, Closing
    <3>3. Told(j)'
      BY <1>3, <2>1, <2>2, <2>3, Zenon DEF Untold
    <3>. QED
      BY <3>1, <3>2, <3>3
  <2>7. Stopped' /\ Started'
    BY <1>1, <2>1, <2>2, Zenon DEF Stopped, Begun, Started, drained, flags, At
  <2>8. KeysTold'
    <3>1. \A j \in Slots : Telling(j)' <=> Telling(j)
      BY <2>2 DEF Telling
    <3>. QED
      BY <1>2, <2>1, <2>3, <2>4, <3>1 DEF KeysTold, Flushing
  <2>9. EndTold'
    <3>0. \A j \in Slots : /\ task'[j].gen = task[j].gen
                           /\ j < closer'.i \/ closer'.pc \in {"join", "down"} => j <= k
      BY <1>0, <2>1, <2>2
    <3>. SUFFICES ASSUME NEW j \in Slots, task[j].gen > 0, j <= k PROVE signalled' \/ Restarting'
      BY <3>0 DEF EndTold
    <3>1. CASE j = k
      BY <1>2, <2>4, <3>1
    <3>2. CASE j < k
      BY <1>2, <2>3, <3>2 DEF EndTold
    <3>. QED
      BY <1>0, <3>1, <3>2
  <2>. QED
    BY <2>6, <2>7, <2>8, <2>9
<1>7. ASSUME JoinDriver PROVE NotifyInv'
  <2>1. /\ UNCHANGED <<waits, pending_deregister, task, signalled>>
        /\ closer'.pc = "down" /\ closer'.i = k /\ closer.pc = "join"
    BY <1>0, <1>7 DEF JoinDriver, Closers
  <2>2. ASSUME NEW j \in Slots PROVE (Tidy(j) /\ Shut(j) /\ Told(j))'
    BY <1>3, <2>1, Zenon DEF Tidy, Shut, Closing, Holds, Untold
  <2>3. Stopped' /\ Started'
    BY <1>1, <2>1 DEF Stopped, Begun, Started, drained, flags, At
  <2>4. KeysTold' /\ EndTold'
    BY <1>2, <2>1 DEF KeysTold, EndTold, Telling
  <2>. QED
    BY <2>2, <2>3, <2>4
<1>. QED
  BY <1>4, <1>5, <1>6, <1>7 DEF CloserStep

\* A new executor satisfies it, ...
LEMMA InitNotify ==
  RInit => NotifyInv
<1>. SUFFICES ASSUME RInit PROVE NotifyInv
  OBVIOUS
<1>1. ASSUME NEW i \in Slots
      PROVE  waits[i] = None /\ task[i].wait = None /\ task[i].pc = "idle" /\ ~task[i].live
  BY <1>1, Zenon DEF RInit, NewTask
<1>2. /\ driver.pc = "off" /\ closer.pc = "up" /\ closer.i = 1 /\ pending_deregister = {}
  BY DEF RInit
<1>3. \A i \in Slots : Tidy(i) /\ Shut(i) /\ Told(i)
  BY <1>1, <1>2 DEF Tidy, Shut, Told, Holds, Closing, Kind, At
<1>4. Stopped /\ Started /\ KeysTold /\ EndTold
  BY <1>2 DEF Stopped, Begun, Started, KeysTold, EndTold, At, Slots
<1>. QED
  BY <1>3, <1>4 DEF NotifyInv

\* ... the reactor leaves the flags of the executor alone, ...
LEMMA FlagsFixed ==
  ASSUME RNext PROVE UNCHANGED flags
<1>1. ASSUME NEW i, TaskStep(i) PROVE UNCHANGED flags
  <2>1. (\E s : QueueReadinessWait(i, s)) \/ (\E d : RegisterSleepWait(i, d)) => UNCHANGED flags
    BY Zenon DEF QueueReadinessWait, RegisterSleepWait, StartWait
  <2>2. DropWait(i) \/ DeferKey(i) \/ ClearOutcome(i) \/ FinishTask(i) \/ EndPending(i) => UNCHANGED flags
    BY Zenon DEF DropWait, DeferKey, ClearOutcome, FinishTask, EndPending
  <2>3. Spawn(i) \/ PollTask(i) \/ ResetOutcome(i) \/ SignalDriver(i) \/ TakeOutcome(i) => UNCHANGED flags
    BY Zenon DEF Spawn, PollTask, ResetOutcome, SignalDriver, TakeOutcome
  <2>. QED
    BY <1>1, <2>1, <2>2, <2>3, Zenon DEF TaskStep
<1>2. ASSUME DriverStep PROVE UNCHANGED flags
  <2>1. CheckShutdown \/ Flush \/ Activate \/ Publish \/ Reject \/ LookForTimers \/ CollectDue
          => UNCHANGED flags
    BY Zenon DEF CheckShutdown, Flush, Activate, Publish, Reject, LookForTimers, CollectDue
  <2>2. StoreOutcome \/ ScheduleSlot \/ LookForWaiters \/ Choose \/ Sleep \/ Poll \/ Resolve \/ Drain
          => UNCHANGED flags
    BY Zenon DEF StoreOutcome, ScheduleSlot, LookForWaiters, Choose, Sleep, Poll, Resolve, Drain
  <2>. QED
    BY <1>2, <2>1, <2>2, Zenon DEF DriverStep
<1>3. ASSUME CloserStep PROVE UNCHANGED flags
  BY <1>3, Zenon DEF CloserStep, CloseEntry, CloseKey, CloseTask, JoinDriver
<1>. QED
  BY <1>1, <1>2, <1>3, Zenon DEF RNext, Turn, Tick

\* ... what changes none of its variables keeps it, ...
LEMMA NotifyFrame ==
  ASSUME NotifyInv, drained => drained',
         UNCHANGED <<bound, waits, pending_deregister, signalled, driver, task, closer>>
  PROVE  NotifyInv'
<1>1. Slots' = Slots
  BY DEF Slots, SlotCount
<1>2. (Restarting' <=> Restarting) /\ (Flushing' <=> Flushing)
  BY DEF Restarting, Flushing, At
<1>3. ASSUME NEW j \in Slots, Tidy(j), Shut(j), Told(j) PROVE (Tidy(j) /\ Shut(j) /\ Told(j))'
  <2>1. Tidy(j)' /\ Shut(j)'
    BY <1>3, Zenon DEF Tidy, Shut, Holds, Closing, At
  <2>2. Scans(j)' <=> Scans(j)
    BY <1>2 DEF Scans, At
  <2>3. Told(j)'
    BY <1>3, <2>2, Zenon DEF Told, Untold, At
  <2>. QED
    BY <2>1, <2>3
<1>4. Stopped' /\ Started'
  BY <1>1, Zenon DEF NotifyInv, Stopped, Begun, Started, At
<1>5. KeysTold' /\ EndTold'
  BY <1>1, <1>2, Zenon DEF NotifyInv, KeysTold, EndTold, Telling
<1>. QED
  BY <1>1, <1>3, <1>4, <1>5 DEF NotifyInv

\* ... every step keeps it, as long as the scheduler does not take back that it
\* has drained nor drain before the flag is up, ...
LEMMA NotifyStep ==
  ASSUME ReactorTypes, Least, NotifyInv, drained => shutdown_requested, drained => drained',
         [RNext]_reactor_vars
  PROVE  NotifyInv'
<1>1. CASE UNCHANGED reactor_vars
  <2>1. UNCHANGED <<bound, waits, pending_deregister, signalled, driver, task, closer>>
    BY <1>1 DEF reactor_vars, reactor, outside
  <2>. QED
    BY <2>1, NotifyFrame
<1>2. CASE RNext
  <2>1. UNCHANGED <<bound, flags>> /\ Slots' = Slots /\ SlotCount' = SlotCount
    BY <1>2, BoundFixed, FlagsFixed DEF Slots, SlotCount
  <2>2. ASSUME (\E s : Turn(s)) \/ Tick PROVE NotifyInv'
    <3>1. UNCHANGED <<waits, pending_deregister, signalled, driver, task, closer>>
      BY <2>2, Zenon DEF Turn, Tick, reactor
    <3>. QED
      BY <2>1, <3>1, NotifyFrame
  <2>. QED
    BY <1>2, <2>1, <2>2, TaskNotifies, DriverNotifies, CloserNotifies DEF RNext, ReactorTypes
<1>. QED
  BY <1>1, <1>2

\* ... and it says what DriverNotified does.
LEMMA NotifyFollows ==
  NotifyInv => DriverNotified
<1>. SUFFICES ASSUME NotifyInv, At("poll"), ~signalled PROVE DriverNotified
  BY DEF DriverNotified
<1>1. ~Restarting /\ ~Flushing /\ \A i : ~Scans(i)
  BY DEF Restarting, Flushing, Scans, At
<1>2. closer.pc # "join"
  BY <1>1 DEF NotifyInv, EndTold, Started, At
<1>3. pending_deregister # {} => closer.pc # "up" \/ \E i \in Slots : Untold(i)
  BY <1>1 DEF NotifyInv, KeysTold, Telling, Untold
<1>. QED
  BY <1>1, <1>2, <1>3, Zenon DEF NotifyInv, Told, DriverNotified

=============================================================================
