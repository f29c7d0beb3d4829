------------------------ MODULE ReactorDriverProofs ------------------------
(***************************************************************************)
(* Safety of the reactor driver for any number of tasks, waits and         *)
(* sources, in three layers that every step of the tasks, the driver and   *)
(* the closing thread keeps: the types, WaitInv (no wait is dropped without *)
(* an answer) and KeysInv (every key of the poller is named by an entry, by *)
(* a thread that is about to remove it, or by a fault of the code).        *)
(***************************************************************************)
EXTENDS ReactorDriver, TLAPS

\* Every leaf is tried with the SMT solver, then with Zenon, then with Z3 for longer.
USE SMTT(20), ZenonT(20), Z3T(40)

TaskLabels == {"idle", "poll", "started", "signal", "pending", "clear", "lost"}
DriverLabels == {"off", "check", "flush", "activate", "publish", "reject", "due",
                 "due again", "collect", "store", "schedule", "look", "choose",
                 "sleep", "poll", "resolve", "exit"}
CloserLabels == {"up", "clear", "fail", "join", "down"}
Maybe(S) == S \cup {None}
Registered == Entries({"pending", "ready", "sleep"})
Outcomes == Entries({"ready", "sleep", "error"})
Waited == Entries({"pending", "sleep"})
Tasks == [pc : TaskLabels, gen : Nat, live : BOOLEAN, scheduled : BOOLEAN,
          wait : Maybe(Waited), n : Nat, key : Maybe(Wants), then : {"idle", "poll", "pending"}]
Drivers == [pc : DriverLabels, i : Slots, hand : Maybe(Entries(Kinds)),
            events : SUBSET (Wants \cup {Pipe}), until : Maybe(Wants), now : Nat,
            then : {"look", "check"}, waiters : BOOLEAN]
Closers == [pc : CloserLabels, i : Slots, key : Maybe(Wants)]
Faults == [erased : SUBSET Slots, crossed : SUBSET Slots, leaked : SUBSET Wants]

\* The types; the driver holds a pending entry while it registers its source, and
\* an outcome while it stores it.
RTypes ==
  /\ bound \in Workloads
  /\ waits \in [Slots -> Maybe(Registered)] /\ outcomes \in [Slots -> Maybe(Outcomes)]
  /\ poller \subseteq Wants /\ pending_deregister \subseteq Wants
  /\ task \in [Slots -> Tasks] /\ driver \in Drivers /\ closer \in Closers
  /\ now \in Nat /\ fault \in Faults
  /\ driver.pc \in {"publish", "reject"} => driver.hand \in Entries({"pending"})
  /\ driver.pc \in {"store", "schedule"} => driver.hand \in Outcomes
-----------------------------------------------------------------------------
\* What the types say of the records at one slot.
LEMMA AtSlot ==
  ASSUME RTypes, NEW i \in Slots
  PROVE  /\ task[i] \in Tasks /\ waits[i] \in Maybe(Registered) /\ outcomes[i] \in Maybe(Outcomes)
         /\ task[i].gen \in Nat /\ task[i].n \in Nat
         /\ \A g : KeyOf(i, g) \in Maybe(Wants)
         /\ \A g : KeyOf(i, g) # None => KeyOf(i, g) \in Wants
  BY DEF RTypes, Tasks, KeyOf, Maybe, Mine, Registered, Entries

\* Settled keeps the types.
LEMMA SettledTypes ==
  ASSUME RTypes, NEW i \in Slots, Slots' = Slots, Settled(i)
  PROVE  /\ waits' \in [Slots -> Maybe(Registered)] /\ outcomes' \in [Slots -> Maybe(Outcomes)]
         /\ pending_deregister' \subseteq Wants /\ fault' \in Faults /\ task' \in [Slots -> Tasks]
<1>. USE DEF RTypes
<1>1. task[i] \in Tasks /\ \A g : KeyOf(i, g) # None => KeyOf(i, g) \in Wants
  BY AtSlot
<1>2. waits' \in [Slots -> Maybe(Registered)] /\ outcomes' \in [Slots -> Maybe(Outcomes)]
  BY DEF Settled, Maybe
<1>3. pending_deregister' \subseteq Wants /\ fault' \in Faults
  BY <1>1 DEF Settled, Defer, Faults
<1>4. [NewTask(task[i].gen) EXCEPT !.live = FALSE, !.scheduled = FALSE] \in Tasks
  BY <1>1, Zenon DEF NewTask, Tasks, TaskLabels, Maybe
<1>5. task' \in [Slots -> Tasks]
  BY <1>4 DEF Settled
<1>. QED
  BY <1>2, <1>3, <1>5

\* Every step of a task keeps the types.
LEMMA TaskTypes ==
  ASSUME RTypes, NEW i \in Slots, UNCHANGED bound, TaskStep(i) PROVE RTypes'
<1>. USE WorkloadAssumption DEF RTypes, reactor, outside
<1>0. Slots' = Slots /\ Drivers' = Drivers /\ Closers' = Closers /\ Faults' = Faults
  BY DEF Slots, SlotCount, Drivers, Closers, Faults
<1>. DEFINE Set(r) == task' = [task EXCEPT ![i] = r]
<1>1. /\ task[i] \in Tasks /\ waits[i] \in Maybe(Registered) /\ task[i].gen \in Nat
      /\ KeyOf(i, task[i].gen) \in Maybe(Wants)
  BY AtSlot
<1>2. ASSUME NEW r \in Tasks, Set(r) PROVE task' \in [Slots -> Tasks]
  BY <1>2
<1>. HIDE DEF Set
<1>3. ASSUME Spawn(i) PROVE RTypes'
  <2>1. Set(NewTask(task[i].gen + 1))
    BY <1>3 DEF Spawn, Set
  <2>2. NewTask(task[i].gen + 1) \in Tasks
    BY <1>1 DEF NewTask, Tasks, TaskLabels, Maybe
  <2>. QED
    BY <1>0, <1>2, <1>3, <2>1, <2>2 DEF Spawn
<1>4. ASSUME PollTask(i) PROVE RTypes'
  <2>1. Set([task[i] EXCEPT !.pc = "poll", !.scheduled = FALSE])
    BY <1>4, Zenon DEF PollTask, Set
  <2>2. [task[i] EXCEPT !.pc = "poll", !.scheduled = FALSE] \in Tasks
    BY <1>1, Zenon DEF Tasks, TaskLabels
  <2>. QED
    BY <1>0, <1>2, <1>4, <2>1, <2>2 DEF PollTask
<1>5. ASSUME NEW s \in Wants, NEW k \in {"pending", "sleep"}, StartWait(i, k, s) PROVE RTypes'
  <2>. DEFINE w == Entry(k, s, task[i].gen, task[i].n + 1)
  <2>0. w \in Waited /\ w \in Registered /\ w.n \in Nat
    BY <1>1 DEF Entry, Entries, Tasks, Waited, Registered
  <2>1. Set([task[i] EXCEPT !.pc = "started", !.wait = w, !.n = w.n])
    BY <1>5, Zenon DEF StartWait, Set
  <2>2. [task[i] EXCEPT !.pc = "started", !.wait = w, !.n = w.n] \in Tasks
    BY <1>1, <2>0, Zenon DEF Tasks, TaskLabels, Maybe
  <2>3. waits' \in [Slots -> Maybe(Registered)]
    BY <1>5, <2>0 DEF StartWait, Maybe
  <2>4. fault' \in Faults
    BY <1>1, <1>5, Zenon DEF StartWait, Faults, Kind, Maybe, Registered, Entries
  <2>5. /\ driver' \in Drivers
        /\ driver'.hand = driver.hand
        /\ driver'.pc \in {"publish", "reject", "store", "schedule"} => driver'.pc = driver.pc
    BY <1>5, Zenon DEF StartWait, Drivers, DriverLabels
  <2>. QED
    BY <1>0, <1>2, <1>5, <2>1, <2>2, <2>3, <2>4, <2>5 DEF StartWait
<1>6. ASSUME ResetOutcome(i) PROVE RTypes'
  <2>1. Set([task[i] EXCEPT !.pc = "signal", !.then = "pending"])
    BY <1>6, Zenon DEF ResetOutcome, Set
  <2>2. [task[i] EXCEPT !.pc = "signal", !.then = "pending"] \in Tasks
    BY <1>1, Zenon DEF Tasks, TaskLabels
  <2>3. outcomes' \in [Slots -> Maybe(Outcomes)] /\ fault' \in Faults
    BY <1>6 DEF ResetOutcome, Maybe, Faults
  <2>. QED
    BY <1>0, <1>2, <1>6, <2>1, <2>2, <2>3 DEF ResetOutcome
<1>7. ASSUME SignalDriver(i) PROVE RTypes'
  <2>1. Set([task[i] EXCEPT !.pc = task[i].then, !.then = "poll"])
    BY <1>7, Zenon DEF SignalDriver, Set
  <2>2. [task[i] EXCEPT !.pc = task[i].then, !.then = "poll"] \in Tasks
    BY <1>1, Zenon DEF Tasks, TaskLabels
  <2>. QED
    BY <1>0, <1>2, <1>7, <2>1, <2>2 DEF SignalDriver
<1>8. ASSUME TakeOutcome(i) PROVE RTypes'
  <2>1. PICK l \in {"pending", "poll"}, w \in {None, task[i].wait} :
             Set([task[i] EXCEPT !.pc = l, !.wait = w])
    BY <1>8, Zenon DEF TakeOutcome, Set
  <2>2. [task[i] EXCEPT !.pc = l, !.wait = w] \in Tasks
    BY <1>1, Zenon DEF Tasks, TaskLabels, Maybe
  <2>3. outcomes' \in [Slots -> Maybe(Outcomes)]
    BY <1>8 DEF TakeOutcome, Maybe
  <2>. QED
    BY <1>0, <1>2, <1>8, <2>1, <2>2, <2>3 DEF TakeOutcome
<1>9. ASSUME DropWait(i) PROVE RTypes'
  <2>. DEFINE r == [task[i] EXCEPT !.pc = "clear", !.wait = None, !.key = KeyOf(i, task[i].gen)]
  <2>1. Set(r)
    BY <1>9, Zenon DEF DropWait, ClearEntry, Set
  <2>2. r \in Tasks
    BY <1>1, Zenon DEF Tasks, TaskLabels, Maybe
  <2>3. waits' \in [Slots -> Maybe(Registered)]
    BY <1>9 DEF DropWait, ClearEntry, Maybe
  <2>. QED
    BY <1>0, <1>2, <1>9, <2>1, <2>2, <2>3 DEF DropWait
<1>10. ASSUME DeferKey(i) PROVE RTypes'
  <2>1. PICK l \in {"clear", "poll", "lost"} : Set([task[i] EXCEPT !.key = None, !.pc = l])
    BY <1>10, Zenon DEF DeferKey, Set
  <2>2. [task[i] EXCEPT !.key = None, !.pc = l] \in Tasks
    BY <1>1, Zenon DEF Tasks, TaskLabels, Maybe
  <2>3. task[i].key \in Wants
    BY <1>1, <1>10 DEF DeferKey, Tasks, Maybe
  <2>4. pending_deregister' \subseteq Wants /\ fault' \in Faults
    BY <1>10, <2>3 DEF DeferKey, Defer, Faults
  <2>. QED
    BY <1>0, <1>2, <1>10, <2>1, <2>2, <2>4 DEF DeferKey
<1>11. ASSUME ClearOutcome(i) PROVE RTypes'
  <2>1. PICK l \in {"poll", "idle"} : Set([task[i] EXCEPT !.pc = "signal", !.then = l])
    BY <1>11, Zenon DEF ClearOutcome, Set
  <2>2. [task[i] EXCEPT !.pc = "signal", !.then = l] \in Tasks
    BY <1>1, Zenon DEF Tasks, TaskLabels
  <2>3. outcomes' \in [Slots -> Maybe(Outcomes)]
    BY <1>11 DEF ClearOutcome, Maybe
  <2>. QED
    BY <1>0, <1>2, <1>11, <2>1, <2>2, <2>3 DEF ClearOutcome
<1>12. ASSUME FinishTask(i) PROVE RTypes'
  <2>. DEFINE r == [task[i] EXCEPT !.pc = "clear", !.live = FALSE, !.scheduled = FALSE,
                                   !.key = KeyOf(i, task[i].gen)]
  <2>1. Set(r)
    BY <1>12, Zenon DEF FinishTask, Set
  <2>2. r \in Tasks
    BY <1>1, Zenon DEF Tasks, TaskLabels, Maybe
  <2>3. waits' \in [Slots -> Maybe(Registered)]
    BY <1>12 DEF FinishTask, Maybe
  <2>. QED
    BY <1>0, <1>2, <1>12, <2>1, <2>2, <2>3 DEF FinishTask
<1>13. ASSUME EndPending(i) PROVE RTypes'
  <2>1. CASE Settled(i)
    BY <1>0, <1>13, <2>1, SettledTypes DEF EndPending
  <2>2. CASE TaskAt(i, "idle") /\ UNCHANGED <<waits, outcomes, pending_deregister, fault>>
    <3>1. Set([task[i] EXCEPT !.pc = "idle"])
      BY <2>2 DEF TaskAt, Set
    <3>2. [task[i] EXCEPT !.pc = "idle"] \in Tasks
      BY <1>1 DEF Tasks, TaskLabels
    <3>. QED
      BY <1>0, <1>2, <1>13, <2>2, <3>1, <3>2 DEF EndPending
  <2>. QED
    BY <1>13, <2>1, <2>2 DEF EndPending
<1>14. \A s \in bound.sources[i] : s \in Wants
  BY DEF Wants, Slots, SlotCount
<1>15. \A d \in 1..bound.time : d \in Wants
  BY DEF Wants
<1>. QED
  BY <1>3, <1>4, <1>5, <1>6, <1>7, <1>8, <1>9, <1>10, <1>11, <1>12, <1>13, <1>14, <1>15
  DEF TaskStep, QueueReadinessWait, RegisterSleepWait

\* A timer is registered for a time.
TimerTypes == \A i \in Slots : Kind(waits[i]) = "sleep" => waits[i].what \in Nat

\* The driver goes on to its next phase, ...
LEMMA MoveTypes ==
  ASSUME RTypes, NEW l \in DriverLabels, Move(l)
  PROVE  driver' \in Drivers /\ driver'.hand = None /\ driver'.pc = l
<1>1. 1 \in Slots
  BY WorkloadAssumption DEF RTypes, Slots, SlotCount
<1>. QED
  BY <1>1, Zenon DEF RTypes, Move, Drivers, Maybe

\* ... or to the next slot of this one.
LEMMA PastTypes ==
  ASSUME RTypes, NEW l \in DriverLabels, NEW m \in DriverLabels, Past(l, m)
  PROVE  /\ driver' \in Drivers /\ driver'.hand = None /\ driver'.pc \in {l, m}
<1>. USE WorkloadAssumption DEF RTypes
<1>1. SlotCount \in Nat \ {0} /\ 1 \in Slots /\ driver.i \in Slots
      /\ (driver.i < SlotCount => driver.i + 1 \in Slots)
  BY DEF Slots, SlotCount, Drivers
<1>2. CASE driver.i < SlotCount
  <2>1. driver' = [driver EXCEPT !.pc = l, !.i = driver.i + 1, !.hand = None]
    BY <1>2 DEF Past
  <2>. QED
    BY <1>1, <1>2, <2>1, Zenon DEF Drivers, Maybe
<1>3. CASE ~(driver.i < SlotCount)
  <2>1. Move(m)
    BY <1>3 DEF Past
  <2>. QED
    BY <2>1, MoveTypes
<1>. QED
  BY <1>2, <1>3

\* resolve_reactor_events drops an event no entry is registered for, or takes an
\* entry out of the table.  (A set of numbers has a minimum, which the proofs get
\* as a fact.)
Least == \A S \in SUBSET Nat : S # {} => Min(S) \in S /\ \A y \in S : Min(S) <= y
ResolveNone ==
  /\ At("resolve") /\ UNCHANGED <<waits, poller>>
  /\ \E e \in SUBSET driver.events : driver' = [driver EXCEPT !.events = e]
ResolveEntry(m) ==
  /\ At("resolve") /\ Kind(waits[m]) = "ready"
  /\ waits' = [waits EXCEPT ![m] = None] /\ poller' = poller \ {waits[m].what}
  /\ \E e \in SUBSET driver.events :
       driver' = [driver EXCEPT !.events = e, !.pc = "store", !.i = m, !.hand = waits[m]]

LEMMA ResolveCases ==
  ASSUME Least, Resolve PROVE ResolveNone \/ \E m \in Slots : ResolveEntry(m)
<1>. DEFINE Found(k) == {j \in Slots : Kind(waits[j]) = "ready" /\ waits[j].what = k}
            Rest(k) == driver.events \ {k}
<1>1. PICK k \in driver.events :
        IF Found(k) = {}
        THEN driver' = [driver EXCEPT !.events = Rest(k)] /\ UNCHANGED <<waits, poller>>
        ELSE /\ waits' = [waits EXCEPT ![Min(Found(k))] = None]
             /\ poller' = poller \ {k}
             /\ driver' = [driver EXCEPT !.events = Rest(k), !.pc = "store", !.i = Min(Found(k)),
                                         !.hand = waits[Min(Found(k))]]
  BY Zenon DEF Resolve
<1>2. At("resolve") /\ Rest(k) \in SUBSET driver.events
  BY DEF Resolve
<1>3. CASE Found(k) = {}
  BY <1>1, <1>2, <1>3 DEF ResolveNone
<1>4. CASE Found(k) # {}
  <2>1. Found(k) \in SUBSET Nat
    BY DEF Slots
  <2>2. Min(Found(k)) \in Found(k)
    BY <1>4, <2>1 DEF Least
  <2>3. PICK m \in Slots : m = Min(Found(k)) /\ Kind(waits[m]) = "ready" /\ waits[m].what = k
    BY <2>2
  <2>4. ResolveEntry(m)
    BY <1>1, <1>2, <1>4, <2>3, Zenon DEF ResolveEntry
  <2>. QED
    BY <2>4
<1>. QED
  BY <1>3, <1>4

\* Every step of the driver keeps the types.
LEMMA DriverTypes ==
  ASSUME RTypes, TimerTypes, Least, UNCHANGED bound, DriverStep PROVE RTypes'
<1>. USE WorkloadAssumption DEF RTypes, reactor, outside, At
<1>0. /\ Slots' = Slots /\ Drivers' = Drivers /\ Closers' = Closers /\ Faults' = Faults
      /\ driver.i \in Slots /\ SlotCount \in Nat \ {0} /\ 1 \in Slots
  BY DEF Slots, SlotCount, Drivers, Closers, Faults
<1>. DEFINE i == driver.i
<1>1. task[i] \in Tasks /\ waits[i] \in Maybe(Registered)
  BY <1>0, AtSlot
<1>2. ASSUME NEW l \in DriverLabels \ {"publish", "reject", "store", "schedule"},
             NEW m \in DriverLabels \ {"publish", "reject", "store", "schedule"}, Past(l, m)
      PROVE  driver' \in Drivers /\ driver'.pc \notin {"publish", "reject", "store", "schedule"}
  BY <1>2, PastTypes
<1>3. ASSUME NEW l \in DriverLabels \ {"publish", "reject", "store", "schedule"}, Move(l)
      PROVE  driver' \in Drivers /\ driver'.pc \notin {"publish", "reject", "store", "schedule"}
  BY <1>3, MoveTypes
<1>4. ASSUME CheckShutdown PROVE RTypes'
  BY <1>0, <1>3, <1>4, Zenon DEF CheckShutdown, DriverLabels
<1>5. ASSUME Flush PROVE RTypes'
  BY <1>0, <1>3, <1>5, Zenon DEF Flush, DriverLabels
<1>6. ASSUME Activate PROVE RTypes'
  <2>1. CASE Kind(MyWait) # "pending"
    BY <1>0, <1>2, <1>6, <2>1, Zenon DEF Activate, DriverLabels
  <2>2. CASE Kind(MyWait) = "pending"
    <3>1. MyWait \in Entries({"pending"}) /\ MyWait \in Entries(Kinds) /\ MyWait.what \in Wants
      BY <1>1, <2>2 DEF MyWait, Kind, Maybe, Registered, Entries, Kinds
    <3>2. PICK l \in {"reject", "publish"} : driver' = [driver EXCEPT !.hand = MyWait, !.pc = l]
      BY <1>6, <2>2, Zenon DEF Activate
    <3>3. driver' \in Drivers /\ driver'.pc = l /\ driver'.hand = MyWait
      BY <3>1, <3>2, Zenon DEF Drivers, DriverLabels, Maybe
    <3>4. poller' \subseteq Wants
      BY <1>6, <2>2, <3>1 DEF Activate
    <3>. QED
      BY <1>0, <1>6, <3>1, <3>3, <3>4 DEF Activate
  <2>. QED
    BY <2>1, <2>2
<1>7. ASSUME Publish PROVE RTypes'
  <2>1. driver.hand.what \in Wants
    BY <1>7 DEF Publish, Entries
  <2>2. waits' \in [Slots -> Maybe(Registered)]
    <3>1. CASE StillPending
      <4>1. waits[i] \in Registered
        BY <1>1, <3>1 DEF StillPending, MyWait, Kind, Maybe
      <4>2. [waits[i] EXCEPT !.kind = "ready", !.what = driver.hand.what] \in Registered
        BY <2>1, <4>1, Zenon DEF Registered, Entries
      <4>3. waits' = [waits EXCEPT ![i] = [waits[i] EXCEPT !.kind = "ready", !.what = driver.hand.what]]
        BY <1>7, <3>1, Zenon DEF Publish
      <4>. QED
        BY <4>2, <4>3, Zenon DEF Maybe
    <3>2. CASE ~StillPending
      BY <1>7, <3>2 DEF Publish
    <3>. QED
      BY <3>1, <3>2
  <2>3. fault' \in Faults
    BY <1>0, <1>7, <2>1 DEF Publish, Faults
  <2>. QED
    BY <1>0, <1>2, <1>7, <2>2, <2>3, Zenon DEF Publish, DriverLabels
<1>8. ASSUME Reject PROVE RTypes'
  <2>1. waits' \in [Slots -> Maybe(Registered)]
    BY <1>8, Zenon DEF Reject, Maybe
  <2>2. /\ [driver.hand EXCEPT !.kind = "error"] \in Outcomes
        /\ [driver.hand EXCEPT !.kind = "error"] \in Entries(Kinds)
    BY <1>8 DEF Reject, Entries, Outcomes, Kinds
  <2>3. driver' = [driver EXCEPT !.pc = "store", !.hand = [driver.hand EXCEPT !.kind = "error"]]
    BY <1>8 DEF Reject
  <2>4. driver' \in Drivers /\ driver'.pc = "store" /\ driver'.hand \in Outcomes
    BY <2>2, <2>3, Zenon DEF Drivers, DriverLabels, Maybe
  <2>. QED
    BY <1>0, <1>8, <2>1, <2>4 DEF Reject
<1>9. ASSUME LookForTimers PROVE RTypes'
  <2>1. driver' \in Drivers /\ driver'.pc \in {"look", "check", "collect"}
    BY <1>9, Zenon DEF LookForTimers, Drivers, DriverLabels
  <2>. QED
    BY <1>0, <1>9, <2>1, Zenon DEF LookForTimers
<1>10. ASSUME CollectDue PROVE RTypes'
  <2>1. CASE Kind(MyWait) = "sleep" /\ MyWait.what <= driver.now
    <3>1. MyWait \in Outcomes /\ MyWait \in Entries(Kinds)
      BY <1>1, <2>1 DEF MyWait, Kind, Maybe, Registered, Entries, Outcomes, Kinds
    <3>2. driver' \in Drivers /\ driver'.pc = "store" /\ driver'.hand = MyWait
      <4>1. driver' = [driver EXCEPT !.pc = "store", !.hand = MyWait]
        BY <1>10, <2>1 DEF CollectDue
      <4>. QED
        BY <3>1, <4>1, Zenon DEF Drivers, DriverLabels, Maybe
    <3>3. waits' \in [Slots -> Maybe(Registered)]
      BY <1>10, <2>1 DEF CollectDue, Maybe
    <3>. QED
      BY <1>0, <1>10, <3>1, <3>2, <3>3 DEF CollectDue
  <2>2. CASE ~(Kind(MyWait) = "sleep" /\ MyWait.what <= driver.now)
    <3>1. driver.then \in DriverLabels \ {"publish", "reject", "store", "schedule"}
      BY Zenon DEF Drivers, DriverLabels
    <3>. QED
      BY <1>0, <1>2, <1>10, <2>2, <3>1, Zenon DEF CollectDue, DriverLabels
  <2>. QED
    BY <2>1, <2>2
<1>11. ASSUME StoreOutcome PROVE RTypes'
  <2>1. driver' \in Drivers /\ driver'.pc = "schedule" /\ driver'.hand = driver.hand
    BY <1>11, Zenon DEF StoreOutcome, Drivers, DriverLabels
  <2>2. outcomes' \in [Slots -> Maybe(Outcomes)]
    BY <1>11, Zenon DEF StoreOutcome, Maybe
  <2>. QED
    BY <1>0, <1>11, <2>1, <2>2 DEF StoreOutcome
<1>12. ASSUME ScheduleSlot PROVE RTypes'
  <2>1. driver' \in Drivers /\ driver'.pc \notin {"publish", "reject", "store", "schedule"}
    <3>1. driver.then \in DriverLabels \ {"publish", "reject", "store", "schedule"}
      BY Zenon DEF Drivers, DriverLabels
    <3>2. driver.hand.kind \in {"ready", "sleep", "error"}
      BY <1>12 DEF ScheduleSlot, Outcomes, Entries
    <3>3. Move("exit") \/ Past("activate", "due") \/ Past("collect", driver.then) \/ Move("resolve")
      BY <1>12, <3>2, Zenon DEF ScheduleSlot
    <3>. QED
      BY <1>2, <1>3, <3>1, <3>3, Zenon DEF DriverLabels
  <2>2. CASE Settled(i)
    BY <1>0, <1>12, <2>1, <2>2, SettledTypes DEF ScheduleSlot
  <2>3. CASE /\ \E b \in BOOLEAN : task' = [task EXCEPT ![i] = [task[i] EXCEPT !.scheduled = b]]
             /\ UNCHANGED <<waits, outcomes, pending_deregister, fault>>
    <3>1. PICK b \in BOOLEAN : task' = [task EXCEPT ![i] = [task[i] EXCEPT !.scheduled = b]]
      BY <2>3, Zenon
    <3>2. [task[i] EXCEPT !.scheduled = b] \in Tasks
      BY <1>1 DEF Tasks
    <3>3. task' \in [Slots -> Tasks]
      BY <3>1, <3>2, Zenon
    <3>. QED
      BY <1>0, <1>12, <2>1, <2>3, <3>3 DEF ScheduleSlot
  <2>. QED
    BY <1>12, <2>2, <2>3, Zenon DEF ScheduleSlot
<1>13. ASSUME LookForWaiters PROVE RTypes'
  <2>1. driver' \in Drivers /\ driver'.pc = "choose"
    BY <1>13, Zenon DEF LookForWaiters, Drivers, DriverLabels
  <2>. QED
    BY <1>0, <1>13, <2>1 DEF LookForWaiters
<1>14. ASSUME Choose PROVE RTypes'
  <2>. DEFINE deadlines == {waits[j].what : j \in Sleeps}
  <2>1. deadlines \subseteq Nat
    BY DEF TimerTypes, Sleeps
  <2>. DEFINE u == IF deadlines = {} THEN None ELSE Min(deadlines)
              l == IF driver.waiters THEN "poll" ELSE IF u # None THEN "sleep" ELSE "check"
  <2>2. driver' = [driver EXCEPT !.until = u, !.waiters = FALSE, !.pc = l]
    BY <1>14 DEF Choose
  <2>3. u \in Maybe(Wants)
    BY <2>1, Zenon DEF Least, Maybe, Wants
  <2>. HIDE DEF u
  <2>4. driver' \in Drivers /\ driver'.pc \in {"poll", "sleep", "check"}
    BY <2>2, <2>3, Zenon DEF Drivers, DriverLabels
  <2>. QED
    BY <1>0, <1>14, <2>4 DEF Choose
<1>15. ASSUME Sleep PROVE RTypes'
  <2>1. driver' \in Drivers /\ driver'.pc = "collect"
    BY <1>15, Zenon DEF Sleep, Drivers, DriverLabels, Maybe
  <2>. QED
    BY <1>0, <1>15, <2>1 DEF Sleep
<1>16. ASSUME Poll PROVE RTypes'
  <2>1. PICK events \in SUBSET Reported :
          driver' = [driver EXCEPT !.pc = "resolve", !.i = 1, !.until = None, !.events = events]
    BY <1>16, Zenon DEF Poll, kSubset
  <2>2. events \subseteq Wants \cup {Pipe}
    BY DEF Reported
  <2>3. driver' \in Drivers /\ driver'.pc = "resolve"
    BY <1>0, <2>1, <2>2, Zenon DEF Drivers, DriverLabels, Maybe
  <2>. QED
    BY <1>0, <1>16, <2>3 DEF Poll
<1>17. ASSUME Resolve PROVE RTypes'
  <2>0. UNCHANGED <<bound, outcomes, pending_deregister, task, closer, now, fault>>
    BY <1>17 DEF Resolve
  <2>1. CASE ResolveNone
    <3>1. driver' \in Drivers /\ driver'.pc = "resolve"
      BY <2>1 DEF ResolveNone, Drivers
    <3>. QED
      BY <1>0, <2>0, <2>1, <3>1 DEF ResolveNone
  <2>2. ASSUME NEW m \in Slots, ResolveEntry(m) PROVE RTypes'
    <3>1. waits[m] \in Outcomes /\ waits[m] \in Entries(Kinds)
      BY <2>2 DEF ResolveEntry, Kind, Maybe, Registered, Entries, Outcomes, Kinds
    <3>2. driver' \in Drivers /\ driver'.pc = "store" /\ driver'.hand = waits[m]
      <4>1. PICK e \in SUBSET (Wants \cup {Pipe}) :
              driver' = [driver EXCEPT !.events = e, !.pc = "store", !.i = m, !.hand = waits[m]]
        BY <2>2, Zenon DEF ResolveEntry, Drivers
      <4>. QED
        BY <3>1, <4>1, Zenon DEF Drivers, DriverLabels, Maybe
    <3>3. waits' \in [Slots -> Maybe(Registered)] /\ poller' \subseteq Wants
      BY <2>2 DEF ResolveEntry, Maybe
    <3>. QED
      BY <1>0, <2>0, <3>1, <3>2, <3>3
  <2>. QED
    BY <1>17, <2>1, <2>2, ResolveCases
<1>18. ASSUME Drain PROVE RTypes'
  <2>1. driver' \in Drivers /\ driver'.pc = "due again"
    BY <1>18, Zenon DEF Drain, Drivers, DriverLabels
  <2>. QED
    BY <1>0, <1>18, <2>1 DEF Drain
<1>. QED
  BY <1>4, <1>5, <1>6, <1>7, <1>8, <1>9, <1>10, <1>11, <1>12, <1>13, <1>14, <1>15, <1>16,
     <1>17, <1>18, Zenon DEF DriverStep

\* Every step of the thread in shutdown keeps the types.
LEMMA CloserTypes ==
  ASSUME RTypes, UNCHANGED bound, CloserStep PROVE RTypes'
<1>. USE WorkloadAssumption DEF RTypes, reactor, outside
<1>. DEFINE i == closer.i
<1>0. /\ Slots' = Slots /\ Drivers' = Drivers /\ Closers' = Closers /\ Faults' = Faults
      /\ i \in Slots
  BY DEF Slots, SlotCount, Drivers, Closers, Faults
<1>1. task[i] \in Tasks /\ KeyOf(i, task[i].gen) \in Maybe(Wants)
  BY <1>0, AtSlot
<1>2. ASSUME CloseEntry PROVE RTypes'
  <2>1. waits' \in [Slots -> Maybe(Registered)]
    BY <1>2, Zenon DEF CloseEntry, Maybe
  <2>2. closer' \in Closers
    BY <1>1, <1>2, Zenon DEF CloseEntry, Closers, CloserLabels
  <2>. QED
    BY <1>0, <1>2, <2>1, <2>2 DEF CloseEntry
<1>3. ASSUME CloseKey PROVE RTypes'
  <2>1. closer' \in Closers
    BY <1>3, Zenon DEF CloseKey, Closers, CloserLabels, Maybe
  <2>2. {closer.key} \ {None} \subseteq Wants
    BY DEF Closers, Maybe
  <2>3. pending_deregister' \subseteq Wants /\ fault' \in Faults
    BY <1>3, <2>2 DEF CloseKey, Defer, Faults
  <2>. QED
    BY <1>0, <1>3, <2>1, <2>3 DEF CloseKey
<1>4. ASSUME CloseTask PROVE RTypes'
  <2>1. closer' \in Closers
    <3>1. SlotCount \in Nat /\ (i < SlotCount => i + 1 \in Slots)
      BY <1>0 DEF Slots, SlotCount
    <3>. QED
      BY <1>4, <3>1, Zenon DEF CloseTask, Closers, CloserLabels
  <2>2. [task[i] EXCEPT !.live = FALSE, !.scheduled = FALSE, !.wait = None] \in Tasks
    BY <1>1, Zenon DEF Tasks, Maybe
  <2>3. task' = [task EXCEPT ![i] = [task[i] EXCEPT !.live = FALSE, !.scheduled = FALSE, !.wait = None]]
    BY <1>4, Zenon DEF CloseTask
  <2>4. task' \in [Slots -> Tasks]
    BY <2>2, <2>3, Zenon
  <2>5. outcomes' \in [Slots -> Maybe(Outcomes)]
    BY <1>4, Zenon DEF CloseTask, Maybe
  <2>. QED
    BY <1>0, <1>4, <2>1, <2>4, <2>5 DEF CloseTask
<1>5. ASSUME JoinDriver PROVE RTypes'
  <2>1. closer' \in Closers
    BY <1>5 DEF JoinDriver, Closers, CloserLabels
  <2>. QED
    BY <1>0, <1>5, <2>1 DEF JoinDriver
<1>. QED
  BY <1>2, <1>3, <1>4, <1>5 DEF CloserStep

\* How the table of waits changes: an entry is kept, is dropped, is published,
\* or is the one its task has just registered.
Published(j) ==
  /\ At("publish") /\ driver.i = j /\ StillPending
  /\ waits'[j] = [waits[j] EXCEPT !.kind = "ready", !.what = driver.hand.what]
Fresh(j) ==
  /\ task'[j].wait = waits'[j] /\ task'[j].pc = "started" /\ task'[j].gen = task[j].gen
  /\ waits'[j].gen = task[j].gen
  /\ waits'[j].kind = "sleep" => waits'[j].what \in 1..bound.time

\* The driver registers no entry, ...
LEMMA DriverEntries ==
  ASSUME RTypes, DriverStep, NEW j \in Slots
  PROVE  waits'[j] = waits[j] \/ waits'[j] = None \/ Published(j)
<1>. USE DEF RTypes, reactor, outside
<1>1. ASSUME Publish PROVE waits'[j] = waits[j] \/ Published(j)
  BY <1>1, Zenon DEF Publish, Published, Drivers
<1>2. ASSUME Reject \/ CollectDue \/ ScheduleSlot \/ Resolve
      PROVE  waits'[j] = waits[j] \/ waits'[j] = None
  BY <1>2, Zenon DEF Reject, CollectDue, ScheduleSlot, Settled, Resolve
<1>. QED
  BY <1>1, <1>2, Zenon DEF DriverStep, CheckShutdown, Flush, Activate, LookForTimers,
     StoreOutcome, LookForWaiters, Choose, Sleep, Poll, Drain

\* ... and a task only the one it then waits for.
LEMMA EntriesChange ==
  ASSUME RTypes, UNCHANGED bound, RNext, NEW j \in Slots
  PROVE  waits'[j] = waits[j] \/ waits'[j] = None \/ Published(j) \/ Fresh(j)
<1>. USE DEF RTypes, reactor, outside
<1>1. ASSUME NEW i \in Slots, TaskStep(i)
      PROVE  waits'[j] = waits[j] \/ waits'[j] = None \/ Fresh(j)
  <2>1. ASSUME NEW kind, NEW what, StartWait(i, kind, what), kind = "sleep" => what \in 1..bound.time
        PROVE  waits'[j] = waits[j] \/ Fresh(j)
    <3>. DEFINE w == Entry(kind, what, task[i].gen, task[i].n + 1)
    <3>1. waits' = [waits EXCEPT ![i] = w]
      BY <2>1 DEF StartWait
    <3>2. /\ w.kind = kind /\ w.what = what /\ w.gen = task[i].gen
      BY DEF Entry
    <3>3. /\ task'[i].wait = w /\ task'[i].pc = "started" /\ task'[i].gen = task[i].gen
      BY <2>1 DEF StartWait, Tasks
    <3>. QED
      BY <2>1, <3>1, <3>2, <3>3 DEF Fresh
  <2>2. ASSUME NEW s, QueueReadinessWait(i, s) PROVE waits'[j] = waits[j] \/ Fresh(j)
    BY <2>1, <2>2 DEF QueueReadinessWait
  <2>3. ASSUME NEW d \in 1..bound.time, RegisterSleepWait(i, d) PROVE waits'[j] = waits[j] \/ Fresh(j)
    BY <2>1, <2>3 DEF RegisterSleepWait
  <2>4. ASSUME DropWait(i) \/ FinishTask(i) \/ EndPending(i)
        PROVE  waits'[j] = waits[j] \/ waits'[j] = None
    BY <2>4, Zenon DEF DropWait, ClearEntry, FinishTask, EndPending, Settled
  <2>. QED
    BY <1>1, <2>2, <2>3, <2>4 DEF TaskStep, Spawn, PollTask, ResetOutcome, SignalDriver,
       TakeOutcome, DeferKey, ClearOutcome
<1>2. ASSUME DriverStep PROVE waits'[j] = waits[j] \/ waits'[j] = None \/ Published(j)
  BY <1>2, DriverEntries
<1>3. ASSUME CloserStep PROVE waits'[j] = waits[j] \/ waits'[j] = None
  BY <1>3 DEF CloserStep, CloseEntry, CloseKey, CloseTask, JoinDriver
<1>. QED
  BY <1>1, <1>2, <1>3 DEF RNext, Turn, Tick

\* The types hold at first, ...
ReactorTypes == RTypes /\ TimerTypes

LEMMA InitTypes ==
  RInit => ReactorTypes
<1>. SUFFICES ASSUME RInit PROVE ReactorTypes
  OBVIOUS
<1>. USE WorkloadAssumption DEF RInit, RInit
<1>1. bound \in Workloads /\ SlotCount \in Nat \ {0} /\ 1 \in Slots
  BY DEF Slots, SlotCount
<1>2. task \in [Slots -> Tasks]
  <2>1. [NewTask(0) EXCEPT !.live = FALSE, !.scheduled = FALSE] \in Tasks
    BY Zenon DEF NewTask, Tasks, TaskLabels, Maybe
  <2>. QED
    BY <2>1
<1>3. driver \in Drivers /\ closer \in Closers /\ fault \in Faults
  BY <1>1 DEF Drivers, DriverLabels, Closers, CloserLabels, Faults, NoFault, Maybe
<1>. QED
  BY <1>1, <1>2, <1>3 DEF ReactorTypes, RTypes, TimerTypes, Kind, Maybe

\* ... the workload stays what it is, ...
LEMMA BoundFixed ==
  ASSUME RNext PROVE UNCHANGED bound
<1>. USE DEF outside
<1>1. ASSUME NEW i, TaskStep(i) PROVE UNCHANGED bound
  <2>1. (\E s : QueueReadinessWait(i, s)) \/ (\E d : RegisterSleepWait(i, d)) => UNCHANGED bound
    BY Zenon DEF QueueReadinessWait, RegisterSleepWait, StartWait
  <2>2. DropWait(i) \/ DeferKey(i) \/ ClearOutcome(i) \/ FinishTask(i) \/ EndPending(i) => UNCHANGED bound
    BY Zenon DEF DropWait, DeferKey, ClearOutcome, FinishTask, EndPending
  <2>3. Spawn(i) \/ PollTask(i) \/ ResetOutcome(i) \/ SignalDriver(i) \/ TakeOutcome(i) => UNCHANGED bound
    BY Zenon DEF Spawn, PollTask, ResetOutcome, SignalDriver, TakeOutcome
  <2>. QED
    BY <1>1, <2>1, <2>2, <2>3, Zenon DEF TaskStep
<1>2. ASSUME DriverStep PROVE UNCHANGED bound
  <2>1. CheckShutdown \/ Flush \/ Activate \/ Publish \/ Reject \/ LookForTimers \/ CollectDue
          => UNCHANGED bound
    BY Zenon DEF CheckShutdown, Flush, Activate, Publish, Reject, LookForTimers, CollectDue
  <2>2. StoreOutcome \/ ScheduleSlot \/ LookForWaiters \/ Choose \/ Sleep \/ Poll \/ Resolve \/ Drain
          => UNCHANGED bound
    BY Zenon DEF StoreOutcome, ScheduleSlot, LookForWaiters, Choose, Sleep, Poll, Resolve, Drain
  <2>. QED
    BY <1>2, <2>1, <2>2, Zenon DEF DriverStep
<1>3. ASSUME CloserStep PROVE UNCHANGED bound
  BY <1>3, Zenon DEF CloserStep, CloseEntry, CloseKey, CloseTask, JoinDriver
<1>. QED
  BY <1>1, <1>2, <1>3, Zenon DEF RNext, Turn, Tick

\* ... and every step of the executor keeps the types.
LEMMA TypesKept ==
  ASSUME ReactorTypes, Least, [RNext]_reactor_vars PROVE ReactorTypes'
<1>1. CASE UNCHANGED reactor_vars
  <2>1. UNCHANGED <<bound, waits, outcomes, pending_deregister, poller, driver, task, closer, now, fault>>
    BY <1>1 DEF reactor_vars, reactor, outside
  <2>. QED
    BY <2>1 DEF ReactorTypes, RTypes, TimerTypes, Slots, SlotCount, Drivers, Closers, Faults, Kind
<1>2. CASE RNext
  <2>1. UNCHANGED bound
    BY <1>2, BoundFixed
  <2>2. ASSUME (\E s : Turn(s)) \/ Tick PROVE RTypes'
    BY <2>1, <2>2 DEF Turn, Tick, ReactorTypes, RTypes, Slots, SlotCount, Drivers, Closers, Faults,
       reactor
  <2>3. RTypes'
    BY <1>2, <2>1, <2>2, TaskTypes, DriverTypes, CloserTypes DEF RNext, ReactorTypes
  <2>4. TimerTypes'
    <3>1. Slots' = Slots
      BY <2>1 DEF Slots, SlotCount
    <3>2. ASSUME NEW j \in Slots, Kind(waits'[j]) = "sleep" PROVE waits'[j].what \in Nat
      <4>1. CASE waits'[j] = waits[j] \/ waits'[j] = None
        BY <3>2, <4>1 DEF ReactorTypes, TimerTypes, Kind
      <4>2. CASE Published(j)
        BY <3>2, <4>2, <2>3, <3>1 DEF Published, StillPending, Kind, ReactorTypes, RTypes, Maybe,
           Registered, Entries
      <4>3. CASE Fresh(j)
        BY <3>2, <4>3 DEF Fresh, Kind
      <4>. QED
        BY <1>2, <2>1, <4>1, <4>2, <4>3, EntriesChange DEF ReactorTypes
    <3>. QED
      BY <3>1, <3>2 DEF TimerTypes, Kind
  <2>. QED
    BY <2>3, <2>4 DEF ReactorTypes
<1>. QED
  BY <1>1, <1>2

\* What is behind WaitKept, for one slot.  The wait a task holds is of its own
\* generation, and the entry in the table, if there is one, is that wait's ...
Own(i) ==
  /\ task[i].pc = "clear" => ~Holds(i)
  /\ Holds(i) =>
       /\ task[i].wait.gen = task[i].gen
       /\ waits[i] # None =>
            /\ EntryOf(i, task[i].wait)
            /\ waits[i].kind = "sleep" <=> task[i].wait.kind = "sleep"
            /\ i \notin fault.crossed => waits[i].what = task[i].wait.what

\* ... what the driver has in hand for the slot answers the wait, if the entry is
\* gone ...
Answer(i, o) ==
  /\ o # None /\ o.gen = task[i].gen
  /\ o.kind = "error" \/ (o.kind = "sleep" <=> task[i].wait.kind = "sleep")
Hand(i) ==
  Holds(i) /\ ~Closing(i) /\ driver.i = i =>
    /\ At("publish") \/ At("reject") => waits[i] # None
    /\ At("store") => waits[i] # None \/ Answer(i, driver.hand)

\* ... and an entry that is gone has left its outcome, with a mark, a poll or a
\* driver that is about to mark.
Stored(i) ==
  /\ Answer(i, outcomes[i])
  /\ \/ task[i].scheduled \/ task[i].pc = "poll"
     \/ At("schedule") /\ driver.i = i /\ driver.hand.gen = task[i].gen
Kept(i) ==
  i \notin fault.erased /\ task[i].live /\ Holds(i) /\ ~Closing(i) =>
    waits[i] # None \/ (At("store") /\ driver.i = i) \/ Stored(i)

Wait(i) == Own(i) /\ Hand(i) /\ Kept(i)

\* A step that leaves the slot alone keeps all of it.
Busy == {"publish", "reject", "store", "schedule"}
LEMMA Elsewhere ==
  ASSUME NEW i, Wait(i), waits'[i] = waits[i], outcomes'[i] = outcomes[i], task'[i] = task[i],
         i \in fault'.erased <=> i \in fault.erased, i \in fault'.crossed <=> i \in fault.crossed,
         Closing(i)' <=> Closing(i),
         \/ driver'.pc = driver.pc /\ driver'.i = driver.i /\ driver'.hand = driver.hand
         \/ driver'.pc \notin Busy /\ (driver.i # i \/ driver.pc \notin Busy)
         \/ driver'.i # i /\ (driver.i # i \/ driver.pc \notin Busy)
         \/ driver.pc \notin Busy /\ driver'.pc \in {"publish", "reject"} /\ waits[i] # None
  PROVE  Wait(i)'
<1>. USE DEF At, Busy
<1>1. Own(i)'
  BY DEF Wait, Own, Holds, EntryOf
<1>2. Hand(i)'
  BY DEF Wait, Hand, Holds, Answer
<1>3. Kept(i)'
  BY DEF Wait, Kept, Holds, Stored, Answer
<1>. QED
  BY <1>1, <1>2, <1>3 DEF Wait

\* A step of a task touches its own slot, and starts the driver.
LEMMA TaskLocal ==
  ASSUME RTypes, NEW i \in Slots, TaskStep(i)
  PROVE  /\ \A j \in Slots \ {i} :
              /\ waits'[j] = waits[j] /\ outcomes'[j] = outcomes[j] /\ task'[j] = task[j]
              /\ (j \in fault'.erased <=> j \in fault.erased)
              /\ (j \in fault'.crossed <=> j \in fault.crossed)
         /\ closer' = closer /\ poller' = poller
         /\ driver' = driver \/ (At("off") /\ driver' = [driver EXCEPT !.pc = "check"])
<1>. USE DEF reactor
<1>. DEFINE Goal == /\ \A j \in Slots \ {i} :
                         /\ waits'[j] = waits[j] /\ outcomes'[j] = outcomes[j] /\ task'[j] = task[j]
                         /\ (j \in fault'.erased <=> j \in fault.erased)
                         /\ (j \in fault'.crossed <=> j \in fault.crossed)
                    /\ closer' = closer /\ poller' = poller
                    /\ driver' = driver \/ (At("off") /\ driver' = [driver EXCEPT !.pc = "check"])
<1>0. /\ task \in [Slots -> Tasks] /\ waits \in [Slots -> Maybe(Registered)]
      /\ outcomes \in [Slots -> Maybe(Outcomes)] /\ fault \in Faults /\ driver \in Drivers
  BY DEF RTypes
<1>1. ASSUME NEW kind, NEW what, StartWait(i, kind, what) PROVE Goal
  <2>1. driver' = driver \/ (At("off") /\ driver' = [driver EXCEPT !.pc = "check"])
    BY <1>0, <1>1 DEF StartWait, At, Drivers
  <2>. QED
    BY <1>0, <1>1, <2>1 DEF StartWait, Faults
<1>2. ASSUME ResetOutcome(i) PROVE Goal
  BY <1>0, <1>2 DEF ResetOutcome, Faults
<1>3. ASSUME NEW keys, Defer(keys), NEW j \in Slots
      PROVE  /\ (j \in fault'.erased <=> j \in fault.erased)
             /\ (j \in fault'.crossed <=> j \in fault.crossed)
  BY <1>0, <1>3 DEF Defer, Faults
<1>4. ASSUME DeferKey(i) PROVE Goal
  BY <1>0, <1>3, <1>4 DEF DeferKey
<1>5. ASSUME EndPending(i) PROVE Goal
  <2>1. CASE Settled(i)
    BY <1>0, <1>3, <1>5, <2>1 DEF Settled, EndPending
  <2>2. CASE ~Settled(i)
    BY <1>0, <1>5, <2>2 DEF EndPending, TaskAt
  <2>. QED
    BY <2>1, <2>2
<1>6. ASSUME DropWait(i) \/ FinishTask(i) PROVE Goal
  BY <1>0, <1>6 DEF DropWait, ClearEntry, FinishTask
<1>7. ASSUME Spawn(i) \/ PollTask(i) \/ SignalDriver(i) PROVE Goal
  BY <1>0, <1>7 DEF Spawn, PollTask, SignalDriver
<1>8. ASSUME TakeOutcome(i) \/ ClearOutcome(i) PROVE Goal
  BY <1>0, <1>8 DEF TakeOutcome, ClearOutcome
<1>. QED
  BY <1>1, <1>2, <1>4, <1>5, <1>6, <1>7, <1>8 DEF TaskStep, QueueReadinessWait, RegisterSleepWait

\* Every step of a task keeps it.
LEMMA TaskKeepsWait ==
  ASSUME RTypes, \A j \in Slots : Wait(j), NEW i \in Slots, TaskStep(i), NEW j \in Slots
  PROVE  Wait(j)'
<1>. USE DEF reactor
<1>0. /\ task \in [Slots -> Tasks] /\ waits \in [Slots -> Maybe(Registered)]
      /\ outcomes \in [Slots -> Maybe(Outcomes)] /\ fault \in Faults /\ driver \in Drivers
  BY DEF RTypes
<1>1. task[i] \in Tasks /\ Wait(i) /\ Wait(j)
  BY <1>0
<1>2. closer' = closer /\ (Closing(j)' <=> Closing(j))
  BY TaskLocal DEF Closing
<1>3. \/ driver'.pc = driver.pc /\ driver'.i = driver.i /\ driver'.hand = driver.hand
      \/ driver'.pc \notin Busy /\ driver.pc \notin Busy
  BY <1>0, TaskLocal DEF At, Busy, Drivers
<1>4. CASE j # i
  <2>1. /\ waits'[j] = waits[j] /\ outcomes'[j] = outcomes[j] /\ task'[j] = task[j]
        /\ (j \in fault'.erased <=> j \in fault.erased)
        /\ (j \in fault'.crossed <=> j \in fault.crossed)
    BY <1>4, TaskLocal
  <2>. QED
    BY <2>1, <1>1, <1>2, <1>3, Elsewhere
<1>5. CASE j = i
  <2>1. ASSUME task'[i].wait = None PROVE Wait(i)'
    BY <2>1 DEF Wait, Own, Hand, Kept, Holds
  <2>2. ASSUME NEW kind, NEW what, StartWait(i, kind, what) PROVE Wait(i)'
    <3>. DEFINE w == Entry(kind, what, task[i].gen, task[i].n + 1)
    <3>1. /\ waits'[i] = w /\ task'[i].wait = w /\ task'[i].pc = "started"
          /\ task'[i].gen = task[i].gen
      BY <1>0, <1>1, <2>2 DEF StartWait, Tasks
    <3>2. w.gen = task[i].gen
      BY DEF Entry
    <3>. HIDE DEF w
    <3>. QED
      BY <3>1, <3>2 DEF Wait, Own, Hand, Kept, Holds, EntryOf
  <2>3. ASSUME ResetOutcome(i) PROVE Wait(i)'
    <3>1. /\ waits' = waits /\ driver' = driver /\ outcomes'[i] = None
          /\ i \notin fault'.erased =>
               i \notin fault.erased /\ (outcomes[i] = None \/ EntryOf(i, task[i].wait))
          /\ fault'.crossed = fault.crossed
      BY <1>0, <2>3 DEF ResetOutcome, Faults
    <3>2. /\ task'[i].pc = "signal" /\ task'[i].wait = task[i].wait /\ task'[i].gen = task[i].gen
          /\ task'[i].live = task[i].live /\ task[i].pc = "started"
      BY <1>0, <1>1, <2>3 DEF ResetOutcome, Tasks
    <3>. QED
      BY <1>1, <1>2, <1>5, <3>1, <3>2, Zenon DEF Wait, Own, Hand, Kept, Holds, EntryOf, At, Stored, Answer
  <2>4. ASSUME TakeOutcome(i), task'[i].wait # None PROVE Wait(i)'
    <3>1. /\ waits' = waits /\ driver' = driver /\ fault' = fault
          /\ task'[i].pc \in {"pending", "poll"} /\ task'[i].wait = task[i].wait
          /\ task'[i].gen = task[i].gen /\ task'[i].live = task[i].live
      BY <1>0, <1>1, <2>4 DEF TakeOutcome, Tasks
    <3>2. ~Answer(i, outcomes[i])
      BY <1>0, <1>1, <2>4 DEF TakeOutcome, Tasks, Answer, Kind, Holds
    <3>. QED
      BY <1>1, <1>2, <1>5, <3>1, <3>2, Zenon DEF Wait, Own, Hand, Kept, Holds, EntryOf, At, Stored, Answer
  <2>5. ASSUME waits'[i] = waits[i], outcomes'[i] = outcomes[i], driver' = driver,
               i \in fault'.erased <=> i \in fault.erased,
               i \in fault'.crossed <=> i \in fault.crossed,
               task'[i].wait = task[i].wait, task'[i].gen = task[i].gen, task'[i].live = task[i].live,
               task[i].scheduled \/ task[i].pc = "poll" => task'[i].scheduled \/ task'[i].pc = "poll",
               task'[i].pc = "clear" => task[i].pc = "clear"
        PROVE  Wait(i)'
    BY <1>1, <1>2, <1>5, <2>5, Zenon DEF Wait, Own, Hand, Kept, Holds, EntryOf, At, Stored, Answer
  <2>6. ASSUME PollTask(i) \/ SignalDriver(i) PROVE Wait(i)'
    BY <1>0, <1>1, <2>5, <2>6 DEF PollTask, SignalDriver, Tasks
  <2>7. ASSUME DeferKey(i) \/ ClearOutcome(i) PROVE Wait(i)'
    <3>1. task[i].wait = None
      BY <1>1, <2>7 DEF Wait, Own, Holds, DeferKey, ClearOutcome
    <3>2. task'[i].wait = task[i].wait
      BY <1>0, <1>1, <2>7 DEF DeferKey, ClearOutcome, Tasks
    <3>. QED
      BY <2>1, <3>1, <3>2
  <2>8. ASSUME EndPending(i) PROVE Wait(i)'
    <3>1. CASE Settled(i)
      BY <1>0, <1>1, <2>1, <3>1 DEF Settled, NewTask, Tasks
    <3>2. CASE TaskAt(i, "idle") /\ UNCHANGED <<reactor, signalled, fault>>
      BY <1>0, <1>1, <2>5, <2>8, <3>2 DEF EndPending, TaskAt, Tasks
    <3>. QED
      BY <2>8, <3>1, <3>2, Zenon DEF EndPending
  <2>9. ASSUME Spawn(i) \/ DropWait(i) \/ FinishTask(i) PROVE Wait(i)'
    BY <1>0, <1>1, <2>1, <2>9 DEF Spawn, NewTask, DropWait, ClearEntry, FinishTask, Tasks, Holds
  <2>. QED
    BY <1>5, <2>1, <2>2, <2>3, <2>4, <2>6, <2>7, <2>8, <2>9
       DEF TaskStep, QueueReadinessWait, RegisterSleepWait
<1>. QED
  BY <1>4, <1>5

\* The driver goes on, and has nothing in hand.
LEMMA PastIdle ==
  ASSUME driver \in Drivers, NEW l \in DriverLabels \ Busy, NEW m \in DriverLabels \ Busy,
         Past(l, m) \/ Move(m)
  PROVE  driver'.pc \notin Busy
  BY Zenon DEF Past, Move, Drivers

\* Every step of the driver keeps it.
LEMMA DriverKeepsWait ==
  ASSUME RTypes, Least, \A j \in Slots : Wait(j), DriverStep, NEW j \in Slots
  PROVE  Wait(j)'
<1>. USE DEF reactor
<1>. DEFINE i == driver.i
<1>0. /\ task \in [Slots -> Tasks] /\ waits \in [Slots -> Maybe(Registered)]
      /\ outcomes \in [Slots -> Maybe(Outcomes)] /\ fault \in Faults /\ driver \in Drivers
      /\ i \in Slots /\ driver.then \in {"look", "check"}
      /\ driver.pc \in {"store", "schedule"} => driver.hand \in Outcomes
  BY DEF RTypes, Drivers
<1>1. task[i] \in Tasks /\ Wait(i) /\ Wait(j) /\ waits[i] \in Maybe(Registered)
  BY <1>0
<1>. HIDE DEF i
<1>2. ASSUME closer' = closer PROVE \A k : Closing(k)' <=> Closing(k)
  BY <1>2 DEF Closing
<1>. DEFINE Same(k) == /\ waits'[k] = waits[k] /\ outcomes'[k] = outcomes[k] /\ task'[k] = task[k]
                       /\ (k \in fault'.erased <=> k \in fault.erased)
                       /\ (k \in fault'.crossed <=> k \in fault.crossed)
                       /\ closer' = closer
<1>3. ASSUME Same(j),
             \/ driver'.pc \notin Busy /\ (driver.i # j \/ driver.pc \notin Busy)
             \/ driver'.i # j /\ (driver.i # j \/ driver.pc \notin Busy)
             \/ driver.pc \notin Busy /\ driver'.pc \in {"publish", "reject"} /\ waits[j] # None
      PROVE  Wait(j)'
  BY <1>1, <1>2, <1>3, Elsewhere
<1>4. ASSUME CheckShutdown \/ Flush \/ LookForTimers \/ LookForWaiters \/ Choose \/ Sleep \/ Poll \/ Drain
      PROVE  Wait(j)'
  <2>1. Same(j)
    BY <1>4, Zenon DEF CheckShutdown, Flush, LookForTimers, LookForWaiters, Choose, Sleep, Poll, Drain
  <2>2. driver.pc \notin Busy
    BY <1>4, Zenon DEF CheckShutdown, Flush, LookForTimers, LookForWaiters, Choose, Sleep, Poll, Drain,
       At, Busy
  <2>3. driver'.pc \notin Busy
    <3>1. CASE CheckShutdown \/ Flush
      BY <1>0, <2>2, <3>1, Zenon DEF CheckShutdown, Flush, Move, Drivers, Busy
    <3>2. CASE LookForTimers \/ LookForWaiters \/ Sleep
      BY <1>0, <3>2, Zenon DEF LookForTimers, LookForWaiters, Sleep, Drivers, Busy
    <3>3. CASE Choose
      BY <1>0, <3>3, Zenon DEF Choose, Drivers, Busy
    <3>4. CASE Poll \/ Drain
      BY <1>0, <3>4, Zenon DEF Poll, Drain, Drivers, Busy
    <3>. QED
      BY <1>4, <3>1, <3>2, <3>3, <3>4
  <2>. QED
    BY <1>3, <2>1, <2>2, <2>3
<1>5. ASSUME Activate PROVE Wait(j)'
  <2>1. Same(j) /\ driver.pc \notin Busy
    BY <1>5 DEF Activate, At, Busy
  <2>2. CASE Kind(MyWait) # "pending"
    BY <1>0, <1>3, <1>5, <2>1, <2>2, PastIdle, Zenon DEF Activate, DriverLabels, Busy
  <2>3. CASE Kind(MyWait) = "pending"
    <3>1. driver'.i = i /\ driver'.pc \in {"publish", "reject"}
      BY <1>0, <1>5, <2>3, Zenon DEF Activate, Drivers, i
    <3>2. waits[i] # None
      BY <2>3 DEF Kind, MyWait, i
    <3>. QED
      BY <1>3, <2>1, <3>1, <3>2
  <2>. QED
    BY <2>2, <2>3
<1>6. ASSUME Publish PROVE Wait(j)'
  <2>1. driver'.pc \notin Busy
    BY <1>0, <1>6, PastIdle, Zenon DEF Publish, DriverLabels, Busy
  <2>2. CASE j # i
    BY <1>0, <1>3, <1>6, <2>1, <2>2 DEF Publish, Faults, i
  <2>3. CASE j = i
    <3>1. UNCHANGED <<task, outcomes, closer>> /\ fault'.erased = fault.erased /\ driver.pc = "publish"
      BY <1>0, <1>6 DEF Publish, Faults, At
    <3>2. /\ waits[i] = None => waits'[i] = None
          /\ waits[i] # None => /\ waits'[i] # None
                                /\ waits'[i].gen = waits[i].gen /\ waits'[i].n = waits[i].n
                                /\ waits'[i].kind = "sleep" <=> waits[i].kind = "sleep"
                                /\ i \notin fault'.crossed =>
                                     i \notin fault.crossed /\ waits'[i].what = waits[i].what
      <4>1. CASE StillPending
        <5>1. waits[i] # None /\ waits[i] \in Registered /\ waits[i].kind = "pending"
          BY <1>1, <4>1 DEF StillPending, Kind, MyWait, Maybe, i
        <5>2. waits'[i] = [waits[i] EXCEPT !.kind = "ready", !.what = driver.hand.what]
          BY <1>0, <1>6, <4>1, Zenon DEF Publish, i
        <5>3. /\ waits'[i] # None /\ waits'[i].gen = waits[i].gen /\ waits'[i].n = waits[i].n
              /\ waits'[i].kind = "ready" /\ waits'[i].what = driver.hand.what
          <6>1. driver.hand.what \in Wants
            BY <1>6 DEF RTypes, Publish, At, Entries
          <6>2. /\ waits'[i].gen = waits[i].gen /\ waits'[i].n = waits[i].n
                /\ waits'[i].kind = "ready" /\ waits'[i].what = driver.hand.what
                /\ waits'[i] \in Entries(Kinds)
            BY <5>1, <5>2, <6>1, Zenon DEF Registered, Entries, Kinds
          <6>. QED
            BY <6>2, WorkloadAssumption
        <5>4. i \notin fault'.crossed => i \notin fault.crossed /\ waits[i].what = driver.hand.what
          BY <1>0, <1>6, <4>1 DEF Publish, Faults, MyWait, i
        <5>. QED
          BY <5>1, <5>3, <5>4
      <4>2. CASE ~StillPending
        BY <1>0, <1>6, <4>2 DEF Publish, Faults
      <4>. QED
        BY <4>1, <4>2
    <3>. QED
      BY <1>1, <1>2, <2>1, <2>3, <3>1, <3>2, Zenon
         DEF Wait, Own, Hand, Kept, Holds, EntryOf, At, Stored, Answer, Busy
  <2>. QED
    BY <2>2, <2>3
<1>7. ASSUME Reject PROVE Wait(j)'
  <2>1. /\ driver'.i = i /\ driver'.pc = "store" /\ driver'.hand.kind = "error"
        /\ driver'.hand.gen = driver.hand.gen /\ driver'.hand # None /\ driver.pc = "reject"
    BY <1>0, <1>7, WorkloadAssumption DEF Reject, RTypes, Drivers, Entries, At, Kinds, i
  <2>2. CASE j # i
    BY <1>0, <1>3, <1>7, <2>1, <2>2 DEF Reject, i
  <2>3. CASE j = i
    <3>1. UNCHANGED <<task, outcomes, closer, fault>>
      BY <1>7 DEF Reject
    <3>2. \/ waits'[i] = waits[i]
          \/ waits'[i] = None /\ waits[i] # None /\ waits[i].gen = driver.hand.gen
      BY <1>0, <1>7 DEF Reject, StillPending, Kind, MyWait, i
    <3>. QED
      BY <1>1, <1>2, <2>1, <2>3, <3>1, <3>2, Zenon
         DEF Wait, Own, Hand, Kept, Holds, EntryOf, At, Stored, Answer, i
  <2>. QED
    BY <2>2, <2>3
<1>8. ASSUME CollectDue PROVE Wait(j)'
  <2>1. UNCHANGED <<task, outcomes, closer, fault>> /\ driver.pc = "collect"
    BY <1>8 DEF CollectDue, At
  <2>2. CASE ~(Kind(MyWait) = "sleep" /\ MyWait.what <= driver.now)
    <3>1. driver'.pc \notin Busy /\ waits' = waits
      BY <1>0, <1>8, <2>2, PastIdle, Zenon DEF CollectDue, DriverLabels, Busy
    <3>. QED
      BY <1>3, <2>1, <3>1 DEF Busy
  <2>3. CASE Kind(MyWait) = "sleep" /\ MyWait.what <= driver.now
    <3>1. /\ driver'.i = i /\ driver'.pc = "store" /\ driver'.hand = waits[i]
          /\ waits' = [waits EXCEPT ![i] = None]
      BY <1>0, <1>8, <2>3, Zenon DEF CollectDue, Drivers, MyWait, i
    <3>2. CASE j # i
      BY <1>0, <1>3, <2>1, <3>1, <3>2 DEF i
    <3>3. CASE j = i
      <4>1. waits[i] # None /\ waits[i].kind = "sleep"
        BY <2>3 DEF Kind, MyWait, i
      <4>. QED
        BY <1>0, <1>1, <1>2, <2>1, <3>1, <3>3, <4>1, Zenon
           DEF Wait, Own, Hand, Kept, Holds, EntryOf, At, Stored, Answer
    <3>. QED
      BY <3>2, <3>3
  <2>. QED
    BY <2>2, <2>3
<1>9. ASSUME StoreOutcome PROVE Wait(j)'
  <2>1. /\ UNCHANGED <<task, waits, closer, fault>> /\ driver.pc = "store"
        /\ driver'.i = i /\ driver'.pc = "schedule" /\ driver'.hand = driver.hand
        /\ outcomes' = [outcomes EXCEPT ![i] = driver.hand]
    BY <1>0, <1>9 DEF StoreOutcome, At, Drivers, i
  <2>2. CASE j # i
    BY <1>0, <1>3, <2>1, <2>2 DEF i
  <2>3. CASE j = i
    BY <1>0, <1>1, <1>2, <2>1, <2>3, Zenon DEF Wait, Own, Hand, Kept, Holds, EntryOf, At, Stored, Answer, i
  <2>. QED
    BY <2>2, <2>3
<1>10. ASSUME ScheduleSlot PROVE Wait(j)'
  <2>. DEFINE wanted == MyTask.live /\ MyTask.gen = driver.hand.gen /\ ~MyTask.scheduled
  <2>0. driver.pc = "schedule" /\ closer' = closer
    BY <1>10 DEF ScheduleSlot, At
  <2>1. driver'.pc \notin Busy
    <3>1. driver.hand.kind \in {"ready", "sleep", "error"}
      BY <1>0, <2>0, Zenon DEF Outcomes, Entries
    <3>2. \/ Move("exit") \/ Move("resolve") \/ Past("activate", "due") \/ Past("collect", driver.then)
      BY <1>10, <3>1, Zenon DEF ScheduleSlot
    <3>. QED
      BY <1>0, <3>2, PastIdle, Zenon DEF DriverLabels, Busy
  <2>2. CASE Settled(i)
    <3>1. CASE j # i
      <4>1. Same(j)
        BY <1>0, <2>0, <2>2, <3>1 DEF Settled, Defer, Faults
      <4>. QED
        BY <1>3, <2>1, <3>1, <4>1, Zenon DEF i
    <3>2. CASE j = i
      <4>1. task'[i].wait = None /\ task'[i].pc = "idle"
        BY <1>0, <1>1, <2>2 DEF Settled, NewTask
      <4>. QED
        BY <3>2, <4>1 DEF Wait, Own, Hand, Kept, Holds
    <3>. QED
      BY <3>1, <3>2
  <2>3. CASE task' = [task EXCEPT ![i].scheduled = @ \/ wanted] /\ UNCHANGED <<reactor, signalled, fault>>
    <3>1. CASE j # i
      BY <1>0, <1>3, <2>0, <2>1, <2>3, <3>1 DEF i
    <3>2. CASE j = i
      <4>1. /\ task'[i].pc = task[i].pc /\ task'[i].wait = task[i].wait /\ task'[i].gen = task[i].gen
            /\ task'[i].live = task[i].live /\ task'[i].scheduled = (task[i].scheduled \/ wanted)
        BY <1>0, <1>1, <2>3 DEF Tasks
      <4>2. wanted <=> task[i].live /\ task[i].gen = driver.hand.gen /\ ~task[i].scheduled
        BY DEF MyTask, i
      <4>. HIDE DEF wanted
      <4>3. waits' = waits /\ outcomes' = outcomes /\ fault' = fault
        BY <2>3
      <4>4. Own(j)'
        BY <1>1, <3>2, <4>1, <4>3 DEF Wait, Own, Holds, EntryOf
      <4>5. Hand(j)'
        BY <2>1 DEF Hand, At, Busy
      <4>6. Kept(j)'
        BY <1>1, <1>2, <2>0, <3>2, <4>1, <4>2, <4>3, Zenon DEF Wait, Own, Kept, Holds, At, Stored, Answer
      <4>. QED
        BY <4>4, <4>5, <4>6 DEF Wait
    <3>. QED
      BY <3>1, <3>2
  <2>. QED
    BY <1>10, <2>2, <2>3, Zenon DEF ScheduleSlot, i
<1>11. ASSUME Resolve PROVE Wait(j)'
  <2>0. UNCHANGED <<task, outcomes, closer, fault>> /\ driver.pc = "resolve" /\ driver.pc \notin Busy
    BY <1>11 DEF Resolve, At, Busy
  <2>1. CASE ResolveNone
    <3>1. driver'.pc = driver.pc /\ waits' = waits
      BY <1>0, <2>1 DEF ResolveNone, Drivers
    <3>. QED
      BY <1>3, <2>0, <3>1
  <2>2. ASSUME NEW m \in Slots, ResolveEntry(m) PROVE Wait(j)'
    <3>1. /\ waits' = [waits EXCEPT ![m] = None] /\ waits[m] # None /\ waits[m].kind = "ready"
          /\ driver'.pc = "store" /\ driver'.i = m /\ driver'.hand = waits[m]
      BY <1>0, <2>2 DEF ResolveEntry, Drivers, Kind
    <3>2. CASE j # m
      BY <1>0, <1>3, <2>0, <3>1, <3>2
    <3>3. CASE j = m
      BY <1>0, <1>1, <1>2, <2>0, <3>1, <3>3, Zenon
         DEF Wait, Own, Hand, Kept, Holds, EntryOf, At, Stored, Answer
    <3>. QED
      BY <3>2, <3>3
  <2>. QED
    BY <1>11, <2>1, <2>2, ResolveCases
<1>. QED
  BY <1>4, <1>5, <1>6, <1>7, <1>8, <1>9, <1>10, <1>11 DEF DriverStep

\* Every step of the thread in shutdown keeps it.
LEMMA CloserKeepsWait ==
  ASSUME RTypes, \A j \in Slots : Wait(j), CloserStep, NEW j \in Slots
  PROVE  Wait(j)'
<1>. USE DEF reactor
<1>. DEFINE i == closer.i
<1>0. /\ task \in [Slots -> Tasks] /\ waits \in [Slots -> Maybe(Registered)]
      /\ outcomes \in [Slots -> Maybe(Outcomes)] /\ fault \in Faults /\ closer \in Closers
      /\ i \in Slots
  BY Zenon DEF RTypes, Closers
<1>1. task[i] \in Tasks /\ Wait(j)
  BY <1>0
<1>. HIDE DEF i
<1>2. driver' = driver
  BY DEF CloserStep, CloseEntry, CloseKey, CloseTask, JoinDriver
<1>3. ASSUME waits'[j] = waits[j], outcomes'[j] = outcomes[j], task'[j] = task[j],
             j \in fault'.erased <=> j \in fault.erased, j \in fault'.crossed <=> j \in fault.crossed,
             Closing(j)' <=> Closing(j)
      PROVE  Wait(j)'
  BY <1>1, <1>2, <1>3, Elsewhere
<1>4. ASSUME CloseEntry PROVE Wait(j)'
  <2>1. /\ closer'.i = i /\ closer.pc = "up" /\ closer'.pc = "clear"
        /\ UNCHANGED <<outcomes, task, fault>>
        /\ waits'[j] = waits[j] \/ (j = i /\ waits'[j] = None)
    BY <1>0, <1>4 DEF CloseEntry, Closers, i
  <2>2. CASE j # i
    BY <1>3, <2>1, <2>2 DEF Closing, i
  <2>3. CASE j = i
    BY <1>1, <2>1, <2>3, Zenon DEF Wait, Own, Hand, Kept, Holds, EntryOf, Closing
  <2>. QED
    BY <2>2, <2>3
<1>5. ASSUME CloseKey PROVE Wait(j)'
  <2>1. closer'.i = closer.i /\ closer.pc = "clear" /\ closer'.pc = "fail"
    BY <1>0, <1>5 DEF CloseKey, Closers
  <2>. QED
    BY <1>0, <1>3, <1>5, <2>1 DEF CloseKey, Defer, Faults, Closing
<1>6. ASSUME CloseTask PROVE Wait(j)'
  <2>1. closer'.pc \in {"up", "join"} /\ UNCHANGED <<waits, fault>>
    BY <1>0, <1>6 DEF CloseTask, Closers
  <2>2. CASE j # i
    BY <1>0, <1>3, <1>6, <2>1, <2>2 DEF CloseTask, Closing, i
  <2>3. CASE j = i
    <3>1. task'[i].wait = None
      BY <1>0, <1>1, <1>6 DEF CloseTask, Tasks, i
    <3>. QED
      BY <2>3, <3>1 DEF Wait, Own, Hand, Kept, Holds
  <2>. QED
    BY <2>2, <2>3
<1>7. ASSUME JoinDriver PROVE Wait(j)'
  BY <1>0, <1>3, <1>7 DEF JoinDriver, Closing, Closers
<1>. QED
  BY <1>4, <1>5, <1>6, <1>7 DEF CloserStep

\* It holds at first, every step of the executor keeps it, and WaitKept follows.
WaitInv == ReactorTypes /\ \A i \in Slots : Wait(i)

LEMMA InitWait ==
  RInit => WaitInv
<1>. SUFFICES ASSUME RInit PROVE WaitInv
  OBVIOUS
<1>1. ASSUME NEW i \in Slots PROVE task[i].wait = None /\ task[i].pc = "idle"
  BY <1>1, Zenon DEF RInit, RInit, NewTask
<1>. QED
  BY <1>1, InitTypes DEF WaitInv, Wait, Own, Hand, Kept, Holds

LEMMA WaitStep ==
  ASSUME WaitInv, Least, [RNext]_reactor_vars PROVE WaitInv'
<1>1. ReactorTypes' /\ Slots' = Slots
  BY TypesKept, BoundFixed DEF WaitInv, reactor_vars, outside, Slots, SlotCount
<1>2. ASSUME NEW j \in Slots PROVE Wait(j)'
  <2>1. CASE UNCHANGED reactor_vars \/ (\E s : Turn(s)) \/ Tick
    <3>1. UNCHANGED <<waits, outcomes, task, fault, closer, driver>>
      BY <2>1, Zenon DEF Turn, Tick, reactor_vars, reactor
    <3>. QED
      BY <3>1 DEF WaitInv, Wait, Own, Hand, Kept, Holds, EntryOf, At, Stored, Answer, Closing
  <2>. QED
    BY <2>1, TaskKeepsWait, DriverKeepsWait, CloserKeepsWait DEF RNext, WaitInv, ReactorTypes
<1>. QED
  BY <1>1, <1>2 DEF WaitInv

LEMMA WaitFollows ==
  WaitInv => WaitKept
  BY DEF WaitInv, Wait, Own, Hand, Kept, Holds, At, Stored, Answer, Answering, WaitKept

\* What is behind KeysNamed.  A key is held by an entry of the table, by the task
\* or the thread in shutdown that clears one, or by the driver that is about to
\* publish it: one holder for each.
Holders == {"entry", "task", "closer", "driver"} \X Slots
EntryKey(i) == IF Kind(waits[i]) = "ready" THEN waits[i].what ELSE None
CloserKey(i) == IF closer.pc = "clear" /\ closer.i = i THEN closer.key ELSE None
DriverKey(i) == IF At("publish") /\ driver.i = i THEN driver.hand.what ELSE None
Key == [h \in Holders |-> IF h[1] = "entry" THEN EntryKey(h[2])
                          ELSE IF h[1] = "task" THEN task[h[2]].key
                          ELSE IF h[1] = "closer" THEN CloserKey(h[2]) ELSE DriverKey(h[2])]

\* Each key that was not leaked is held or waits for its deregistration, in one
\* place only.
OneHolder(key, keys, queued, leaked) ==
  /\ \A h \in Holders : key[h] # None => key[h] \in keys \ queued
  /\ \A h, g \in Holders : key[h] # None /\ key[h] = key[g] => h = g
  /\ queued \subseteq keys
  /\ \A k \in keys \ leaked : k \in queued \/ \E h \in Holders : key[h] = k

\* Outside of "clear" the thread in shutdown has only a key it has leaked in hand,
\* and a task only in "clear".
KeysHeld ==
  /\ OneHolder(Key, poller, pending_deregister, fault.leaked)
  /\ \A i \in Slots : task[i].key # None => task[i].pc = "clear"
  /\ closer.key # None => closer.pc = "clear" \/ closer.key \in fault.leaked

\* A key goes from one holder to another, ...
LEMMA Handed ==
  ASSUME NEW K, NEW P, NEW Q, NEW L, OneHolder(K, P, Q, L), NEW h \in Holders, NEW g \in Holders,
         K[g] = None, NEW K2, K2 = [x \in Holders |-> IF x = g THEN K[h] ELSE IF x = h THEN None ELSE K[x]]
  PROVE  OneHolder(K2, P, Q, L)
  BY DEF OneHolder

\* ... is leaked, ...
LEMMA Leaked ==
  ASSUME NEW K, NEW P, NEW Q, NEW L, OneHolder(K, P, Q, L), NEW h \in Holders,
         NEW K2, K2 = [x \in Holders |-> IF x = h THEN None ELSE K[x]],
         NEW L2, L2 \cup {None} = L \cup {K[h], None}
  PROVE  OneHolder(K2, P, Q, L2)
  BY DEF OneHolder

\* ... is queued for deregistration, ...
LEMMA Queued ==
  ASSUME NEW K, NEW P, NEW Q, NEW L, OneHolder(K, P, Q, L), NEW h \in Holders,
         NEW K2, K2 = [x \in Holders |-> IF x = h THEN None ELSE K[x]],
         NEW Q2, Q2 = Q \cup ({K[h]} \ {None})
  PROVE  OneHolder(K2, P, Q2, L)
  BY DEF OneHolder

\* ... is registered, ...
LEMMA Registers ==
  ASSUME NEW K, NEW P, NEW Q, NEW L, OneHolder(K, P, Q, L), NEW h \in Holders, K[h] = None,
         NEW k, k \notin P, k # None, None \notin P,
         NEW K2, K2 = [x \in Holders |-> IF x = h THEN k ELSE K[x]],
         NEW P2, P2 = P \cup {k}
  PROVE  OneHolder(K2, P2, Q, L)
<1>1. \A x \in Holders : K2[x] # None => K2[x] \in P2 \ Q
  BY DEF OneHolder
<1>2. \A x, y \in Holders : K2[x] # None /\ K2[x] = K2[y] => x = y
  BY DEF OneHolder
<1>3. \A l \in P2 \ L : l \in Q \/ \E x \in Holders : K2[x] = l
  <2>. SUFFICES ASSUME NEW l \in P2 \ L, l \notin Q PROVE \E x \in Holders : K2[x] = l
    OBVIOUS
  <2>1. CASE l = k
    BY <2>1
  <2>2. CASE l # k
    <3>1. PICK x \in Holders : K[x] = l
      <4>1. l \in P \ L
        BY <2>2
      <4>. QED
        BY <4>1 DEF OneHolder
    <3>. QED
      BY <2>2, <3>1
  <2>. QED
    BY <2>1, <2>2
<1>. QED
  BY <1>1, <1>2, <1>3 DEF OneHolder

\* ... is deregistered by its holder, or from the queue.
LEMMA Deregisters ==
  ASSUME NEW K, NEW P, NEW Q, NEW L, OneHolder(K, P, Q, L), NEW h \in Holders, K[h] # None,
         NEW K2, K2 = [x \in Holders |-> IF x = h THEN None ELSE K[x]],
         NEW P2, P2 = P \ {K[h]}
  PROVE  OneHolder(K2, P2, Q, L)
  BY DEF OneHolder

LEMMA Flushes ==
  ASSUME NEW K, NEW P, NEW Q, NEW L, OneHolder(K, P, Q, L), NEW k \in Q
  PROVE  OneHolder(K, P \ {k}, Q \ {k}, L)
  BY DEF OneHolder

\* The keys by holder.
LEMMA KeyIs ==
  ASSUME NEW i \in Slots
  PROVE  /\ <<"entry", i>> \in Holders /\ Key[<<"entry", i>>] = EntryKey(i)
         /\ <<"task", i>> \in Holders /\ Key[<<"task", i>>] = task[i].key
         /\ <<"closer", i>> \in Holders /\ Key[<<"closer", i>>] = CloserKey(i)
         /\ <<"driver", i>> \in Holders /\ Key[<<"driver", i>>] = DriverKey(i)
<1>. DEFINE F(h) == IF h[1] = "entry" THEN EntryKey(h[2])
                    ELSE IF h[1] = "task" THEN task[h[2]].key
                    ELSE IF h[1] = "closer" THEN CloserKey(h[2]) ELSE DriverKey(h[2])
<1>1. \A h \in Holders : Key[h] = F(h)
  BY DEF Key
<1>2. \A c \in {"entry", "task", "closer", "driver"} : <<c, i>> \in Holders
  BY DEF Holders
<1>. QED
  BY <1>1, <1>2

\* After a step, one holder after the other.
LEMMA NewKeys ==
  ASSUME Slots' = Slots, NEW F,
         \A i \in Slots : /\ F[<<"entry", i>>] = EntryKey(i)' /\ F[<<"task", i>>] = task'[i].key
                          /\ F[<<"closer", i>>] = CloserKey(i)' /\ F[<<"driver", i>>] = DriverKey(i)'
  PROVE  Key' = [h \in Holders |-> F[h]]
<1>1. Holders' = Holders
  BY DEF Holders
<1>2. ASSUME NEW h \in Holders PROVE Key'[h] = F[h]
  <2>1. PICK c \in {"entry", "task", "closer", "driver"}, i \in Slots : h = <<c, i>>
    BY DEF Holders
  <2>2. h[1] = c /\ h[2] = i
    BY <2>1
  <2>. QED
    BY <1>1, <2>1, <2>2, Zenon DEF Key
<1>3. Key' = [h \in Holders |-> Key'[h]]
  BY <1>1 DEF Key
<1>. QED
  BY <1>2, <1>3

\* What is left to show of a step.
Keys(key, keys, queued, leaked) ==
  /\ OneHolder(key, keys, queued, leaked)
  /\ \A i \in Slots : task'[i].key # None => task'[i].pc = "clear"
  /\ closer'.key # None => closer'.pc = "clear" \/ closer'.key \in leaked

LEMMA HeldAfter ==
  ASSUME Slots' = Slots, Keys(Key', poller', pending_deregister', fault'.leaked) PROVE KeysHeld'
<1>1. Holders' = Holders
  BY DEF Holders
<1>. QED
  BY <1>1 DEF KeysHeld, Keys, OneHolder

\* The holders but some keep their keys.
SameBut(hs) ==
  \A i \in Slots : /\ <<"entry", i>> \notin hs => EntryKey(i)' = EntryKey(i)
                   /\ <<"task", i>> \notin hs => task'[i].key = task[i].key
                   /\ <<"closer", i>> \notin hs => CloserKey(i)' = CloserKey(i)
                   /\ <<"driver", i>> \notin hs => DriverKey(i)' = DriverKey(i)
After(h) == IF h[1] = "entry" THEN EntryKey(h[2])' ELSE IF h[1] = "task" THEN task'[h[2]].key
            ELSE IF h[1] = "closer" THEN CloserKey(h[2])' ELSE DriverKey(h[2])'

LEMMA AfterIs ==
  ASSUME NEW i
  PROVE  /\ After(<<"entry", i>>) = EntryKey(i)' /\ After(<<"task", i>>) = task'[i].key
         /\ After(<<"closer", i>>) = CloserKey(i)' /\ After(<<"driver", i>>) = DriverKey(i)'
  BY DEF After

\* The keys after a step of at most two holders, ...
LEMMA KeysChange ==
  ASSUME Slots' = Slots, NEW h \in Holders, NEW g \in Holders, SameBut({h, g})
  PROVE  Key' = [x \in Holders |-> IF x = g THEN After(g) ELSE IF x = h THEN After(h) ELSE Key[x]]
<1>. DEFINE F == [x \in Holders |-> IF x = g THEN After(g) ELSE IF x = h THEN After(h) ELSE Key[x]]
<1>1. ASSUME NEW i \in Slots
      PROVE  /\ F[<<"entry", i>>] = EntryKey(i)' /\ F[<<"task", i>>] = task'[i].key
             /\ F[<<"closer", i>>] = CloserKey(i)' /\ F[<<"driver", i>>] = DriverKey(i)'
  BY AfterIs, KeyIs DEF SameBut
<1>. HIDE DEF F
<1>2. Key' = [x \in Holders |-> F[x]]
  BY <1>1, NewKeys, Zenon
<1>. QED
  BY <1>2 DEF F

\* ... and of none.
LEMMA KeysSame ==
  ASSUME Slots' = Slots, SameBut({}) PROVE Key' = Key
<1>1. \A i \in Slots : /\ Key[<<"entry", i>>] = EntryKey(i)' /\ Key[<<"task", i>>] = task'[i].key
                       /\ Key[<<"closer", i>>] = CloserKey(i)' /\ Key[<<"driver", i>>] = DriverKey(i)'
  BY KeyIs, Zenon DEF SameBut
<1>2. Key' = [h \in Holders |-> Key[h]]
  BY <1>1, NewKeys
<1>. QED
  BY <1>2 DEF Key

\* Defer queues the keys it is given, or leaks them.
LEMMA Defers ==
  ASSUME fault \in Faults, NEW K, NEW P, OneHolder(K, P, pending_deregister, fault.leaked),
         NEW h \in Holders, Defer({K[h]} \ {None}),
         NEW K2, K2 = [x \in Holders |-> IF x = h THEN None ELSE K[x]]
  PROVE  OneHolder(K2, P, pending_deregister', fault'.leaked)
<1>1. CASE Room
  <2>1. pending_deregister' = pending_deregister \cup ({K[h]} \ {None}) /\ fault' = fault
    BY <1>1 DEF Defer
  <2>. QED
    BY <2>1, Queued
<1>2. CASE ~Room
  <2>1. /\ pending_deregister' = pending_deregister
        /\ fault'.leaked = fault.leaked \cup ({K[h]} \ {None})
    BY <1>2 DEF Defer, Faults
  <2>. QED
    BY <2>1, Leaked
<1>. QED
  BY <1>1, <1>2

\* clear_wait_deferred takes the key of the entry.
LEMMA ClearedKey ==
  ASSUME RTypes, NEW i \in Slots,
         waits' = [waits EXCEPT ![i] = IF Mine(i, task[i].gen) THEN None ELSE @]
  PROVE  /\ \A j \in Slots \ {i} : EntryKey(j)' = EntryKey(j)
         /\ \/ EntryKey(i)' = None /\ KeyOf(i, task[i].gen) = EntryKey(i)
            \/ EntryKey(i)' = EntryKey(i) /\ KeyOf(i, task[i].gen) = None
<1>1. waits \in [Slots -> Maybe(Registered)]
  BY DEF RTypes
<1>2. \A j \in Slots \ {i} : EntryKey(j)' = EntryKey(j)
  BY <1>1 DEF EntryKey, Kind
<1>3. CASE Mine(i, task[i].gen)
  BY <1>1, <1>3 DEF EntryKey, Kind, KeyOf, Mine
<1>4. CASE ~Mine(i, task[i].gen)
  BY <1>1, <1>4 DEF EntryKey, Kind, KeyOf
<1>. QED
  BY <1>2, <1>3, <1>4

\* A slot that is settled gives up its key.
LEMMA SettledKeys ==
  ASSUME RTypes, KeysHeld, NEW i \in Slots, Settled(i), task[i].pc # "clear", Slots' = Slots,
         closer' = closer, poller' = poller, \A j \in Slots : DriverKey(j)' = DriverKey(j)
  PROVE  KeysHeld'
<1>. DEFINE h == <<"entry", i>>
<1>0. /\ task \in [Slots -> Tasks] /\ fault \in Faults
      /\ waits' = [waits EXCEPT ![i] = IF Mine(i, task[i].gen) THEN None ELSE @]
      /\ Defer({KeyOf(i, task[i].gen)} \ {None})
  BY DEF RTypes, Settled
<1>1. /\ \A j \in Slots : task'[j].key = task[j].key /\ (task'[j].key # None => task'[j].pc = "clear")
      /\ \A j \in Slots : CloserKey(j)' = CloserKey(j)
  BY <1>0 DEF Settled, NewTask, KeysHeld, CloserKey
<1>2. fault.leaked \subseteq fault'.leaked
  BY <1>0 DEF Defer, Faults
<1>3. h \in Holders /\ Key[h] = EntryKey(i) /\ After(h) = EntryKey(i)'
  BY KeyIs, AfterIs, Zenon
<1>4. OneHolder(Key', poller', pending_deregister', fault'.leaked)
  <2>1. CASE EntryKey(i)' = None /\ KeyOf(i, task[i].gen) = EntryKey(i)
    <3>1. SameBut({h, h})
      BY <1>0, <1>1, ClearedKey, Zenon DEF SameBut
    <3>2. Key' = [x \in Holders |-> IF x = h THEN None ELSE Key[x]]
      <4>1. Key' = [x \in Holders |-> IF x = h THEN After(h) ELSE IF x = h THEN After(h) ELSE Key[x]]
        BY <1>3, <3>1, KeysChange
      <4>. QED
        BY <1>3, <2>1, <4>1
    <3>3. Defer({Key[h]} \ {None})
      BY <1>0, <1>3, <2>1
    <3>. QED
      BY <1>0, <1>3, <3>2, <3>3, Defers, Zenon DEF KeysHeld
  <2>2. CASE EntryKey(i)' = EntryKey(i) /\ KeyOf(i, task[i].gen) = None
    <3>1. Key' = Key
      BY <1>0, <1>1, <2>2, ClearedKey, KeysSame, Zenon DEF SameBut
    <3>2. pending_deregister' = pending_deregister /\ fault'.leaked = fault.leaked
      BY <1>0, <2>2 DEF Defer, Faults
    <3>. QED
      BY <3>1, <3>2 DEF KeysHeld
  <2>. QED
    BY <1>0, <2>1, <2>2, ClearedKey, Zenon
<1>. QED
  BY <1>1, <1>2, <1>4, HeldAfter, Zenon DEF KeysHeld, Keys

\* Every step of a task keeps one holder for each key.
LEMMA TaskKeys ==
  ASSUME RTypes, KeysHeld, NEW i \in Slots, TaskStep(i), Slots' = Slots
  PROVE  KeysHeld'
<1>. USE DEF reactor
<1>. DEFINE e == <<"entry", i>>
            t == <<"task", i>>
<1>0. /\ task \in [Slots -> Tasks] /\ waits \in [Slots -> Maybe(Registered)] /\ fault \in Faults
      /\ driver \in Drivers /\ task[i] \in Tasks
  BY DEF RTypes
<1>1. /\ closer' = closer /\ poller' = poller
      /\ \A j \in Slots : CloserKey(j)' = CloserKey(j) /\ DriverKey(j)' = DriverKey(j)
      /\ \A j \in Slots \ {i} : task'[j] = task[j] /\ EntryKey(j)' = EntryKey(j)
  <2>1. \A j \in Slots : DriverKey(j)' = DriverKey(j)
    BY <1>0, TaskLocal DEF DriverKey, At, Drivers
  <2>. QED
    BY <2>1, TaskLocal DEF CloserKey, EntryKey, Kind
<1>2. /\ e \in Holders /\ Key[e] = EntryKey(i) /\ After(e) = EntryKey(i)'
      /\ t \in Holders /\ Key[t] = task[i].key /\ After(t) = task'[i].key
  BY KeyIs, AfterIs, Zenon
<1>. HIDE DEF e, t
<1>3. SameBut({e, t})
  BY <1>1 DEF SameBut, e, t
<1>4. Key' = [x \in Holders |-> IF x = t THEN task'[i].key ELSE IF x = e THEN EntryKey(i)' ELSE Key[x]]
  <2>1. Key' = [x \in Holders |-> IF x = t THEN After(t) ELSE IF x = e THEN After(e) ELSE Key[x]]
    BY <1>2, <1>3, KeysChange
  <2>. QED
    BY <1>2, <2>1
<1>5. ASSUME OneHolder(Key', poller, pending_deregister', fault'.leaked),
             fault.leaked \subseteq fault'.leaked,
             task'[i].key # None => task'[i].pc = "clear"
      PROVE  KeysHeld'
  BY <1>1, <1>5, HeldAfter DEF KeysHeld, Keys
<1>6. e # t
  BY DEF e, t
<1>7. Key = [x \in Holders |-> Key[x]]
  BY DEF Key
<1>8. ASSUME task'[i].key = task[i].key, EntryKey(i)' = EntryKey(i),
             task'[i].key # None => task'[i].pc = "clear",
             pending_deregister' = pending_deregister, fault'.leaked = fault.leaked
      PROVE  KeysHeld'
  <2>1. Key' = Key
    BY <1>2, <1>4, <1>7, <1>8
  <2>. QED
    BY <1>5, <1>8, <2>1, Zenon DEF KeysHeld
<1>9. ASSUME NEW kind \in {"pending", "sleep"}, NEW what, StartWait(i, kind, what) PROVE KeysHeld'
  <2>1. EntryKey(i)' = None /\ task'[i].key = task[i].key /\ task'[i].key = None
    BY <1>0, <1>9 DEF EntryKey, Kind, StartWait, Entry, Tasks, KeysHeld
  <2>2. Key' = [x \in Holders |-> IF x = e THEN None ELSE Key[x]]
    BY <1>2, <1>4, <1>6, <2>1
  <2>3. fault'.leaked \cup {None} = fault.leaked \cup {Key[e], None} /\ fault.leaked \subseteq fault'.leaked
    BY <1>0, <1>2, <1>9 DEF StartWait, Faults, EntryKey
  <2>4. OneHolder(Key', poller, pending_deregister, fault'.leaked)
    BY <1>2, <2>2, <2>3, Leaked DEF KeysHeld
  <2>. QED
    BY <1>5, <1>9, <2>1, <2>3, <2>4 DEF StartWait
<1>10. ASSUME DropWait(i) \/ FinishTask(i) PROVE KeysHeld'
  <2>1. /\ waits' = [waits EXCEPT ![i] = IF Mine(i, task[i].gen) THEN None ELSE @]
        /\ task'[i].key = KeyOf(i, task[i].gen) /\ task'[i].pc = "clear" /\ task[i].key = None
        /\ UNCHANGED <<pending_deregister, fault>>
    BY <1>0, <1>10 DEF DropWait, ClearEntry, FinishTask, Tasks, KeysHeld
  <2>2. OneHolder(Key', poller, pending_deregister, fault.leaked)
    <3>1. CASE EntryKey(i)' = None /\ KeyOf(i, task[i].gen) = EntryKey(i)
      <4>1. Key' = [x \in Holders |-> IF x = t THEN Key[e] ELSE IF x = e THEN None ELSE Key[x]]
        BY <1>2, <1>4, <2>1, <3>1
      <4>. QED
        BY <1>2, <2>1, <4>1, Handed DEF KeysHeld
    <3>2. CASE EntryKey(i)' = EntryKey(i) /\ KeyOf(i, task[i].gen) = None
      <4>1. Key' = Key
        BY <1>2, <1>4, <1>7, <2>1, <3>2
      <4>. QED
        BY <4>1 DEF KeysHeld
    <3>. QED
      BY <2>1, <3>1, <3>2, ClearedKey, Zenon
  <2>. QED
    BY <1>5, <2>1, <2>2
<1>11. ASSUME DeferKey(i) PROVE KeysHeld'
  <2>1. /\ task'[i].key = None /\ EntryKey(i)' = EntryKey(i) /\ Defer({Key[t]} \ {None})
    BY <1>0, <1>2, <1>11, Zenon DEF DeferKey, Tasks, EntryKey, Kind
  <2>2. Key' = [x \in Holders |-> IF x = t THEN None ELSE Key[x]]
    BY <1>2, <1>4, <1>6, <2>1
  <2>3. OneHolder(Key', poller, pending_deregister', fault'.leaked)
    BY <1>0, <1>2, <2>1, <2>2, Defers, Zenon DEF KeysHeld
  <2>4. fault.leaked \subseteq fault'.leaked
    BY <1>0, <2>1 DEF Defer, Faults
  <2>. QED
    BY <1>5, <2>1, <2>3, <2>4
<1>12. ASSUME EndPending(i) PROVE KeysHeld'
  <2>1. CASE Settled(i)
    BY <1>1, <1>12, <2>1, SettledKeys DEF EndPending
  <2>2. CASE TaskAt(i, "idle") /\ UNCHANGED <<reactor, signalled, fault>>
    BY <1>0, <1>8, <1>12, <2>2 DEF EndPending, TaskAt, Tasks, EntryKey, Kind, KeysHeld
  <2>. QED
    BY <1>12, <2>1, <2>2, Zenon DEF EndPending
<1>13. ASSUME Spawn(i) \/ PollTask(i) \/ ResetOutcome(i) PROVE KeysHeld'
  <2>1. /\ waits' = waits /\ task'[i].key = task[i].key /\ task'[i].key = None
        /\ UNCHANGED pending_deregister /\ fault'.leaked = fault.leaked
    BY <1>0, <1>13 DEF Spawn, PollTask, ResetOutcome, NewTask, Tasks, KeysHeld, Faults
  <2>. QED
    BY <1>8, <2>1 DEF EntryKey, Kind
<1>14. ASSUME SignalDriver(i) \/ TakeOutcome(i) \/ ClearOutcome(i) PROVE KeysHeld'
  <2>1. /\ waits' = waits /\ task'[i].key = task[i].key /\ task'[i].key = None
        /\ UNCHANGED <<pending_deregister, fault>>
    BY <1>0, <1>14 DEF SignalDriver, TakeOutcome, ClearOutcome, Tasks, KeysHeld
  <2>. QED
    BY <1>8, <2>1 DEF EntryKey, Kind
<1>. QED
  BY <1>9, <1>10, <1>11, <1>12, <1>13, <1>14 DEF TaskStep, QueueReadinessWait, RegisterSleepWait

\* Every step of the driver keeps one holder for each key.
LEMMA DriverKeys ==
  ASSUME RTypes, Least, KeysHeld, DriverStep, Slots' = Slots
  PROVE  KeysHeld'
<1>. USE DEF reactor
<1>i. PICK i \in Slots : i = driver.i
  BY DEF RTypes, Drivers
<1>. DEFINE e == <<"entry", i>>
            d == <<"driver", i>>
<1>0. /\ task \in [Slots -> Tasks] /\ waits \in [Slots -> Maybe(Registered)] /\ fault \in Faults
      /\ driver \in Drivers /\ driver.i = i /\ poller \subseteq Wants
      /\ driver.then \in {"look", "check"}
      /\ driver.pc \in {"store", "schedule"} => driver.hand \in Outcomes
      /\ driver.pc \in {"publish", "reject"} => driver.hand \in Entries({"pending"})
      /\ None \notin Wants
  BY <1>i, WorkloadAssumption DEF RTypes, Drivers
<1>1. closer' = closer /\ \A j \in Slots : CloserKey(j)' = CloserKey(j)
  <2>1. closer' = closer
    BY Zenon DEF DriverStep, CheckShutdown, Flush, Activate, Publish, Reject, LookForTimers, CollectDue,
       StoreOutcome, ScheduleSlot, LookForWaiters, Choose, Sleep, Poll, Resolve, Drain
  <2>. QED
    BY <2>1 DEF CloserKey
<1>2. /\ e \in Holders /\ Key[e] = EntryKey(i) /\ After(e) = EntryKey(i)'
      /\ d \in Holders /\ Key[d] = DriverKey(i) /\ After(d) = DriverKey(i)' /\ e # d
  BY <1>0, KeyIs, AfterIs, Zenon
<1>3. Key = [x \in Holders |-> Key[x]]
  BY DEF Key
<1>4. ASSUME OneHolder(Key', poller', pending_deregister', fault'.leaked),
             fault.leaked \subseteq fault'.leaked, task' = task
      PROVE  KeysHeld'
  BY <1>1, <1>4, HeldAfter, Zenon DEF KeysHeld, Keys
<1>5. ASSUME driver'.pc # "publish" PROVE \A j \in Slots : DriverKey(j)' = None
  BY <1>5 DEF DriverKey, At
<1>6. ASSUME driver.pc # "publish" PROVE \A j \in Slots : DriverKey(j) = None
  BY <1>6 DEF DriverKey, At
<1>7. ASSUME driver.pc # "publish", driver'.pc # "publish", UNCHANGED <<poller, pending_deregister, task, fault>>,
             \A j \in Slots : EntryKey(j)' = EntryKey(j)
      PROVE  KeysHeld'
  <2>1. Key' = Key
    BY <1>1, <1>5, <1>6, <1>7, KeysSame DEF SameBut
  <2>. QED
    BY <1>4, <1>7, <2>1 DEF KeysHeld
<1>. HIDE DEF e, d
<1>8. ASSUME CheckShutdown \/ LookForTimers \/ LookForWaiters \/ Choose \/ Sleep \/ Poll \/ Drain \/ StoreOutcome
      PROVE  KeysHeld'
  <2>1. /\ driver.pc # "publish" /\ UNCHANGED <<poller, pending_deregister, task, fault, waits>>
    BY <1>8, Zenon DEF CheckShutdown, LookForTimers, LookForWaiters, Choose, Sleep, Poll, Drain,
       StoreOutcome, At
  <2>2. driver'.pc # "publish"
    <3>1. CASE CheckShutdown \/ StoreOutcome \/ Drain
      BY <1>0, <3>1, Zenon DEF CheckShutdown, Move, Drivers, StoreOutcome, Drain
    <3>2. CASE LookForTimers \/ LookForWaiters \/ Sleep
      BY <1>0, <3>2, Zenon DEF LookForTimers, LookForWaiters, Sleep, Drivers
    <3>3. CASE Choose \/ Poll
      BY <1>0, <3>3, Zenon DEF Choose, Poll, Drivers
    <3>. QED
      BY <1>8, <3>1, <3>2, <3>3
  <2>. QED
    BY <1>7, <2>1, <2>2 DEF EntryKey, Kind
<1>9. ASSUME Flush PROVE KeysHeld'
  <2>1. driver.pc # "publish" /\ waits' = waits /\ task' = task /\ fault' = fault
    BY <1>9 DEF Flush, At
  <2>2. CASE driver' = driver
    <3>1. PICK k \in pending_deregister :
            pending_deregister' = pending_deregister \ {k} /\ poller' = poller \ {k}
      BY <1>0, <1>9, <2>1, <2>2, Zenon DEF Flush, Move, At, Drivers
    <3>2. Key' = Key
      BY <1>1, <2>1, <2>2, KeysSame DEF SameBut, DriverKey, At, EntryKey, Kind
    <3>. QED
      BY <1>4, <2>1, <3>1, <3>2, Flushes DEF KeysHeld
  <2>3. CASE Move("activate") /\ UNCHANGED <<pending_deregister, poller>>
    BY <1>0, <1>7, <2>1, <2>3 DEF Move, Drivers, EntryKey, Kind
  <2>. QED
    BY <1>9, <2>2, <2>3, Zenon DEF Flush
<1>10. ASSUME Activate PROVE KeysHeld'
  <2>1. driver.pc # "publish" /\ waits' = waits /\ UNCHANGED <<pending_deregister, task, fault>>
    BY <1>10 DEF Activate, At
  <2>2. CASE Kind(MyWait) # "pending"
    <3>1. driver'.pc # "publish" /\ poller' = poller
      BY <1>0, <1>10, <2>2, PastIdle, Zenon DEF Activate, DriverLabels, Busy
    <3>. QED
      BY <1>7, <2>1, <3>1 DEF EntryKey, Kind
  <2>3. CASE Kind(MyWait) = "pending" /\ MyWait.what \in poller
    <3>1. driver'.pc = "reject" /\ poller' = poller
      <4>1. driver' = [driver EXCEPT !.hand = MyWait, !.pc = "reject"]
        BY <1>10, <2>3 DEF Activate
      <4>. QED
        BY <1>0, <1>10, <2>3, <4>1 DEF Activate, Drivers
    <3>. QED
      BY <1>7, <2>1, <3>1 DEF EntryKey, Kind
  <2>4. CASE Kind(MyWait) = "pending" /\ MyWait.what \notin poller
    <3>1. /\ driver'.pc = "publish" /\ driver'.hand = MyWait /\ poller' = poller \cup {MyWait.what}
          /\ driver'.i = i
      BY <1>0, <1>10, <2>4, Zenon DEF Activate, Drivers
    <3>2. MyWait.what # None
      BY <1>0, <2>4 DEF Kind, MyWait, Maybe, Registered, Entries
    <3>3. SameBut({d, d})
      BY <1>1, <1>6, <2>1, <3>1 DEF SameBut, EntryKey, Kind, DriverKey, d, At
    <3>4. Key' = [x \in Holders |-> IF x = d THEN MyWait.what ELSE Key[x]]
      <4>1. Key' = [x \in Holders |-> IF x = d THEN After(d) ELSE IF x = d THEN After(d) ELSE Key[x]]
        BY <1>2, <3>3, KeysChange
      <4>2. After(d) = MyWait.what
        BY <1>2, <3>1 DEF DriverKey, At
      <4>. QED
        BY <4>1, <4>2
    <3>5. Key[d] = None /\ None \notin poller
      BY <1>0, <1>2, <1>6, <2>1
    <3>6. OneHolder(Key', poller', pending_deregister, fault.leaked)
      <4>1. OneHolder(Key, poller, pending_deregister, fault.leaked) /\ d \in Holders
        BY <1>2 DEF KeysHeld
      <4>. QED
        BY <2>4, <3>1, <3>2, <3>4, <3>5, <4>1, Registers
    <3>. QED
      BY <1>4, <2>1, <3>6
  <2>. QED
    BY <2>2, <2>3, <2>4
<1>11. ASSUME Publish PROVE KeysHeld'
  <2>1. /\ driver.pc = "publish" /\ driver'.pc # "publish" /\ UNCHANGED <<pending_deregister, task, poller>>
        /\ fault.leaked \subseteq fault'.leaked
    BY <1>0, <1>11, PastIdle, Zenon DEF Publish, At, DriverLabels, Busy, Faults
  <2>2. Key[d] = driver.hand.what /\ driver.hand.what # None
    BY <1>0, <1>2, <2>1, Zenon DEF DriverKey, At, Entries
  <2>3. SameBut({d, e}) /\ After(d) = None
    <3>1. \A j \in Slots \ {i} : EntryKey(j)' = EntryKey(j)
      BY <1>0, <1>11 DEF Publish, EntryKey, Kind
    <3>2. \A j \in Slots : DriverKey(j)' = None /\ (j # i => DriverKey(j) = None)
      BY <1>0, <1>5, <2>1, Zenon DEF DriverKey
    <3>. QED
      BY <1>1, <1>2, <1>0, <2>1, <3>1, <3>2, Zenon DEF SameBut, d, e
  <2>4. Key' = [x \in Holders |-> IF x = e THEN After(e) ELSE IF x = d THEN None ELSE Key[x]]
    <3>1. Key' = [x \in Holders |-> IF x = e THEN After(e) ELSE IF x = d THEN After(d) ELSE Key[x]]
      BY <1>2, <2>3, KeysChange
    <3>. QED
      BY <2>3, <3>1
  <2>5. CASE StillPending
    <3>1. waits[i] \in Registered /\ waits[i].kind = "pending" /\ waits[i] # None
      BY <1>0, <2>5 DEF StillPending, Kind, MyWait, Maybe
    <3>2. Key[e] = None
      BY <1>2, <3>1 DEF EntryKey, Kind
    <3>3. After(e) = Key[d]
      <4>1. waits'[i] = [waits[i] EXCEPT !.kind = "ready", !.what = driver.hand.what]
        BY <1>0, <1>11, <2>5 DEF Publish
      <4>2. waits'[i] \in Entries(Kinds) /\ waits'[i].kind = "ready" /\ waits'[i].what = driver.hand.what
        BY <1>0, <2>1, <3>1, <4>1, Zenon DEF Registered, Entries, Kinds
      <4>. QED
        BY <1>2, <2>2, <4>2, WorkloadAssumption DEF EntryKey, Kind
    <3>4. Key' = [x \in Holders |-> IF x = e THEN Key[d] ELSE IF x = d THEN None ELSE Key[x]]
      BY <2>4, <3>3
    <3>5. OneHolder(Key', poller, pending_deregister, fault.leaked)
      BY <1>2, <3>2, <3>4, Handed, Zenon DEF KeysHeld
    <3>6. fault'.leaked = fault.leaked
      BY <1>0, <1>11, <2>5 DEF Publish, Faults
    <3>. QED
      BY <1>4, <2>1, <3>5, <3>6
  <2>6. CASE ~StillPending
    <3>1. waits' = waits /\ fault'.leaked = fault.leaked \cup {driver.hand.what}
      BY <1>0, <1>11, <2>6 DEF Publish, Faults
    <3>2. After(e) = Key[e]
      BY <1>2, <3>1, Zenon DEF EntryKey, Kind
    <3>3. Key' = [x \in Holders |-> IF x = d THEN None ELSE Key[x]]
      BY <1>2, <2>4, <3>2
    <3>4. OneHolder(Key', poller, pending_deregister, fault'.leaked)
      <4>1. OneHolder(Key, poller, pending_deregister, fault.leaked) /\ d \in Holders
        BY <1>2 DEF KeysHeld
      <4>2. fault'.leaked \cup {None} = fault.leaked \cup {Key[d], None}
        BY <2>2, <3>1
      <4>. QED
        BY <3>3, <4>1, <4>2, Leaked
    <3>. QED
      BY <1>4, <2>1, <3>4
  <2>. QED
    BY <2>5, <2>6
<1>12. ASSUME Reject \/ CollectDue PROVE KeysHeld'
  <2>1. /\ driver.pc # "publish" /\ UNCHANGED <<pending_deregister, task, poller, fault>>
    BY <1>12 DEF Reject, CollectDue, At
  <2>2. driver'.pc # "publish"
    <3>1. CASE driver'.pc = "store"
      BY <3>1
    <3>2. CASE driver'.pc # "store"
      <4>1. Past("collect", driver.then)
        BY <1>0, <1>12, <3>2, Zenon DEF Reject, CollectDue, Drivers
      <4>. QED
        BY <1>0, <4>1, PastIdle, Zenon DEF DriverLabels, Busy
    <3>. QED
      BY <3>1, <3>2
  <2>3. ASSUME NEW j \in Slots PROVE EntryKey(j)' = EntryKey(j)
    <3>1. waits'[j] = waits[j] \/ (waits'[j] = None /\ Kind(waits[j]) \in {"pending", "sleep"})
      BY <1>0, <1>12 DEF Reject, CollectDue, StillPending, MyWait
    <3>. QED
      BY <3>1 DEF EntryKey, Kind
  <2>. QED
    BY <1>7, <2>1, <2>2, <2>3
<1>13. ASSUME ScheduleSlot PROVE KeysHeld'
  <2>. DEFINE wanted == MyTask.live /\ MyTask.gen = driver.hand.gen /\ ~MyTask.scheduled
  <2>0. driver.pc = "schedule" /\ closer' = closer /\ poller' = poller
    BY <1>13 DEF ScheduleSlot, At
  <2>1. driver'.pc # "publish"
    <3>1. driver.hand.kind \in {"ready", "sleep", "error"}
      BY <1>0, <2>0 DEF Outcomes, Entries
    <3>2. \/ Move("exit") \/ Move("resolve") \/ Past("activate", "due") \/ Past("collect", driver.then)
      BY <1>13, <3>1, Zenon DEF ScheduleSlot
    <3>. QED
      BY <1>0, <3>2, PastIdle, Zenon DEF DriverLabels, Busy
  <2>2. CASE Settled(i) /\ task[i].pc = "idle"
    BY <1>0, <1>5, <1>6, <2>0, <2>1, <2>2, SettledKeys
  <2>3. CASE task' = [task EXCEPT ![i].scheduled = @ \/ wanted] /\ UNCHANGED <<reactor, signalled, fault>>
    <3>1. \A j \in Slots : task'[j].key = task[j].key /\ task'[j].pc = task[j].pc
      BY <1>0, <2>3 DEF Tasks
    <3>2. Key' = Key
      BY <1>1, <1>5, <1>6, <2>0, <2>1, <2>3, <3>1, KeysSame DEF SameBut, EntryKey, Kind
    <3>. QED
      BY <1>1, <2>0, <2>3, <3>1, <3>2, HeldAfter DEF Keys, KeysHeld
  <2>4. \/ Settled(i) /\ task[i].pc = "idle"
        \/ task' = [task EXCEPT ![i].scheduled = @ \/ wanted] /\ UNCHANGED <<reactor, signalled, fault>>
    <3>1. PICK refused \in IF wanted /\ MyTask.pc = "idle" THEN Refusals ELSE {FALSE} :
            IF refused THEN Settled(driver.i)
            ELSE /\ task' = [task EXCEPT ![driver.i].scheduled = @ \/ wanted]
                 /\ UNCHANGED <<reactor, signalled, fault>>
      BY <1>13, Zenon DEF ScheduleSlot
    <3>. QED
      BY <1>0, <3>1, Zenon DEF MyTask
  <2>. QED
    BY <2>2, <2>3, <2>4
<1>14. ASSUME Resolve PROVE KeysHeld'
  <2>0. UNCHANGED <<task, pending_deregister, fault>> /\ driver.pc = "resolve"
    BY <1>14 DEF Resolve, At
  <2>1. CASE ResolveNone
    <3>1. driver'.pc = driver.pc /\ waits' = waits /\ poller' = poller
      BY <1>0, <2>1 DEF ResolveNone, Drivers
    <3>. QED
      BY <1>7, <2>0, <3>1 DEF EntryKey, Kind
  <2>2. ASSUME NEW m \in Slots, ResolveEntry(m) PROVE KeysHeld'
    <3>. DEFINE k == waits[m].what
                h == <<"entry", m>>
    <3>1. /\ waits' = [waits EXCEPT ![m] = None] /\ Kind(waits[m]) = "ready"
          /\ driver'.pc = "store" /\ poller' = poller \ {k}
      BY <1>0, <2>2 DEF ResolveEntry, Drivers
    <3>2. h \in Holders /\ Key[h] = k /\ After(h) = None
      BY <1>0, <3>1, KeyIs, AfterIs, Zenon DEF EntryKey, Kind
    <3>3. k # None
      BY <1>0, <3>1 DEF Kind, Maybe, Registered, Entries
    <3>4. SameBut({h, h})
      BY <1>0, <1>1, <1>5, <1>6, <2>0, <3>1 DEF SameBut, EntryKey, Kind
    <3>. HIDE DEF h, k
    <3>5. Key' = [x \in Holders |-> IF x = h THEN None ELSE Key[x]]
      <4>1. Key' = [x \in Holders |-> IF x = h THEN After(h) ELSE IF x = h THEN After(h) ELSE Key[x]]
        BY <3>2, <3>4, KeysChange
      <4>. QED
        BY <3>2, <4>1
    <3>6. OneHolder(Key', poller', pending_deregister, fault.leaked)
      BY <3>1, <3>2, <3>3, <3>5, Deregisters, Zenon DEF KeysHeld
    <3>. QED
      BY <1>4, <2>0, <3>6
  <2>. QED
    BY <1>14, <2>1, <2>2, ResolveCases
<1>. QED
  BY <1>8, <1>9, <1>10, <1>11, <1>12, <1>13, <1>14 DEF DriverStep

\* Every step of the thread in shutdown keeps one holder for each key.
LEMMA CloserKeys ==
  ASSUME RTypes, KeysHeld, CloserStep, Slots' = Slots
  PROVE  KeysHeld'
<1>. USE DEF reactor
<1>i. PICK i \in Slots : i = closer.i
  BY DEF RTypes, Closers
<1>. DEFINE e == <<"entry", i>>
            c == <<"closer", i>>
<1>0. /\ task \in [Slots -> Tasks] /\ waits \in [Slots -> Maybe(Registered)] /\ fault \in Faults
      /\ closer \in Closers /\ closer.i = i
  BY <1>i, Zenon DEF RTypes
<1>1. driver' = driver /\ poller' = poller /\ \A j \in Slots : DriverKey(j)' = DriverKey(j)
  <2>1. driver' = driver /\ poller' = poller
    BY DEF CloserStep, CloseEntry, CloseKey, CloseTask, JoinDriver
  <2>. QED
    BY <2>1 DEF DriverKey, At
<1>2. /\ e \in Holders /\ Key[e] = EntryKey(i) /\ After(e) = EntryKey(i)'
      /\ c \in Holders /\ Key[c] = CloserKey(i) /\ After(c) = CloserKey(i)' /\ e # c
  BY KeyIs, AfterIs, Zenon
<1>3. Key = [x \in Holders |-> Key[x]]
  BY DEF Key
<1>. HIDE DEF e, c
<1>4. ASSUME CloseEntry PROVE KeysHeld'
  <2>1. /\ waits' = [waits EXCEPT ![i] = IF Mine(i, task[i].gen) THEN None ELSE @]
        /\ closer'.pc = "clear" /\ closer'.key = KeyOf(i, task[i].gen) /\ closer'.i = i
        /\ closer.pc = "up" /\ UNCHANGED <<pending_deregister, task, fault>>
    BY <1>0, <1>4 DEF CloseEntry, Closers
  <2>2. SameBut({e, c}) /\ After(c) = KeyOf(i, task[i].gen) /\ Key[c] = None
    BY <1>1, <1>2, <2>1, ClearedKey, Zenon DEF SameBut, CloserKey, e, c
  <2>3. Key' = [x \in Holders |-> IF x = c THEN After(c) ELSE IF x = e THEN After(e) ELSE Key[x]]
    BY <1>2, <2>2, KeysChange
  <2>4. OneHolder(Key', poller, pending_deregister, fault.leaked)
    <3>1. CASE EntryKey(i)' = None /\ KeyOf(i, task[i].gen) = EntryKey(i)
      <4>1. Key' = [x \in Holders |-> IF x = c THEN Key[e] ELSE IF x = e THEN None ELSE Key[x]]
        BY <1>2, <2>2, <2>3, <3>1
      <4>. QED
        BY <1>2, <2>2, <4>1, Handed, Zenon DEF KeysHeld
    <3>2. CASE EntryKey(i)' = EntryKey(i) /\ KeyOf(i, task[i].gen) = None
      <4>1. Key' = Key
        BY <1>2, <1>3, <2>2, <2>3, <3>2
      <4>. QED
        BY <4>1 DEF KeysHeld
    <3>. QED
      BY <2>1, <3>1, <3>2, ClearedKey, Zenon
  <2>. QED
    BY <1>1, <2>1, <2>4, HeldAfter DEF KeysHeld, Keys
<1>5. ASSUME CloseKey PROVE KeysHeld'
  <2>1. /\ closer.pc = "clear" /\ closer'.pc = "fail" /\ closer'.i = i /\ UNCHANGED <<waits, task>>
        /\ Defer({closer.key} \ {None}) /\ closer'.key = (IF Room THEN None ELSE closer.key)
    BY <1>0, <1>5 DEF CloseKey, Closers
  <2>2. Key[c] = closer.key /\ After(c) = None /\ SameBut({c, c})
    BY <1>0, <1>1, <1>2, <2>1, Zenon DEF SameBut, CloserKey, c, EntryKey, Kind
  <2>3. Key' = [x \in Holders |-> IF x = c THEN None ELSE Key[x]]
    <3>1. Key' = [x \in Holders |-> IF x = c THEN After(c) ELSE IF x = c THEN After(c) ELSE Key[x]]
      BY <1>2, <2>2, KeysChange
    <3>. QED
      BY <2>2, <3>1
  <2>4. OneHolder(Key', poller, pending_deregister', fault'.leaked)
    BY <1>0, <1>2, <2>1, <2>2, <2>3, Defers, Zenon DEF KeysHeld
  <2>5. closer'.key # None => closer'.key \in fault'.leaked
    BY <1>0, <2>1 DEF Defer, Faults
  <2>. QED
    BY <1>1, <2>1, <2>4, <2>5, HeldAfter, Zenon DEF KeysHeld, Keys
<1>6. ASSUME CloseTask \/ JoinDriver PROVE KeysHeld'
  <2>1. /\ closer.pc # "clear" /\ closer'.pc # "clear" /\ closer'.key = closer.key
        /\ UNCHANGED <<waits, pending_deregister, fault>>
        /\ \A j \in Slots : task'[j].key = task[j].key /\ task'[j].pc = task[j].pc
    <3>1. CASE CloseTask
      BY <1>0, <3>1 DEF CloseTask, Closers, Tasks
    <3>2. CASE JoinDriver
      BY <1>0, <3>2 DEF JoinDriver, Closers
    <3>. QED
      BY <1>6, <3>1, <3>2, Zenon
  <2>2. Key' = Key
    BY <1>1, <2>1, KeysSame DEF SameBut, CloserKey, EntryKey, Kind
  <2>. QED
    BY <1>1, <2>1, <2>2, HeldAfter DEF KeysHeld, Keys
<1>. QED
  BY <1>4, <1>5, <1>6 DEF CloserStep

\* Each key of the poller has one holder at first, and after every step.
KeysInv == ReactorTypes /\ KeysHeld

LEMMA InitKeys ==
  RInit => KeysInv
<1>. SUFFICES ASSUME RInit PROVE KeysInv
  OBVIOUS
<1>1. ReactorTypes
  BY InitTypes
<1>2. /\ \A i \in Slots : waits[i] = None /\ task[i].key = None
      /\ closer.pc = "up" /\ closer.key = None /\ driver.pc = "off"
      /\ poller = {} /\ pending_deregister = {} /\ fault.leaked = {}
  BY Zenon DEF RInit, RInit, NewTask, NoFault
<1>3. \A h \in Holders : Key[h] = None
  BY <1>2 DEF Holders, Key, EntryKey, Kind, CloserKey, DriverKey, At
<1>. QED
  BY <1>1, <1>2, <1>3 DEF KeysInv, KeysHeld, OneHolder

LEMMA KeysStep ==
  ASSUME KeysInv, Least, [RNext]_reactor_vars PROVE KeysInv'
<1>1. ReactorTypes' /\ Slots' = Slots
  BY TypesKept, BoundFixed DEF KeysInv, reactor_vars, outside, Slots, SlotCount
<1>2. CASE UNCHANGED reactor_vars \/ (\E s : Turn(s)) \/ Tick
  <2>1. UNCHANGED <<waits, pending_deregister, poller, driver, task, closer, fault>>
    BY <1>2, Zenon DEF Turn, Tick, reactor_vars, reactor
  <2>2. Key' = Key
    BY <1>1, <2>1, KeysSame DEF SameBut, EntryKey, Kind, CloserKey, DriverKey, At
  <2>. QED
    BY <1>1, <2>1, <2>2, HeldAfter DEF KeysInv, KeysHeld, Keys
<1>. QED
  BY <1>1, <1>2, TaskKeys, DriverKeys, CloserKeys DEF RNext, KeysInv, ReactorTypes

LEMMA KeysFollow ==
  KeysInv => KeysNamed
<1>. SUFFICES ASSUME KeysInv PROVE KeysNamed
  OBVIOUS
<1>1. ASSUME NEW k \in poller \ fault.leaked, k \notin pending_deregister
      PROVE  \/ \E i \in Slots : Kind(waits[i]) = "ready" /\ waits[i].what = k
             \/ At("publish") /\ driver.hand.what = k
             \/ closer.key = k \/ \E i \in Slots : task[i].key = k
  <2>1. PICK h \in Holders : Key[h] = k
    BY <1>1 DEF KeysInv, KeysHeld, OneHolder
  <2>2. PICK c \in {"entry", "task", "closer", "driver"}, i \in Slots : h = <<c, i>>
    BY DEF Holders
  <2>3. k # None
    BY WorkloadAssumption DEF KeysInv, ReactorTypes, RTypes
  <2>4. k \in {EntryKey(i), task[i].key, CloserKey(i), DriverKey(i)}
    BY <2>1, <2>2, KeyIs, Zenon
  <2>. QED
    BY <2>3, <2>4 DEF EntryKey, CloserKey, DriverKey
<1>2. ASSUME NEW i \in Slots, Kind(waits[i]) = "ready" PROVE waits[i].what \in poller
  <2>1. waits[i].what # None
    BY <1>2, WorkloadAssumption DEF KeysInv, ReactorTypes, RTypes, Maybe, Kind, Registered, Entries
  <2>2. Key[<<"entry", i>>] = waits[i].what
    BY <1>2, KeyIs, Zenon DEF EntryKey
  <2>. QED
    BY <2>1, <2>2, KeyIs, Zenon DEF KeysInv, KeysHeld, OneHolder
<1>. QED
  BY <1>1, <1>2 DEF KeysNamed
====
