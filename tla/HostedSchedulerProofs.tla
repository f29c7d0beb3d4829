------------------------ MODULE HostedSchedulerProofs -----------------------
(***************************************************************************)
(* Dispatch and shutdown of the hosted executor, for any number of         *)
(* workers and dispatches and any queue capacity.  The counts are          *)
(* cardinalities: each action adds one element to a set, takes one away,   *)
(* or empties a row of the queues.                                         *)
(***************************************************************************)
EXTENDS HostedScheduler, FiniteSetTheorems, TLAPS

\* Every leaf is tried with the SMT solver, then with Zenon, then with Z3 for longer.
USE SMTT(20), ZenonT(20), Z3T(40)

DispatchLabels == {"begin", "count", "recheck", "undo", "overflow", "enqueue",
                   "push", "signal", "done", "failed", "lost"}
WorkerLabels == {"acquire", "dequeue", "check", "run", "finish", "exit"}
ShutdownLabels == {"idle", "flag", "clear", "wake", "wait", "down"}

\* The types; a queue never holds more than its capacity, and request_shutdown
\* never runs past the last worker.
SchedulerTypes ==
  /\ worker_count \in Nat \ {0}
  /\ external_inflight \in Int /\ dropped \in Nat
  /\ ready \in [Workers -> Seq(Dispatchers)]
  /\ \A w \in Workers : Len(ready[w]) <= Capacity
  /\ signal \in [Workers -> Nat]
  /\ \A w \in Workers : signal[w] <= SignalMax
  /\ wpc \in [Workers -> WorkerLabels]
  /\ dpc \in [Dispatchers -> DispatchLabels]
  /\ at \in [Dispatchers -> Workers]
  /\ tried \in [Dispatchers -> Nat]
  /\ spc \in ShutdownLabels /\ next \in 0..worker_count
  /\ spc = "wake" => next < worker_count

\* Only finitely many dispatches are under way or lost and jobs queued at a time.
FinitelyMany ==
  /\ IsFiniteSet(Counted) /\ IsFiniteSet(Places) /\ IsFiniteSet(Lost)
  /\ \A w \in Workers : IsFiniteSet(Signalling(w))

\* Once ExecutorCore::shutdown is past its flag, the flag stays set.
FlagSet == spc # "idle" => shutdown_requested

\* Teardown of the slots finds no job: when wait_external_idle has returned and
\* no signal has overflowed, no worker runs a job, none is queued, and no
\* dispatch can still queue one.
DrainedAtTeardown ==
  spc = "down" /\ ~Overflowed =>
    /\ Running = {} /\ Places = {}
    /\ \A d \in Dispatchers : dpc[d] \notin {"enqueue", "push"}

\* The inductive invariant.
SchedulerInv ==
  /\ SchedulerTypes /\ FinitelyMany /\ FlagSet
  /\ InflightExact /\ SignalsCover /\ DrainedAtTeardown
-----------------------------------------------------------------------------
\* A new executor has every type, and nothing is queued, counted or running.
LEMMA InitScheduler == Init => SchedulerInv
<1>. SUFFICES ASSUME Init PROVE SchedulerInv
  OBVIOUS
<1>. USE SchedulerAssumption DEF Init, Workers
<1>1. SchedulerTypes
  <2>1. worker_count \in Nat \ {0} /\ 0 \in Workers /\ SignalMax \in Nat
    BY DEF SignalMax
  <2>2. <<>> \in Seq(Dispatchers) /\ Len(<<>>) = 0
    OBVIOUS
  <2>3. ready \in [Workers -> Seq(Dispatchers)] /\ \A w \in Workers : Len(ready[w]) <= Capacity
    BY <2>2
  <2>4. signal \in [Workers -> Nat] /\ \A w \in Workers : signal[w] <= SignalMax
    BY <2>1
  <2>5. wpc \in [Workers -> WorkerLabels] /\ dpc \in [Dispatchers -> DispatchLabels]
    BY DEF DispatchLabels, WorkerLabels
  <2>6. at \in [Dispatchers -> Workers] /\ tried \in [Dispatchers -> Nat]
    BY <2>1
  <2>7. /\ external_inflight \in Int /\ dropped \in Nat
        /\ spc = "idle" /\ spc \in ShutdownLabels /\ next \in 0..worker_count
    BY <2>1 DEF ShutdownLabels
  <2>. HIDE DEF Init, Workers
  <2>. QED
    BY <2>1, <2>3, <2>4, <2>5, <2>6, <2>7 DEF SchedulerTypes
<1>2. Counted = {} /\ Running = {} /\ Lost = {} /\ \A w \in Workers : Signalling(w) = {}
  BY DEF Counted, Running, Lost, Signalling
<1>3. Places = {}
  BY DEF Places
<1>4. IsFiniteSet({}) /\ Cardinality({}) = 0
  BY FS_EmptySet
<1>5. FinitelyMany
  BY <1>2, <1>3, <1>4, Zenon DEF FinitelyMany
<1>6. InflightExact
  BY <1>2, <1>3, <1>4 DEF InflightExact
<1>7. SignalsCover
  <2>1. ASSUME NEW w \in Workers
        PROVE  Len(ready[w]) = 0 /\ signal[w] = 0 /\ wpc[w] # "dequeue"
               /\ Cardinality(Signalling(w)) = 0
    BY <1>2, <1>4, Zenon
  <2>. QED
    BY <2>1 DEF SignalsCover
<1>. QED
  BY <1>1, <1>5, <1>6, <1>7 DEF SchedulerInv, FlagSet, DrainedAtTeardown

\* A set that gains an element counts one more, ...
LEMMA Gain ==
  ASSUME NEW S, NEW T, NEW x, IsFiniteSet(S), x \notin S, T = S \cup {x}
  PROVE  IsFiniteSet(T) /\ Cardinality(S) \in Nat /\ Cardinality(T) = Cardinality(S) + 1
  BY FS_AddElement, FS_CardinalityType

\* ... and a set that loses one counts one less.
LEMMA Loss ==
  ASSUME NEW S, NEW T, NEW x, IsFiniteSet(S), x \in S, T = S \ {x}
  PROVE  IsFiniteSet(T) /\ Cardinality(S) \in Nat /\ Cardinality(T) = Cardinality(S) - 1
  BY FS_RemoveElement, FS_CardinalityType
One(b) == IF b THEN 1 ELSE 0

\* Two sets that differ at most in one element count alike but for it.
LEMMA Moves ==
  ASSUME NEW F, NEW G, NEW x, IsFiniteSet(F), G \ {x} = F \ {x}
  PROVE  /\ IsFiniteSet(G) /\ Cardinality(F) \in Nat /\ Cardinality(G) \in Nat
         /\ Cardinality(G) = Cardinality(F) + One(x \in G) - One(x \in F)
<1>1. CASE x \in G /\ x \notin F
  <2>1. G = F \cup {x}
    BY <1>1
  <2>. QED
    BY <1>1, <2>1, Gain, FS_CardinalityType DEF One
<1>2. CASE x \notin G /\ x \in F
  <2>1. G = F \ {x}
    BY <1>2
  <2>2. IsFiniteSet(G) /\ Cardinality(G) = Cardinality(F) - 1
    BY <1>2, <2>1, Loss
  <2>. QED
    BY <1>2, <2>2, FS_CardinalityType DEF One
<1>3. CASE (x \in G) <=> (x \in F)
  <2>1. G = F
    BY <1>3
  <2>2. One(x \in G) = One(x \in F) /\ One(x \in F) \in Int
    BY <1>3 DEF One
  <2>. QED
    BY <2>1, <2>2, FS_CardinalityType
<1>. QED
  BY <1>1, <1>2, <1>3

\* A row of n places counts n.
LEMMA Row == ASSUME NEW n \in Nat PROVE IsFiniteSet(1..n) /\ Cardinality(1..n) = n
  BY FS_Interval

\* A push occupies one place more, ...
LEMMA PushPlaces ==
  ASSUME SchedulerTypes, IsFiniteSet(Places), Workers' = Workers,
         NEW w \in Workers, NEW d \in Dispatchers,
         ready' = [ready EXCEPT ![w] = Append(@, d)]
  PROVE  IsFiniteSet(Places') /\ Cardinality(Places') = Cardinality(Places) + 1
<1>1. /\ ready \in [Workers -> Seq(Dispatchers)] /\ Len(ready[w]) \in Nat
      /\ \A v \in Workers : Len(ready[v]) \in Nat
  BY DEF SchedulerTypes
<1>2. \A v \in Workers : Len(ready'[v]) = IF v = w THEN Len(ready[w]) + 1 ELSE Len(ready[v])
  BY <1>1
<1>3. 1..(Len(ready[w]) + 1) = (1..Len(ready[w])) \cup {Len(ready[w]) + 1}
  BY <1>1
<1>4. <<w, Len(ready[w]) + 1>> \notin Places
  BY <1>1 DEF Places
<1>5. \A v \in Workers \ {w} : {v} \X (1..Len(ready'[v])) = {v} \X (1..Len(ready[v]))
  BY <1>2
<1>6. {w} \X (1..Len(ready'[w])) = ({w} \X (1..Len(ready[w]))) \cup {<<w, Len(ready[w]) + 1>>}
  BY <1>2, <1>3
<1>7. Places' = Places \cup {<<w, Len(ready[w]) + 1>>}
  BY <1>5, <1>6 DEF Places
<1>. QED
  BY <1>4, <1>7, Gain

\* ... a dequeue one less, ...
LEMMA DequeuePlaces ==
  ASSUME SchedulerTypes, IsFiniteSet(Places), Workers' = Workers,
         NEW w \in Workers, ready[w] # <<>>,
         ready' = [ready EXCEPT ![w] = Tail(@)]
  PROVE  IsFiniteSet(Places') /\ Cardinality(Places') = Cardinality(Places) - 1
<1>1. /\ ready \in [Workers -> Seq(Dispatchers)] /\ Len(ready[w]) \in Nat \ {0}
      /\ \A v \in Workers : Len(ready[v]) \in Nat
  BY DEF SchedulerTypes
<1>2. \A v \in Workers : Len(ready'[v]) = IF v = w THEN Len(ready[w]) - 1 ELSE Len(ready[v])
  BY <1>1
<1>3. 1..(Len(ready[w]) - 1) = (1..Len(ready[w])) \ {Len(ready[w])}
  BY <1>1
<1>4. <<w, Len(ready[w])>> \in Places
  BY <1>1 DEF Places
<1>5. \A v \in Workers \ {w} : {v} \X (1..Len(ready'[v])) = {v} \X (1..Len(ready[v]))
  BY <1>2
<1>6. {w} \X (1..Len(ready'[w])) = ({w} \X (1..Len(ready[w]))) \ {<<w, Len(ready[w])>>}
  BY <1>2, <1>3
<1>7. Places' = Places \ {<<w, Len(ready[w])>>}
  BY <1>5, <1>6 DEF Places
<1>. QED
  BY <1>4, <1>7, Loss

\* ... and clearing a queue as many less as it held.
LEMMA ClearPlaces ==
  ASSUME SchedulerTypes, IsFiniteSet(Places), Workers' = Workers,
         NEW w \in Workers, ready' = [ready EXCEPT ![w] = <<>>]
  PROVE  /\ IsFiniteSet(Places')
         /\ Cardinality(Places') = Cardinality(Places) - Len(ready[w])
<1>. DEFINE row == {w} \X (1..Len(ready[w]))
<1>1. /\ ready \in [Workers -> Seq(Dispatchers)] /\ Len(ready[w]) \in Nat
      /\ \A v \in Workers : Len(ready[v]) \in Nat
  BY DEF SchedulerTypes
<1>2. \A v \in Workers : Len(ready'[v]) = IF v = w THEN 0 ELSE Len(ready[v])
  BY <1>1
<1>3. \A v \in Workers \ {w} : {v} \X (1..Len(ready'[v])) = {v} \X (1..Len(ready[v]))
  BY <1>2
<1>4. {w} \X (1..Len(ready'[w])) = {}
  BY <1>2
<1>5. Places' = Places \ row
  BY <1>3, <1>4 DEF Places
<1>6. row \subseteq Places
  BY DEF Places
<1>7. IsFiniteSet(row) /\ Cardinality(row) = Len(ready[w])
  <2>1. IsFiniteSet(1..Len(ready[w])) /\ Cardinality(1..Len(ready[w])) = Len(ready[w])
    BY <1>1, Row
  <2>2. IsFiniteSet({w}) /\ Cardinality({w}) = 1
    BY FS_Singleton, Zenon
  <2>3. IsFiniteSet(row) /\ Cardinality(row) = Cardinality({w}) * Cardinality(1..Len(ready[w]))
    BY <2>1, <2>2, FS_Product, Zenon
  <2>. HIDE DEF row
  <2>. QED
    BY <1>1, <2>1, <2>2, <2>3
<1>. HIDE DEF row
<1>8. IsFiniteSet(Places \ row)
  BY FS_Difference, Zenon
<1>9. Cardinality(Places \ row) = Cardinality(Places) - Cardinality(Places \cap row)
  BY FS_Difference, ZenonT(30)
<1>10. Places \cap row = row
  BY <1>6
<1>. QED
  BY <1>5, <1>7, <1>8, <1>9, <1>10, Zenon

Held == {"recheck", "undo", "enqueue", "push"}

\* A dispatch that goes on to another label, as the count sees it.
LEMMA Dispatches ==
  ASSUME SchedulerTypes, IsFiniteSet(Counted), NEW d \in Dispatchers,
         NEW l \in DispatchLabels, Goto(d, l)
  PROVE  /\ IsFiniteSet(Counted') /\ Cardinality(Counted) \in Nat
         /\ Cardinality(Counted') = Cardinality(Counted) + One(l \in Held) - One(dpc[d] \in Held)
<1>1. dpc \in [Dispatchers -> DispatchLabels] /\ dpc' = [dpc EXCEPT ![d] = l]
  BY DEF SchedulerTypes, Goto
<1>2. Counted' \ {d} = Counted \ {d}
  BY <1>1 DEF Counted
<1>3. (d \in Counted <=> dpc[d] \in Held) /\ (d \in Counted' <=> l \in Held)
  BY <1>1 DEF Counted, Held
<1>. QED
  BY <1>2, <1>3, Moves DEF One

\* A worker that goes on to another label, as the count sees it.
LEMMA Works ==
  ASSUME SchedulerTypes, Workers' = Workers, NEW w \in Workers, NEW l \in WorkerLabels,
         wpc' = [wpc EXCEPT ![w] = l]
  PROVE  /\ Cardinality(Running) \in Nat
         /\ Cardinality(Running') = Cardinality(Running) + One(l \in {"run", "finish"})
                                      - One(wpc[w] \in {"run", "finish"})
<1>1. IsFiniteSet(Workers)
  BY FS_Interval DEF Workers, SchedulerTypes
<1>2. IsFiniteSet(Running)
  BY <1>1, FS_Subset DEF Running
<1>3. wpc \in [Workers -> WorkerLabels]
  BY DEF SchedulerTypes
<1>4. Running' \ {w} = Running \ {w}
  BY <1>3 DEF Running
<1>5. /\ w \in Running <=> wpc[w] \in {"run", "finish"}
      /\ w \in Running' <=> l \in {"run", "finish"}
  BY <1>3 DEF Running
<1>. QED
  BY <1>2, <1>4, <1>5, Moves DEF One
-----------------------------------------------------------------------------
\* Every step of dispatch, of a worker and of shutdown keeps the types.
LEMMA TypesStep == SchedulerTypes /\ [Next]_vars => SchedulerTypes'
<1>. SUFFICES ASSUME SchedulerTypes, [Next]_vars PROVE SchedulerTypes'
  OBVIOUS
<1>0. /\ worker_count' = worker_count /\ Workers' = Workers /\ SignalMax' = SignalMax
      /\ SignalMax \in Nat /\ Capacity \in Nat /\ \A w \in Workers : w + 1 \in Nat
      /\ \A w \in Workers, n \in Nat : n < worker_count => n \in Workers
  BY SchedulerAssumption DEF SchedulerTypes, Next, vars, Workers, SignalMax
<1>. USE <1>0 DEF core, queues, work, dispatch, closing
<1>1. CASE UNCHANGED vars
  BY <1>1 DEF vars, SchedulerTypes
<1>2. ASSUME NEW d \in Dispatchers, DispatchStep(d) PROVE SchedulerTypes'
  <2>1. dpc' \in [Dispatchers -> DispatchLabels]
    BY <1>2, Zenon DEF SchedulerTypes, DispatchLabels, Goto, DispatchStep, Begin, Count,
                Recheck, Undo, Enqueue, Push, Signal
  <2>2. /\ at \in [Dispatchers -> Workers] /\ tried \in [Dispatchers -> Nat]
        /\ at[d] \in Workers
    BY DEF SchedulerTypes
  <2>3. CASE Begin(d) \/ Count(d) \/ Recheck(d) \/ Undo(d)
    <3>1. /\ external_inflight' \in Int
          /\ UNCHANGED <<ready, signal, wpc, at, tried, spc, next, dropped>>
      BY <2>3 DEF SchedulerTypes, Begin, Count, Recheck, Undo
    <3>. QED
      BY <2>1, <3>1 DEF SchedulerTypes
  <2>4. CASE Enqueue(d)
    <3>1. at' \in [Dispatchers -> Workers] /\ tried' \in [Dispatchers -> Nat]
      BY <2>2, <2>4 DEF Enqueue
    <3>. QED
      BY <2>1, <2>4, <3>1 DEF SchedulerTypes, Enqueue
  <2>5. CASE Push(d)
    <3>0. (at[d] + 1) % worker_count \in Workers
      <4>1. at[d] \in Nat /\ worker_count \in Nat \ {0}
        BY <2>2 DEF SchedulerTypes, Workers
      <4>. QED
        BY <4>1 DEF Workers
    <3>1. at' \in [Dispatchers -> Workers] /\ tried' \in [Dispatchers -> Nat]
      <4>1. at' \in [Dispatchers -> Workers]
        BY <2>2, <2>5, <3>0 DEF Push
      <4>2. tried' \in [Dispatchers -> Nat]
        BY <2>2, <2>5 DEF Push
      <4>. QED
        BY <4>1, <4>2
    <3>2. /\ ready \in [Workers -> Seq(Dispatchers)]
          /\ \A w \in Workers : Len(ready[w]) <= Capacity
      BY DEF SchedulerTypes
    <3>3. /\ Append(ready[at[d]], d) \in Seq(Dispatchers)
          /\ Len(Append(ready[at[d]], d)) = Len(ready[at[d]]) + 1
          /\ Len(ready[at[d]]) \in Nat
      BY <2>2, <3>2
    <3>4. ready' \in [Workers -> Seq(Dispatchers)]
      BY <2>2, <2>5, <3>2, <3>3, Zenon DEF Push
    <3>5. ASSUME NEW w \in Workers PROVE Len(ready'[w]) <= Capacity
      <4>1. CASE w = at[d]
        BY <2>5, <3>2, <3>3, <4>1 DEF Push
      <4>2. CASE w # at[d]
        BY <2>5, <3>2, <4>2 DEF Push
      <4>. QED
        BY <4>1, <4>2
    <3>. QED
      BY <2>1, <2>5, <3>1, <3>4, <3>5, Zenon DEF SchedulerTypes, Push
  <2>6. CASE Signal(d)
    <3>1. signal \in [Workers -> Nat] /\ \A w \in Workers : signal[w] <= SignalMax
      BY DEF SchedulerTypes
    <3>2. signal' \in [Workers -> Nat] /\ \A w \in Workers : signal'[w] <= SignalMax
      BY <2>2, <2>6, <3>1 DEF Signal
    <3>. QED
      BY <2>1, <2>6, <3>2 DEF SchedulerTypes, Signal
  <2>. QED
    BY <1>2, <2>3, <2>4, <2>5, <2>6 DEF DispatchStep
<1>3. ASSUME NEW w \in Workers, WorkerStep(w) PROVE SchedulerTypes'
  <2>1. wpc' \in [Workers -> WorkerLabels]
    BY <1>3, Zenon DEF SchedulerTypes, WorkerLabels, WorkerStep, Acquire, Dequeue, Check, Run,
                Finish
  <2>2. CASE Acquire(w)
    <3>1. signal \in [Workers -> Nat] /\ \A v \in Workers : signal[v] <= SignalMax
      BY DEF SchedulerTypes
    <3>2. signal' \in [Workers -> Nat] /\ \A v \in Workers : signal'[v] <= SignalMax
      BY <2>2, <3>1 DEF Acquire
    <3>. QED
      BY <2>1, <2>2, <3>2 DEF SchedulerTypes, Acquire
  <2>3. CASE Check(w) \/ Run(w) \/ Finish(w)
    <3>1. /\ external_inflight' \in Int
          /\ UNCHANGED <<ready, signal, dpc, at, tried, spc, next, dropped>>
      BY <2>3 DEF SchedulerTypes, Check, Run, Finish
    <3>. QED
      BY <2>1, <3>1 DEF SchedulerTypes
  <2>4. CASE Dequeue(w)
    <3>1. /\ ready \in [Workers -> Seq(Dispatchers)]
          /\ \A v \in Workers : Len(ready[v]) <= Capacity
      BY DEF SchedulerTypes
    <3>2. ready[w] # <<>> => /\ Tail(ready[w]) \in Seq(Dispatchers)
                             /\ Len(Tail(ready[w])) = Len(ready[w]) - 1
                             /\ Len(ready[w]) \in Nat
      BY <3>1
    <3>3. ready' \in [Workers -> Seq(Dispatchers)]
      BY <2>4, <3>1, <3>2, Zenon DEF Dequeue
    <3>4. ASSUME NEW v \in Workers PROVE Len(ready'[v]) <= Capacity
      <4>1. CASE v = w
        BY <2>4, <3>1, <3>2, <4>1 DEF Dequeue
      <4>2. CASE v # w
        BY <2>4, <3>1, <4>2 DEF Dequeue
      <4>. QED
        BY <4>1, <4>2
    <3>. QED
      BY <2>1, <2>4, <3>3, <3>4 DEF SchedulerTypes, Dequeue
  <2>. QED
    BY <1>3, <2>2, <2>3, <2>4 DEF WorkerStep
<1>4. ASSUME RequestShutdown \/ ShutdownStep PROVE SchedulerTypes'
  <2>1. spc' \in ShutdownLabels
    BY <1>4 DEF SchedulerTypes, ShutdownLabels, RequestShutdown, ShutdownStep,
                StopScheduler, Clear, Wake, DropScheduled, WaitIdle
  <2>2. CASE RequestShutdown \/ StopScheduler \/ DropScheduled \/ WaitIdle
    BY <2>1, <2>2 DEF SchedulerTypes, RequestShutdown, StopScheduler, DropScheduled,
                      WaitIdle
  <2>3. CASE Clear
    <3>1. /\ ready \in [Workers -> Seq(Dispatchers)] /\ next \in Workers
          /\ \A w \in Workers : Len(ready[w]) <= Capacity
      BY <2>3 DEF SchedulerTypes, Clear, Workers
    <3>2. <<>> \in Seq(Dispatchers) /\ Len(<<>>) = 0 /\ Len(ready[next]) \in Nat
      BY <3>1
    <3>3. ready' \in [Workers -> Seq(Dispatchers)]
      BY <2>3, <3>1, <3>2 DEF Clear
    <3>4. \A w \in Workers : Len(ready'[w]) <= Capacity
      BY <2>3, <3>1, <3>2 DEF Clear
    <3>5. /\ dropped' \in Nat /\ next' \in 0..worker_count /\ (spc' = "wake" => next' < worker_count)
      BY <2>3, <3>2 DEF SchedulerTypes, Clear
    <3>6. UNCHANGED <<worker_count, external_inflight, signal, wpc, dpc, at, tried>>
      BY <2>3, <1>0 DEF Clear
    <3>. QED
      BY <2>1, <3>3, <3>4, <3>5, <3>6, Zenon DEF SchedulerTypes, Workers
  <2>4. CASE Wake
    <3>1. /\ signal \in [Workers -> Nat] /\ \A v \in Workers : signal[v] <= SignalMax
          /\ next \in Workers /\ next + 1 \in 0..worker_count
      BY <2>4 DEF SchedulerTypes, Wake, Workers
    <3>2. signal' \in [Workers -> Nat] /\ \A v \in Workers : signal'[v] <= SignalMax
      BY <2>4, <3>1 DEF Wake
    <3>. QED
      BY <2>1, <2>4, <3>1, <3>2, Zenon DEF SchedulerTypes, Wake
  <2>. QED
    BY <1>4, <2>2, <2>3, <2>4 DEF ShutdownStep
<1>. QED
  BY <1>1, <1>2, <1>3, <1>4 DEF Next

\* A signal that has overflowed is not forgotten.
LEMMA OverflowStays == SchedulerTypes /\ [Next]_vars /\ Overflowed => Overflowed'
<1>. SUFFICES ASSUME SchedulerTypes, [Next]_vars,
                     NEW e \in Dispatchers, dpc[e] \in {"overflow", "lost"}
              PROVE  dpc'[e] \in {"overflow", "lost"}
  BY DEF Overflowed
<1>. USE DEF core, queues, work, dispatch, closing
<1>1. dpc \in [Dispatchers -> DispatchLabels]
  BY DEF SchedulerTypes
<1>2. ASSUME NEW d \in Dispatchers, DispatchStep(d) PROVE dpc'[e] \in {"overflow", "lost"}
  BY <1>1, <1>2 DEF DispatchStep, Begin, Count, Recheck, Undo, Enqueue, Push, Signal, Goto
<1>3. ASSUME NEW w \in Workers, WorkerStep(w) PROVE dpc' = dpc
  BY <1>3 DEF WorkerStep, Acquire, Dequeue, Check, Run, Finish
<1>4. ASSUME RequestShutdown \/ ShutdownStep PROVE dpc' = dpc
  BY <1>4 DEF RequestShutdown, ShutdownStep, StopScheduler, Clear, Wake, DropScheduled,
              WaitIdle
<1>. QED
  BY <1>2, <1>3, <1>4 DEF Next, vars

\* Every step moves the in-flight count and what it counts together.
LEMMA InflightStep ==
  SchedulerInv /\ [Next]_vars
    => /\ IsFiniteSet(Counted') /\ IsFiniteSet(Places') /\ IsFiniteSet(Lost')
       /\ InflightExact'
<1>. SUFFICES ASSUME SchedulerInv, [Next]_vars
              PROVE  /\ IsFiniteSet(Counted') /\ IsFiniteSet(Places') /\ IsFiniteSet(Lost')
                     /\ InflightExact'
  OBVIOUS
<1>. DEFINE Good == /\ IsFiniteSet(Counted') /\ IsFiniteSet(Places') /\ IsFiniteSet(Lost')
                    /\ InflightExact'
<1>. USE DEF core, queues, work, dispatch, closing
<1>1. /\ SchedulerTypes /\ Workers' = Workers
      /\ IsFiniteSet(Counted) /\ IsFiniteSet(Places) /\ IsFiniteSet(Lost)
  BY DEF SchedulerInv, FinitelyMany, Next, vars, Workers
<1>2. external_inflight = Cardinality(Counted) + Cardinality(Places)
                            + Cardinality(Running) + dropped - Cardinality(Lost)
  BY DEF SchedulerInv, InflightExact
<1>3. /\ external_inflight \in Int /\ dropped \in Nat
      /\ Cardinality(Counted) \in Nat /\ Cardinality(Places) \in Nat
      /\ Cardinality(Running) \in Nat /\ Cardinality(Lost) \in Nat
  <2>1. IsFiniteSet(Workers)
    BY <1>1, FS_Interval DEF Workers, SchedulerTypes
  <2>2. IsFiniteSet(Running)
    BY <2>1, FS_Subset DEF Running
  <2>. QED
    BY <1>1, <2>2, FS_CardinalityType DEF SchedulerTypes
<1>4. /\ ready' = ready => Places' = Places
      /\ wpc' = wpc => Running' = Running
      /\ dpc' = dpc => Counted' = Counted /\ Lost' = Lost
  BY <1>1 DEF Places, Running, Counted, Lost
<1>5. ASSUME external_inflight' = external_inflight, dropped' = dropped, ready' = ready,
             Counted' = Counted, Running' = Running, Lost' = Lost
      PROVE  Good
  BY <1>1, <1>2, <1>4, <1>5 DEF InflightExact
<1>6. CASE UNCHANGED vars
  BY <1>4, <1>5, <1>6 DEF vars
<1>7. ASSUME NEW d \in Dispatchers, DispatchStep(d) PROVE Good
  <2>. USE <1>1, <1>3
  <2>1. dpc \in [Dispatchers -> DispatchLabels] /\ UNCHANGED <<wpc, dropped>>
    BY <1>7 DEF SchedulerTypes, DispatchStep, Begin, Count, Recheck, Undo, Enqueue, Push, Signal
  <2>2. Running' = Running
    BY <1>4, <2>1
  <2>2a. ~(Undo(d) /\ dpc[d] = "overflow") => Lost' = Lost
    BY <1>7, <2>1 DEF DispatchStep, Begin, Count, Recheck, Undo, Enqueue, Push, Signal,
                      Goto, Lost
  <2>3. ASSUME Begin(d) \/ Recheck(d) \/ Enqueue(d) \/ Signal(d) PROVE Good
    <3>0. Lost' = Lost
      BY <2>3, <2>2a DEF Begin, Recheck, Enqueue, Signal, Undo
    <3>1. Counted' = Counted
      BY <2>1, <2>3 DEF Begin, Recheck, Enqueue, Signal, Goto, Counted
    <3>2. UNCHANGED <<external_inflight, ready>>
      BY <2>3 DEF Begin, Recheck, Enqueue, Signal
    <3>. QED
      BY <1>5, <2>1, <2>2, <3>0, <3>1, <3>2
  <2>4. ASSUME Count(d) PROVE Good
    <3>0. Lost' = Lost
      BY <2>4, <2>2a DEF Count, Undo
    <3>1. Cardinality(Counted') = Cardinality(Counted) + 1 /\ IsFiniteSet(Counted')
      BY <2>4, Dispatches DEF Count, One, Held, DispatchLabels
    <3>2. Places' = Places /\ external_inflight' = external_inflight + 1
      BY <1>4, <2>4 DEF Count
    <3>. QED
      BY <1>2, <2>1, <2>2, <3>0, <3>1, <3>2 DEF InflightExact
  <2>5. ASSUME Undo(d), dpc[d] = "undo" PROVE Good
    <3>1. Cardinality(Counted') = Cardinality(Counted) - 1 /\ IsFiniteSet(Counted')
      BY <2>5, Dispatches DEF Undo, One, Held, DispatchLabels
    <3>2. Places' = Places /\ external_inflight' = external_inflight - 1
      BY <1>4, <2>5 DEF Undo
    <3>. QED
      BY <1>2, <2>1, <2>2, <2>5, <2>2a, <3>1, <3>2 DEF InflightExact
  <2>6. ASSUME Undo(d), dpc[d] = "overflow" PROVE Good
    <3>1. d \notin Lost /\ Lost' = Lost \cup {d}
      BY <2>1, <2>6 DEF Undo, Goto, Lost
    <3>2. IsFiniteSet(Lost') /\ Cardinality(Lost') = Cardinality(Lost) + 1
      BY <3>1, Gain
    <3>3. Counted' = Counted
      BY <2>1, <2>6 DEF Undo, Goto, Counted
    <3>4. Places' = Places /\ external_inflight' = external_inflight - 1
      BY <1>4, <2>6 DEF Undo
    <3>. QED
      BY <1>2, <2>1, <2>2, <3>2, <3>3, <3>4 DEF InflightExact
  <2>7. ASSUME Push(d) PROVE Good
    <3>0. Lost' = Lost
      BY <2>7, <2>2a DEF Push, Undo
    <3>1. external_inflight' = external_inflight
      BY <2>7 DEF Push
    <3>2. CASE UNCHANGED ready /\ (Goto(d, "undo") \/ UNCHANGED dpc)
      <4>1. Counted' = Counted
        BY <1>4, <2>1, <2>7, <3>2 DEF Push, Goto, Counted
      <4>. QED
        BY <1>5, <2>1, <2>2, <3>0, <3>1, <3>2, <4>1
    <3>3. CASE ready' = [ready EXCEPT ![at[d]] = Append(@, d)] /\ Goto(d, "signal")
      <4>1. at[d] \in Workers
        BY DEF SchedulerTypes
      <4>2. Cardinality(Places') = Cardinality(Places) + 1 /\ IsFiniteSet(Places')
        BY <3>3, <4>1, PushPlaces, Zenon
      <4>3. Cardinality(Counted') = Cardinality(Counted) - 1 /\ IsFiniteSet(Counted')
        <5>1. /\ "signal" \in DispatchLabels /\ "signal" \notin Held
              /\ dpc[d] \in Held
          BY <2>7 DEF Push, Held, DispatchLabels
        <5>2. /\ IsFiniteSet(Counted')
              /\ Cardinality(Counted') = Cardinality(Counted) + One("signal" \in Held)
                                           - One(dpc[d] \in Held)
          BY <3>3, <5>1, Dispatches
        <5>. QED
          BY <5>1, <5>2 DEF One
      <4>. QED
        BY <1>2, <2>1, <2>2, <3>0, <3>1, <4>2, <4>3 DEF InflightExact
    <3>. QED
      BY <2>7, <3>2, <3>3 DEF Push
  <2>. QED
    BY <1>7, <2>3, <2>4, <2>5, <2>6, <2>7 DEF DispatchStep, Undo
<1>8. ASSUME NEW w \in Workers, WorkerStep(w) PROVE Good
  <2>. USE <1>1, <1>3
  <2>1. dropped' = dropped /\ Counted' = Counted /\ Lost' = Lost
    BY <1>4, <1>8 DEF WorkerStep, Acquire, Dequeue, Check, Run, Finish
  <2>2. ASSUME Acquire(w) \/ Check(w) \/ Run(w) PROVE Good
    <3>1. Running' = Running
      BY <2>2 DEF Acquire, Check, Run, Running, SchedulerTypes
    <3>2. UNCHANGED <<external_inflight, ready>>
      BY <2>2 DEF Acquire, Check, Run
    <3>. QED
      BY <1>5, <2>1, <3>1, <3>2
  <2>3. ASSUME Dequeue(w), ready[w] = <<>> PROVE Good
    <3>1. Running' = Running
      BY <2>3 DEF Dequeue, Running, SchedulerTypes
    <3>2. UNCHANGED <<external_inflight, ready>>
      BY <2>3 DEF Dequeue
    <3>. QED
      BY <1>5, <2>1, <3>1, <3>2
  <2>4. ASSUME Dequeue(w), ready[w] # <<>> PROVE Good
    <3>0. wpc[w] = "dequeue" /\ wpc' = [wpc EXCEPT ![w] = "run"]
      BY <2>4 DEF Dequeue
    <3>1. Cardinality(Running') = Cardinality(Running) + 1
      <4>1. Cardinality(Running') = Cardinality(Running) + One("run" \in {"run", "finish"})
                                      - One(wpc[w] \in {"run", "finish"})
        BY <3>0, Works, Zenon DEF WorkerLabels
      <4>. QED
        BY <3>0, <4>1 DEF One
    <3>2. Cardinality(Places') = Cardinality(Places) - 1 /\ IsFiniteSet(Places')
      <4>1. ready' = [ready EXCEPT ![w] = Tail(@)]
        BY <2>4 DEF Dequeue
      <4>. QED
        BY <2>4, <4>1, DequeuePlaces, Zenon
    <3>3. external_inflight' = external_inflight
      BY <2>4 DEF Dequeue
    <3>. QED
      BY <1>2, <2>1, <3>1, <3>2, <3>3 DEF InflightExact
  <2>5. ASSUME Finish(w) PROVE Good
    <3>0. wpc[w] = "finish" /\ wpc' = [wpc EXCEPT ![w] = "acquire"]
      BY <2>5 DEF Finish
    <3>1. Cardinality(Running') = Cardinality(Running) - 1
      <4>1. Cardinality(Running') = Cardinality(Running) + One("acquire" \in {"run", "finish"})
                                      - One(wpc[w] \in {"run", "finish"})
        BY <3>0, Works, Zenon DEF WorkerLabels
      <4>. QED
        BY <3>0, <4>1 DEF One
    <3>2. Places' = Places /\ external_inflight' = external_inflight - 1
      BY <1>4, <2>5 DEF Finish
    <3>. QED
      BY <1>2, <2>1, <3>1, <3>2 DEF InflightExact
  <2>. QED
    BY <1>8, <2>2, <2>3, <2>4, <2>5 DEF WorkerStep
<1>9. ASSUME RequestShutdown \/ ShutdownStep PROVE Good
  <2>1. Counted' = Counted /\ Running' = Running /\ Lost' = Lost
    BY <1>4, <1>9 DEF RequestShutdown, ShutdownStep, StopScheduler, Clear, Wake,
                      DropScheduled, WaitIdle
  <2>2. ASSUME RequestShutdown \/ StopScheduler \/ Wake \/ WaitIdle PROVE Good
    BY <1>5, <2>1, <2>2 DEF RequestShutdown, StopScheduler, Wake, WaitIdle
  <2>3. ASSUME Clear PROVE Good
    <3>1. next \in Workers
      BY <1>1, <2>3 DEF Clear, SchedulerTypes, Workers
    <3>2. Len(ready[next]) \in Nat
      BY <1>1, <3>1 DEF SchedulerTypes
    <3>3. /\ Cardinality(Places') = Cardinality(Places) - Len(ready[next])
          /\ IsFiniteSet(Places')
      <4>1. ready' = [ready EXCEPT ![next] = <<>>]
        BY <2>3 DEF Clear
      <4>. QED
        BY <1>1, <3>1, <4>1, ClearPlaces, Zenon
    <3>4. external_inflight' = external_inflight /\ dropped' = dropped + Len(ready[next])
      BY <2>3 DEF Clear
    <3>5. external_inflight' = Cardinality(Counted') + Cardinality(Places')
                                 + Cardinality(Running') + dropped' - Cardinality(Lost')
      BY <1>2, <1>3, <2>1, <3>2, <3>3, <3>4
    <3>. QED
      BY <1>1, <2>1, <3>3, <3>5 DEF InflightExact
  <2>4. ASSUME DropScheduled PROVE Good
    <3>1. Places' = Places /\ dropped' = 0 /\ external_inflight' = external_inflight - dropped
      BY <1>4, <2>4 DEF DropScheduled
    <3>2. InflightExact'
      BY <1>2, <1>3, <2>1, <3>1 DEF InflightExact
    <3>. QED
      BY <1>1, <2>1, <3>1, <3>2
  <2>. QED
    BY <1>9, <2>2, <2>3, <2>4 DEF ShutdownStep
<1>. QED
  BY <1>6, <1>7, <1>8, <1>9 DEF Next

\* Every queued job keeps a wake-up of its own.
LEMMA CoverStep ==
  SchedulerInv /\ [Next]_vars
    => SignalsCover' /\ \A w \in Workers' : IsFiniteSet(Signalling(w)')
<1>. SUFFICES ASSUME SchedulerInv, [Next]_vars
              PROVE  SignalsCover' /\ \A w \in Workers' : IsFiniteSet(Signalling(w)')
  OBVIOUS
<1>. DEFINE Way(w) == One(wpc[w] = "dequeue")
            Covered(w) == Len(ready[w]) <= signal[w] + Way(w) + Cardinality(Signalling(w))
            Good(w) == Covered(w)' /\ IsFiniteSet(Signalling(w)')
<1>1. /\ SchedulerTypes /\ Workers' = Workers /\ SignalMax' = SignalMax
      /\ \A w \in Workers : IsFiniteSet(Signalling(w))
  BY DEF SchedulerInv, FinitelyMany, Next, vars, Workers, SignalMax
<1>2. \A w \in Workers : Covered(w)
  BY DEF SchedulerInv, SignalsCover, One
<1>3. SUFFICES ASSUME NEW w \in Workers PROVE Good(w)
  BY <1>1 DEF SignalsCover, One
<1>4. /\ signal \in [Workers -> Nat] /\ ready \in [Workers -> Seq(Dispatchers)]
      /\ wpc \in [Workers -> WorkerLabels] /\ dpc \in [Dispatchers -> DispatchLabels]
      /\ at \in [Dispatchers -> Workers]
      /\ Len(ready[w]) \in Nat /\ Cardinality(Signalling(w)) \in Nat /\ signal[w] \in Nat
      /\ Way(w) \in Nat
  BY <1>1, FS_CardinalityType DEF SchedulerTypes, One
<1>5. dpc' = dpc /\ at' = at => Signalling(w)' = Signalling(w)
  BY DEF Signalling
<1>. USE DEF core, queues, work, dispatch, closing
<1>6. CASE UNCHANGED vars
  BY <1>1, <1>2, <1>5, <1>6 DEF vars
<1>7. ASSUME NEW d \in Dispatchers, DispatchStep(d) PROVE Good(w)
  <2>1. wpc' = wpc /\ at[d] \in Workers
    BY <1>4, <1>7 DEF DispatchStep, Begin, Count, Recheck, Undo, Enqueue, Push, Signal
  <2>2. Signalling(w)' \ {d} = Signalling(w) \ {d}
    BY <1>4, <1>7 DEF DispatchStep, Begin, Count, Recheck, Undo, Enqueue, Push, Signal,
                      Goto, Signalling
  <2>3. /\ IsFiniteSet(Signalling(w)') /\ Cardinality(Signalling(w)') \in Nat
        /\ Cardinality(Signalling(w)') = Cardinality(Signalling(w))
             + One(d \in Signalling(w)') - One(d \in Signalling(w))
    BY <1>1, <2>2, Moves
  <2>4. ASSUME Begin(d) \/ Count(d) \/ Recheck(d) \/ Undo(d) \/ Enqueue(d) PROVE Good(w)
    <3>1. d \notin Signalling(w) /\ d \notin Signalling(w)'
      BY <1>4, <2>4 DEF Begin, Count, Recheck, Undo, Enqueue, Goto, Signalling
    <3>2. UNCHANGED <<ready, signal>>
      BY <2>4 DEF Begin, Count, Recheck, Undo, Enqueue
    <3>. QED
      BY <1>2, <1>4, <2>1, <2>3, <3>1, <3>2 DEF One
  <2>5. ASSUME Push(d) PROVE Good(w)
    <3>1. d \notin Signalling(w) /\ signal' = signal
      BY <2>5 DEF Push, Signalling
    <3>2. CASE UNCHANGED ready
      BY <1>2, <1>4, <2>1, <2>3, <3>1, <3>2 DEF One
    <3>3. CASE /\ ready' = [ready EXCEPT ![at[d]] = Append(@, d)]
               /\ Goto(d, "signal") /\ at' = at
      <4>1. CASE at[d] = w
        <5>1. d \in Signalling(w)'
          BY <1>4, <3>3, <4>1 DEF Goto, Signalling
        <5>2. Len(ready'[w]) = Len(ready[w]) + 1
          BY <1>4, <3>3, <4>1
        <5>. QED
          BY <1>2, <1>4, <2>1, <2>3, <3>1, <5>1, <5>2 DEF One
      <4>2. CASE at[d] # w
        <5>1. ready'[w] = ready[w]
          BY <1>4, <3>3, <4>2
        <5>. QED
          BY <1>2, <1>4, <2>1, <2>3, <3>1, <5>1 DEF One
      <4>. QED
        BY <4>1, <4>2
    <3>. QED
      BY <2>5, <3>2, <3>3 DEF Push
  <2>6. ASSUME Signal(d) PROVE Good(w)
    <3>1. ready' = ready /\ d \notin Signalling(w)' /\ (d \in Signalling(w) <=> at[d] = w)
      BY <1>4, <2>6 DEF Signal, Goto, Signalling
    <3>2. CASE signal' = [signal EXCEPT ![at[d]] = @ + 1]
      BY <1>2, <1>4, <2>1, <2>3, <3>1, <3>2 DEF One
    <3>3. CASE signal' = signal /\ signal[at[d]] = SignalMax
      <4>1. CASE at[d] = w
        <5>1. Len(ready[w]) <= SignalMax /\ SignalMax \in Nat
          BY <1>1, SchedulerAssumption DEF SchedulerTypes, SignalMax
        <5>2. Len(ready'[w]) <= signal'[w] /\ signal'[w] \in Nat /\ Way(w)' \in Nat
          BY <3>1, <3>3, <4>1, <5>1 DEF One
        <5>. QED
          BY <1>4, <2>3, <3>1, <5>2
      <4>2. CASE at[d] # w
        <5>1. Cardinality(Signalling(w)') = Cardinality(Signalling(w))
          BY <1>4, <2>3, <3>1, <4>2 DEF One
        <5>. QED
          BY <1>2, <2>1, <2>3, <3>1, <3>3, <5>1
      <4>. QED
        BY <4>1, <4>2
    <3>. QED
      BY <2>6, <3>2, <3>3 DEF Signal
  <2>. QED
    BY <1>7, <2>4, <2>5, <2>6 DEF DispatchStep
<1>8. ASSUME NEW v \in Workers, WorkerStep(v) PROVE Good(w)
  <2>1. Signalling(w)' = Signalling(w)
    BY <1>5, <1>8 DEF WorkerStep, Acquire, Dequeue, Check, Run, Finish
  <2>2. ASSUME Acquire(v) PROVE Good(w)
    BY <1>1, <1>2, <1>4, <2>1, <2>2 DEF Acquire, One
  <2>3. ASSUME Check(v) \/ Run(v) \/ Finish(v) PROVE Good(w)
    <3>1. wpc[v] # "dequeue" /\ wpc'[v] # "dequeue" /\ (w # v => wpc'[w] = wpc[w])
      BY <1>4, <2>3 DEF Check, Run, Finish
    <3>2. UNCHANGED <<ready, signal>>
      BY <2>3 DEF Check, Run, Finish
    <3>. QED
      BY <1>1, <1>2, <1>4, <2>1, <3>1, <3>2 DEF One
  <2>4. ASSUME Dequeue(v) PROVE Good(w)
    <3>1. signal' = signal
      BY <2>4 DEF Dequeue
    <3>2. CASE w = v
      <4>1. wpc[w] = "dequeue" /\ wpc'[w] # "dequeue"
        BY <1>4, <2>4, <3>2 DEF Dequeue
      <4>2. Len(ready'[w]) = 0 \/ Len(ready'[w]) = Len(ready[w]) - 1
        BY <1>4, <2>4, <3>2 DEF Dequeue
      <4>. QED
        BY <1>1, <1>2, <1>4, <2>1, <3>1, <4>1, <4>2 DEF One
    <3>3. CASE w # v
      <4>1. wpc'[w] = wpc[w] /\ ready'[w] = ready[w]
        BY <1>4, <2>4, <3>3 DEF Dequeue
      <4>. QED
        BY <1>1, <1>2, <1>4, <2>1, <3>1, <4>1
    <3>. QED
      BY <3>2, <3>3
  <2>. QED
    BY <1>8, <2>2, <2>3, <2>4 DEF WorkerStep
<1>9. ASSUME RequestShutdown \/ ShutdownStep PROVE Good(w)
  <2>1. Signalling(w)' = Signalling(w) /\ wpc' = wpc
    BY <1>5, <1>9 DEF RequestShutdown, ShutdownStep, StopScheduler, Clear, Wake,
                      DropScheduled, WaitIdle
  <2>2. signal'[w] \in Nat /\ signal'[w] >= signal[w]
    <3>1. CASE Wake
      <4>1. signal' = signal \/ signal' = [signal EXCEPT ![next] = @ + 1]
        BY <3>1 DEF Wake
      <4>2. CASE next = w
        BY <1>4, <4>1, <4>2
      <4>3. CASE next # w
        BY <1>4, <4>1, <4>3
      <4>. QED
        BY <4>2, <4>3
    <3>2. CASE ~Wake
      <4>1. signal' = signal
        BY <1>9, <3>2 DEF RequestShutdown, ShutdownStep, StopScheduler, Clear,
                          DropScheduled, WaitIdle
      <4>. QED
        BY <1>4, <4>1
    <3>. QED
      BY <3>1, <3>2
  <2>3. Len(ready'[w]) = Len(ready[w]) \/ Len(ready'[w]) = 0
    <3>1. CASE Clear
      BY <1>4, <3>1 DEF Clear
    <3>2. CASE ~Clear
      BY <1>9, <3>2 DEF RequestShutdown, ShutdownStep, StopScheduler, Wake,
                        DropScheduled, WaitIdle
    <3>. QED
      BY <3>1, <3>2
  <2>. QED
    BY <1>1, <1>2, <1>4, <2>1, <2>2, <2>3
<1>. QED
  BY <1>6, <1>7, <1>8, <1>9 DEF Next

\* Shutdown never takes its flag back.
LEMMA FlagStep == FlagSet /\ [Next]_vars => FlagSet'
<1>. SUFFICES ASSUME FlagSet, [Next]_vars PROVE FlagSet'
  OBVIOUS
<1>. USE DEF FlagSet, core, queues, work, dispatch, closing
<1>1. CASE UNCHANGED vars
  BY <1>1 DEF vars
<1>2. ASSUME NEW d \in Dispatchers, DispatchStep(d) PROVE FlagSet'
  BY <1>2 DEF DispatchStep, Begin, Count, Recheck, Undo, Enqueue, Push, Signal
<1>3. ASSUME NEW w \in Workers, WorkerStep(w) PROVE FlagSet'
  BY <1>3 DEF WorkerStep, Acquire, Dequeue, Check, Run, Finish
<1>4. ASSUME RequestShutdown \/ ShutdownStep PROVE FlagSet'
  BY <1>4 DEF RequestShutdown, ShutdownStep, StopScheduler, Clear, Wake, DropScheduled,
              WaitIdle
<1>. QED
  BY <1>1, <1>2, <1>3, <1>4 DEF Next

\* wait_external_idle returns on an empty executor, and it stays empty: a
\* dispatch that has yet to look at the flag will see it set.
LEMMA DrainedStep == SchedulerInv /\ [Next]_vars => DrainedAtTeardown'
<1>. SUFFICES ASSUME SchedulerInv, [Next]_vars, spc' = "down", ~Overflowed'
              PROVE  /\ Running' = {} /\ Places' = {}
                     /\ \A e \in Dispatchers : dpc'[e] \notin {"enqueue", "push"}
  BY DEF DrainedAtTeardown
<1>. USE DEF core, queues, work, dispatch, closing
<1>. DEFINE Good == /\ Running' = {} /\ Places' = {}
                    /\ \A e \in Dispatchers : dpc'[e] \notin {"enqueue", "push"}
<1>1. SchedulerTypes /\ Workers' = Workers /\ ~Overflowed
  BY OverflowStays DEF SchedulerInv, Next, vars, Workers
<1>2. ready' = ready => Places' = Places
  BY <1>1 DEF Places
<1>3. spc = "down" => /\ Running = {} /\ Places = {} /\ shutdown_requested
                      /\ \A e \in Dispatchers : dpc[e] \notin {"enqueue", "push"}
  BY <1>1 DEF SchedulerInv, DrainedAtTeardown, FlagSet
<1>4. CASE UNCHANGED vars
  BY <1>1, <1>2, <1>3, <1>4 DEF vars, Running
<1>5. ASSUME NEW d \in Dispatchers, DispatchStep(d) PROVE Good
  <2>1. spc = "down" /\ wpc' = wpc
    BY <1>5 DEF DispatchStep, Begin, Count, Recheck, Undo, Enqueue, Push, Signal
  <2>2. dpc \in [Dispatchers -> DispatchLabels] /\ dpc[d] \notin {"enqueue", "push"}
    BY <1>1, <1>3, <2>1 DEF SchedulerTypes
  <2>3. ready' = ready /\ \A e \in Dispatchers : dpc'[e] \notin {"enqueue", "push"}
    BY <1>3, <1>5, <2>1, <2>2, Zenon DEF DispatchStep, Begin, Count, Recheck, Undo, Enqueue,
                                  Push, Signal, Goto
  <2>. QED
    BY <1>1, <1>2, <1>3, <2>1, <2>3 DEF Running
<1>6. ASSUME NEW w \in Workers, WorkerStep(w) PROVE Good
  <2>1. spc = "down" /\ dpc' = dpc
    BY <1>6 DEF WorkerStep, Acquire, Dequeue, Check, Run, Finish
  <2>2. wpc \in [Workers -> WorkerLabels] /\ wpc[w] \notin {"run", "finish"}
    BY <1>1, <1>3, <2>1 DEF SchedulerTypes, Running
  <2>3. ready[w] = <<>>
    <3>1. ready[w] \in Seq(Dispatchers)
      BY <1>1 DEF SchedulerTypes
    <3>2. 1 \in 1..Len(ready[w]) => <<w, 1>> \in Places
      BY DEF Places
    <3>3. Len(ready[w]) = 0
      BY <1>3, <2>1, <3>1, <3>2
    <3>. QED
      BY <3>1, <3>3
  <2>4. ready' = ready /\ wpc'[w] \notin {"run", "finish"}
    BY <1>6, <2>2, <2>3 DEF WorkerStep, Acquire, Dequeue, Check, Run, Finish
  <2>5. Running' = {}
    BY <1>1, <1>3, <1>6, <2>1, <2>2, <2>4, Zenon
    DEF WorkerStep, Acquire, Dequeue, Check, Run, Finish, Running
  <2>. QED
    BY <1>2, <1>3, <2>1, <2>4, <2>5
<1>7. ASSUME RequestShutdown \/ ShutdownStep PROVE Good
  <2>1. WaitIdle
    BY <1>7 DEF RequestShutdown, ShutdownStep, StopScheduler, Clear, Wake, DropScheduled
  <2>2. UNCHANGED <<ready, wpc, dpc>> /\ external_inflight = 0
    BY <2>1 DEF WaitIdle
  <2>3. IsFiniteSet(Counted) /\ IsFiniteSet(Places) /\ IsFiniteSet(Running)
    <3>1. IsFiniteSet(Workers)
      BY <1>1, FS_Interval DEF Workers, SchedulerTypes
    <3>. QED
      BY <3>1, FS_Subset DEF Running, SchedulerInv, FinitelyMany
  <2>4. 0 = Cardinality(Counted) + Cardinality(Places) + Cardinality(Running) + dropped
    <3>1. Lost = {}
      BY <1>1 DEF Lost, Overflowed
    <3>2. Cardinality(Lost) = 0
      BY <3>1, FS_EmptySet
    <3>3. /\ Cardinality(Counted) \in Nat /\ Cardinality(Places) \in Nat
          /\ Cardinality(Running) \in Nat /\ dropped \in Nat
      BY <1>1, <2>3, FS_CardinalityType DEF SchedulerTypes
    <3>. QED
      BY <2>2, <3>2, <3>3 DEF SchedulerInv, InflightExact
  <2>5. Cardinality(Counted) = 0 /\ Cardinality(Places) = 0 /\ Cardinality(Running) = 0
    BY <1>1, <2>3, <2>4, FS_CardinalityType DEF SchedulerTypes
  <2>6. Counted = {} /\ Places = {} /\ Running = {}
    BY <2>3, <2>5, FS_EmptySet
  <2>. QED
    BY <1>1, <1>2, <2>2, <2>6 DEF Counted, Running
<1>. QED
  BY <1>4, <1>5, <1>6, <1>7 DEF Next

\* Every step keeps the invariant.
LEMMA SchedulerStep == SchedulerInv /\ [Next]_vars => SchedulerInv'
  BY TypesStep, InflightStep, CoverStep, FlagStep, DrainedStep
  DEF SchedulerInv, FinitelyMany

\* The invariant holds in every reachable state of the scheduler.
THEOREM SchedulerInvariance == Spec => []SchedulerInv
  BY InitScheduler, SchedulerStep, PTL DEF Spec
=============================================================================
