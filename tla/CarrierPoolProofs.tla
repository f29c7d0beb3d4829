-------------------------- MODULE CarrierPoolProofs --------------------------
(***************************************************************************)
(* Safety of the carrier pool for any number of workers, jobs and queue    *)
(* items, every shutdown policy and every steal boundary.  Three layers:   *)
(* types and the `inner` mutex (Typed), the place of each job (Places,     *)
(* Consumed), and the tokens behind each queue (TokensCover).              *)
(***************************************************************************)
EXTENDS CarrierPool, FiniteSetTheorems, TLAPS

\* Every leaf is tried with the SMT solver, then with Zenon, then with Z3 for longer.
USE SMTT(20), ZenonT(20), Z3T(40)

\* The submitter inside submit_raw is alone there and knows its workers.
Submitter ==
  /\ \A i, j \in Jobs :
        spc[i] \in {"primary", "companion"} /\ spc[j] \in {"primary", "companion"}
          => i = j
  /\ \A j \in Jobs : spc[j] \in {"primary", "companion"} =>
        target[j] \in Workers /\ shutdown = "up"
  /\ \A j \in Jobs : spc[j] = "companion" => companion[j] \in Workers

\* A running worker has an item.
Busy == \A w \in Workers : wpc[w] = "run" => job[w] \in Jobs

Typed == TypeOK /\ Submitter /\ Busy

\* What dequeuing does to a queue.
LEMMA TailFacts ==
  ASSUME NEW s \in Seq(Jobs), s # <<>>
  PROVE  /\ Len(s) \in Nat \ {0} /\ Head(s) = s[1] /\ s[1] \in Jobs
         /\ Tail(s) \in Seq(Jobs) /\ Len(Tail(s)) = Len(s) - 1
         /\ \A i \in 1..(Len(s) - 1) : Tail(s)[i] = s[i + 1]
  OBVIOUS

\* What enqueuing does to a queue.
LEMMA AppendFacts ==
  ASSUME NEW s \in Seq(Jobs), NEW j \in Jobs
  PROVE  /\ Append(s, j) \in Seq(Jobs) /\ Len(s) \in Nat
         /\ Len(Append(s, j)) = Len(s) + 1
         /\ \A i \in 1..Len(s) : Append(s, j)[i] = s[i]
         /\ Append(s, j)[Len(s) + 1] = j
  OBVIOUS

\* A companion is another worker or nobody.
LEMMA CompanionType ==
  ASSUME TypeOK, NEW w \in Workers PROVE Companions(w) \subseteq Workers \cup {None}
<1>1. WorkerCount # 1 => After(w, 1) \in Workers
  BY PoolAssumption DEF Workers, After
<1> QED
  BY <1>1, PoolAssumption DEF Companions, TypeOK

\* A victim is a worker with queued items.
LEMMA VictimType ==
  ASSUME TypeOK, NEW w \in Workers PROVE Victims(w) \subseteq Loaded(w)
  BY PoolAssumption DEF Victims, TypeOK, Loaded

\* The semaphores' bound is a number that covers a full queue.
LEMMA TokenBound == TokenMax \in Nat /\ QueueItems \in Nat /\ QueueItems <= TokenMax
  BY PoolAssumption DEF TokenMax

(* A freshly built pool, every worker about to take a permit and no job submitted, is well typed. *)
LEMMA InitTyped == Init => Typed
<1> SUFFICES ASSUME Init PROVE Typed
  OBVIOUS
<1>1. <<>> \in Seq(Jobs) /\ 0 \in 0..TokenMax
  BY TokenBound
<1> QED
  BY <1>1 DEF Init, Typed, TypeOK, Submitter, Busy

\* Types and the exclusion in submit_raw are kept by every step.
LEMMA StepTyped == Typed /\ [Next]_vars => Typed'
<1> SUFFICES ASSUME Typed, [Next]_vars PROVE Typed'
  OBVIOUS
<1> USE TokenBound DEF Typed, TypeOK, Submitter, Busy, vars, config, working, submitting
<1>1. CASE UNCHANGED vars
  BY <1>1
<1>2. ASSUME NEW j \in Jobs, Refuse(j) \/ SubmitFails(j) PROVE Typed'
  <2>1. /\ spc[j] = "new"
        /\ \E p \in {"done", "failed"} : spc' = [spc EXCEPT ![j] = p]
        /\ outcome' = [outcome EXCEPT ![j] = "rejected"]
        /\ UNCHANGED <<config, queues, tokens, working, target, companion, shutdown,
                       runs, cancels>>
    BY <1>2 DEF Refuse, SubmitFails
  <2> QED
    BY <2>1
<1>11. ASSUME NEW j \in Jobs, RunRejected(j) PROVE Typed'
  BY <1>11 DEF RunRejected
<1>3. ASSUME NEW j \in Jobs, Enqueue(j) PROVE Typed'
  <2>1. PICK w \in Workers, c \in Workers \cup {None} :
           /\ queues' = [queues EXCEPT ![w] = Append(@, j)]
           /\ target' = [target EXCEPT ![j] = w]
           /\ companion' = [companion EXCEPT ![j] = c]
    BY Zenon, <1>3, CompanionType DEF Enqueue
  <2>3. Append(queues[w], j) \in Seq(Jobs)
    BY AppendFacts
  <2> QED
    BY <1>3, <2>1, <2>3 DEF Enqueue, InnerFree
<1>4. ASSUME NEW j \in Jobs, ReleasePrimary(j) \/ ReleaseCompanion(j) PROVE Typed'
  <2>1. ASSUME NEW w \in Workers, NEW next \in {"companion", "done"},
               ReleaseToken(j, w, next)
        PROVE  TypeOK'
    <3>3. \E p \in {"companion", "done", "failed"},
             o \in {"none", "accepted", "rejected", "overflow"} :
               /\ spc' = [spc EXCEPT ![j] = p]
               /\ outcome' = [outcome EXCEPT ![j] = o]
      <4>1. outcome[j] \in {"none", "accepted", "rejected", "overflow"}
        OBVIOUS
      <4> QED
        BY <2>1, <4>1 DEF ReleaseToken
    <3>4. /\ spc' \in [Jobs -> {"new", "primary", "companion", "failed", "done"}]
          /\ outcome' \in [Jobs -> {"none", "accepted", "rejected", "overflow"}]
      BY <3>3
    <3>1. CASE tokens[w] = TokenMax /\ UNCHANGED tokens
      BY <2>1, <3>1, <3>4 DEF ReleaseToken
    <3>2. CASE tokens[w] < TokenMax /\ tokens' = [tokens EXCEPT ![w] = @ + 1]
      <4>1. tokens' \in [Workers -> 0..TokenMax]
        BY <3>2
      <4> QED
        BY <2>1, <4>1, <3>4 DEF ReleaseToken
    <3> QED
      BY <2>1, <3>1, <3>2 DEF ReleaseToken
  <2>2. TypeOK'
    BY Zenon, <1>4, <2>1 DEF ReleasePrimary, ReleaseCompanion
  <2>3. Submitter'
    BY ZenonT(90), <1>4 DEF ReleasePrimary, ReleaseCompanion, ReleaseToken
  <2> QED
    BY <1>4, <2>2, <2>3 DEF ReleasePrimary, ReleaseCompanion, ReleaseToken
<1>5. ASSUME NEW w \in Workers, Acquire(w) PROVE Typed'
  BY <1>5 DEF Acquire
<1>6. ASSUME NEW w \in Workers, Take(w) PROVE Typed'
  <2>1. ASSUME NEW v \in Workers, queues[v] # <<>>, Dequeue(w, v) PROVE TypeOK' /\ Busy'
    <3>1. Head(queues[v]) \in Jobs /\ Tail(queues[v]) \in Seq(Jobs)
      BY <2>1, TailFacts
    <3> QED
      BY Zenon, <1>6, <2>1, <3>1 DEF Take, Dequeue
  <2>2. TypeOK' /\ Busy'
    <3>1. \A v \in Victims(w) : v \in Workers /\ queues[v] # <<>>
      BY VictimType DEF Loaded
    <3>2. CASE \E v \in Workers : queues[v] # <<>> /\ Dequeue(w, v)
      BY Zenon, <2>1, <3>2
    <3>3. CASE wpc' = [wpc EXCEPT ![w] = IF shutting_down THEN "exit" ELSE "acquire"]
               /\ UNCHANGED <<queues, job>>
      BY <1>6, <3>3 DEF Take
    <3> QED
      BY Zenon, <1>6, <3>1, <3>2, <3>3 DEF Take
  <2> QED
    BY <1>6, <2>2 DEF Take
<1>7. ASSUME NEW w \in Workers, Run(w) PROVE Typed'
  BY <1>7 DEF Run
<1>8. CASE TakeInner
  BY <1>8 DEF TakeInner, InnerFree
<1>9. CASE BeginShutdown
  <2>1. tokens' \in [Workers -> 0..TokenMax]
    <3> DEFINE full == {w \in Workers : tokens[w] = TokenMax}
               woken == {w \in Workers : \A f \in full : w < f}
    <3>1. tokens' = [w \in Workers |-> IF w \in woken THEN tokens[w] + 1 ELSE tokens[w]]
      BY <1>9 DEF BeginShutdown
    <3>2. \A w \in woken : tokens[w] # TokenMax
      BY DEF Workers
    <3> HIDE DEF woken
    <3>3. ASSUME NEW w \in Workers
          PROVE (IF w \in woken THEN tokens[w] + 1 ELSE tokens[w]) \in 0..TokenMax
      <4>1. tokens[w] \in 0..TokenMax
        OBVIOUS
      <4> QED
        BY <4>1, <3>2
    <3> QED
      BY <3>1, <3>3
  <2>2. queues' \in [Workers -> Seq(Jobs)] /\ cancels' \in [Jobs -> Nat]
    <3>1. <<>> \in Seq(Jobs)
      OBVIOUS
    <3>2. CASE policy = "Drain" /\ UNCHANGED <<queues, cancels>>
      BY <3>2
    <3>3. CASE /\ cancels' = [j \in Jobs |-> IF j \in Queued THEN cancels[j] + 1 ELSE cancels[j]]
               /\ queues' = [w \in Workers |-> <<>>]
      BY <3>1, <3>3
    <3> QED
      BY Zenon, <1>9, <3>2, <3>3 DEF BeginShutdown
  <2> QED
    BY <1>9, <2>1, <2>2 DEF BeginShutdown
<1>10. CASE Join
  BY <1>10 DEF Join
<1> HIDE DEF Typed, vars
<1> QED
  BY Zenon, <1>1, <1>2, <1>3, <1>4, <1>5, <1>6, <1>7, <1>8, <1>9, <1>10, <1>11
  DEF Next, SubmitStep, WorkerStep, ShutdownStep

\* The pool's state is well typed in every reachable state.
THEOREM TypeCorrect == Spec => []TypeOK
  BY InitTyped, StepTyped, PTL DEF Spec, Typed
-----------------------------------------------------------------------------
\* A job that a worker has yet to run: queued, or taken by a worker.
InQueue(j) == \E w \in Workers : \E i \in 1..Len(queues[w]) : queues[w][i] = j
InHand(j) == \E w \in Workers : wpc[w] = "run" /\ job[w] = j
Waiting(j) == InQueue(j) \/ InHand(j)

\* A job is in one place only.
OnePosition ==
  \A w, v \in Workers : \A i \in 1..Len(queues[w]), k \in 1..Len(queues[v]) :
     queues[w][i] = queues[v][k] => w = v /\ i = k
OneHolder ==
  \A w, v \in Workers :
     wpc[w] = "run" /\ wpc[v] = "run" /\ job[w] = job[v] => w = v
NotBoth == \A w \in Workers : wpc[w] = "run" => ~InQueue(job[w])
Places == OnePosition /\ OneHolder /\ NotBoth

\* What has happened to a job, by how far its submit call has got.
Account(j) ==
  /\ spc[j] = "new" => ~Waiting(j) /\ runs[j] + cancels[j] = 0 /\ outcome[j] = "none"
  /\ spc[j] \in {"primary", "companion"} => outcome[j] = "none"
  /\ spc[j] = "failed" => outcome[j] \in {"rejected", "overflow"}
  /\ outcome[j] = "accepted" => spc[j] = "done"
  /\ outcome[j] = "rejected" => ~Waiting(j)
  /\ outcome[j] # "overflow" =>
        /\ runs[j] + cancels[j] <= 1
        /\ Waiting(j) \/ spc[j] = "failed" => runs[j] + cancels[j] = 0
  /\ spc[j] \in {"primary", "companion"} \/ outcome[j] = "accepted" =>
        Waiting(j) \/ runs[j] + cancels[j] >= 1
  /\ policy = "Drain" => cancels[j] = 0

\* A worker leaves only during a shutdown, over an empty queue.
Leaving == \A w \in Workers : wpc[w] = "exit" => shutting_down /\ queues[w] = <<>>

IInv == /\ Typed /\ Places /\ Leaving /\ Drained
        /\ \A j \in Jobs : Account(j)

(* The set of queued jobs, as the queues' ranges give it, is the set of jobs at some position of a worker's queue. *)
LEMMA QueuedIsInQueue ==
  ASSUME TypeOK PROVE \A j \in Jobs : j \in Queued <=> InQueue(j)
<1>1. \A w \in Workers : DOMAIN queues[w] = 1..Len(queues[w])
  BY DEF TypeOK
<1> QED
  BY <1>1 DEF Queued, InQueue

\* Enqueuing a job that is nowhere puts it in one place.
LEMMA EnqueuePlaces ==
  ASSUME Typed, Places, NEW j \in Jobs, ~Waiting(j), NEW w \in Workers,
         queues' = [queues EXCEPT ![w] = Append(@, j)], UNCHANGED working
  PROVE  Places' /\ \A x \in Jobs : Waiting(x)' <=> Waiting(x) \/ x = j
<1>0. /\ queues \in [Workers -> Seq(Jobs)] /\ UNCHANGED <<wpc, job>>
      /\ OnePosition /\ OneHolder /\ NotBoth /\ Busy
  BY DEF Typed, TypeOK, working, Places
<1>1. /\ queues'[w] = Append(queues[w], j)
      /\ \A v \in Workers \ {w} : queues'[v] = queues[v]
  BY <1>0
<1>2. /\ Len(queues[w]) \in Nat /\ Len(queues'[w]) = Len(queues[w]) + 1
      /\ \A i \in 1..Len(queues[w]) : queues'[w][i] = queues[w][i]
      /\ queues'[w][Len(queues[w]) + 1] = j
  BY <1>0, <1>1, AppendFacts
<1>3. ASSUME NEW x \in Jobs PROVE InQueue(x)' <=> InQueue(x) \/ x = j
  <2>1. ASSUME InQueue(x)' PROVE InQueue(x) \/ x = j
    BY <1>1, <1>2, <2>1 DEF InQueue
  <2>2. ASSUME InQueue(x) PROVE InQueue(x)'
    BY <1>1, <1>2, <2>2 DEF InQueue
  <2>3. InQueue(j)'
    BY <1>1, <1>2 DEF InQueue
  <2> QED
    BY <2>1, <2>2, <2>3
<1>4. \A x \in Jobs : InHand(x)' <=> InHand(x)
  BY <1>0 DEF InHand
<1>5. ASSUME NEW u \in Workers, NEW v \in Workers,
             NEW i \in 1..Len(queues'[u]), NEW k \in 1..Len(queues'[v]),
             queues'[u][i] = queues'[v][k]
      PROVE  u = v /\ i = k
  <2>1. ASSUME NEW z \in Workers, NEW n \in 1..Len(queues'[z])
        PROVE  \/ n \in 1..Len(queues[z]) /\ queues'[z][n] = queues[z][n] /\ queues[z][n] # j
               \/ z = w /\ n = Len(queues[w]) + 1 /\ queues'[z][n] = j
    <3>1. \A m \in 1..Len(queues[z]) : queues[z][m] # j
      BY DEF Waiting, InQueue
    <3>2. CASE z = w
      <4>1. n \in 1..Len(queues[w]) \/ n = Len(queues[w]) + 1
        BY <1>2, <3>2
      <4> QED
        BY <1>2, <3>1, <3>2, <4>1
    <3>3. CASE z # w
      BY <1>1, <3>1, <3>3
    <3> QED
      BY <3>2, <3>3
  <2>2. CASE i \in 1..Len(queues[u]) /\ queues[u][i] # j /\ queues'[u][i] = queues[u][i]
    <3>1. k \in 1..Len(queues[v]) /\ queues'[v][k] = queues[v][k]
      BY <1>5, <2>1, <2>2
    <3> QED
      BY <1>0, <1>5, <2>2, <3>1 DEF OnePosition
  <2>3. CASE u = w /\ i = Len(queues[w]) + 1 /\ queues'[u][i] = j
    BY <1>5, <2>1, <2>3
  <2> QED
    BY <2>1, <2>2, <2>3
<1>6. ASSUME NEW u \in Workers, NEW x \in Jobs, wpc'[u] = "run", job'[u] = x
      PROVE  ~InQueue(x)'
  <2>1. x # j /\ ~InQueue(x)
    BY <1>0, <1>6 DEF Waiting, InHand, NotBoth
  <2> QED
    BY <1>3, <2>1
<1>7. \A u \in Workers : wpc'[u] = "run" => job'[u] \in Jobs
  BY <1>0 DEF Busy
<1> QED
  <2>1. OnePosition'
    BY <1>5 DEF OnePosition
  <2>2. NotBoth'
    BY <1>6, <1>7 DEF NotBoth
  <2>3. OneHolder'
    BY <1>0 DEF OneHolder
  <2> QED
    BY <1>3, <1>4, <2>1, <2>2, <2>3 DEF Places, Waiting

\* Dequeuing moves a job from the queue to the worker's hand.
LEMMA DequeuePlaces ==
  ASSUME Typed, Places, NEW w \in Workers, NEW v \in Workers,
         wpc[w] = "take", queues[v] # <<>>, Dequeue(w, v)
  PROVE  Places' /\ \A x \in Jobs : Waiting(x)' <=> Waiting(x)
<1> DEFINE h == Head(queues[v])
<1>0. /\ queues \in [Workers -> Seq(Jobs)] /\ job \in [Workers -> Jobs \cup {None}]
      /\ wpc \in [Workers -> {"acquire", "take", "run", "exit"}]
      /\ OnePosition /\ OneHolder /\ NotBoth /\ Busy
  BY DEF Typed, TypeOK, Places
<1>1. /\ queues'[v] = Tail(queues[v]) /\ \A u \in Workers \ {v} : queues'[u] = queues[u]
      /\ job'[w] = h /\ \A u \in Workers \ {w} : job'[u] = job[u]
      /\ wpc'[w] = "run" /\ \A u \in Workers \ {w} : wpc'[u] = wpc[u]
  BY <1>0 DEF Dequeue
<1>2. /\ Len(queues[v]) \in Nat \ {0} /\ h = queues[v][1] /\ h \in Jobs
      /\ Len(queues'[v]) = Len(queues[v]) - 1
      /\ \A i \in 1..(Len(queues[v]) - 1) : queues'[v][i] = queues[v][i + 1]
  BY <1>0, <1>1, TailFacts
<1> HIDE DEF h
<1>3. \A u \in Workers : \A n \in 1..Len(queues'[u]) :
         \E m \in 1..Len(queues[u]) :
            /\ m = IF u = v THEN n + 1 ELSE n
            /\ queues'[u][n] = queues[u][m] /\ queues[u][m] # h
  <2> SUFFICES ASSUME NEW u \in Workers, NEW n \in 1..Len(queues'[u])
               PROVE \E m \in 1..Len(queues[u]) :
                        /\ m = IF u = v THEN n + 1 ELSE n
                        /\ queues'[u][n] = queues[u][m] /\ queues[u][m] # h
    OBVIOUS
  <2>1. CASE u = v
    <3>1. n + 1 \in 1..Len(queues[v]) /\ queues'[v][n] = queues[v][n + 1]
          /\ 1 \in 1..Len(queues[v]) /\ n + 1 # 1
      BY <1>2, <2>1
    <3>2. queues[v][n + 1] # queues[v][1]
      BY <1>0, <3>1 DEF OnePosition
    <3> QED
      BY <1>2, <2>1, <3>1, <3>2
  <2>2. CASE u # v
    <3>1. 1 \in 1..Len(queues[v]) /\ n \in 1..Len(queues[u]) /\ queues'[u][n] = queues[u][n]
      BY <1>1, <1>2, <2>2
    <3>2. queues[u][n] # queues[v][1]
      BY <1>0, <2>2, <3>1 DEF OnePosition
    <3> QED
      BY <1>2, <2>2, <3>1, <3>2
  <2> QED
    BY <2>1, <2>2
<1>4. ASSUME NEW x \in Jobs PROVE InQueue(x)' <=> InQueue(x) /\ x # h
  <2>1. ASSUME InQueue(x)' PROVE InQueue(x) /\ x # h
    <3>1. PICK u \in Workers : \E n \in 1..Len(queues'[u]) : queues'[u][n] = x
      BY <2>1 DEF InQueue
    <3>2. PICK n \in 1..Len(queues'[u]) : queues'[u][n] = x
      BY <3>1
    <3> QED
      BY <1>3, <3>2 DEF InQueue
  <2>2. ASSUME NEW u \in Workers, NEW m \in 1..Len(queues[u]), queues[u][m] = x, x # h
        PROVE  InQueue(x)'
    <3>1. CASE u = v
      <4>1. m # 1 /\ Len(queues[v]) \in Nat /\ m \in 1..Len(queues[v])
        BY <1>2, <2>2, <3>1
      <4>2. m - 1 \in 1..Len(queues'[v]) /\ m - 1 \in 1..(Len(queues[v]) - 1) /\ (m - 1) + 1 = m
        BY <1>2, <4>1
      <4>3. queues'[v][m - 1] = x
        BY <1>2, <2>2, <3>1, <4>2
      <4> QED
        BY <4>2, <4>3 DEF InQueue
    <3>2. CASE u # v
      BY <1>1, <2>2, <3>2 DEF InQueue
    <3> QED
      BY <3>1, <3>2
  <2> QED
    BY <2>1, <2>2 DEF InQueue
<1>5. InQueue(h) /\ ~InHand(h)
  <2>1. InQueue(h)
    BY <1>2 DEF InQueue
  <2> QED
    BY <1>0, <2>1 DEF InHand, NotBoth
<1>6. \A x \in Jobs : InHand(x)' <=> InHand(x) \/ x = h
  BY <1>1 DEF InHand
<1>7. ASSUME NEW a \in Workers, NEW b \in Workers,
             NEW i \in 1..Len(queues'[a]), NEW k \in 1..Len(queues'[b]),
             queues'[a][i] = queues'[b][k]
      PROVE  a = b /\ i = k
  <2>1. PICK m \in 1..Len(queues[a]) :
           m = (IF a = v THEN i + 1 ELSE i) /\ queues'[a][i] = queues[a][m]
    BY <1>3
  <2>2. PICK n \in 1..Len(queues[b]) :
           n = (IF b = v THEN k + 1 ELSE k) /\ queues'[b][k] = queues[b][n]
    BY <1>3
  <2>3. a = b /\ m = n
    <3>1. queues[a][m] = queues[b][n]
      BY ZenonT(30), <1>7, <2>1, <2>2
    <3> QED
      BY <1>0, <3>1 DEF OnePosition
  <2>4. i \in Int /\ k \in Int
    OBVIOUS
  <2> QED
    BY <2>1, <2>2, <2>3, <2>4
<1>8. \A a, b \in Workers : wpc'[a] = "run" /\ wpc'[b] = "run" /\ job'[a] = job'[b] => a = b
  BY <1>0, <1>1, <1>5 DEF OneHolder, InHand
<1>9. ASSUME NEW a \in Workers, NEW x \in Jobs, wpc'[a] = "run", job'[a] = x
      PROVE  ~InQueue(x)'
  <2>1. CASE a = w
    BY <1>1, <1>4, <1>9, <2>1
  <2>2. CASE a # w
    BY <1>0, <1>1, <1>4, <1>9, <2>2 DEF NotBoth
  <2> QED
    BY <2>1, <2>2
<1>10. \A a \in Workers : wpc'[a] = "run" => job'[a] \in Jobs
  BY Zenon, <1>0, <1>1, <1>2 DEF Busy
<1> QED
  <2>1. OnePosition'
    BY <1>7 DEF OnePosition
  <2>2. NotBoth'
    BY <1>9, <1>10 DEF NotBoth
  <2>3. OneHolder'
    BY <1>8 DEF OneHolder
  <2> QED
    BY <1>4, <1>5, <1>6, <2>1, <2>2, <2>3 DEF Places, Waiting

\* Running an item leaves it in no place.
LEMMA RunPlaces ==
  ASSUME Typed, Places, NEW w \in Workers, Run(w)
  PROVE  Places' /\ \A x \in Jobs : Waiting(x)' <=> Waiting(x) /\ x # job[w]
<1>0. /\ job \in [Workers -> Jobs \cup {None}]
      /\ wpc \in [Workers -> {"acquire", "take", "run", "exit"}]
      /\ OnePosition /\ OneHolder /\ NotBoth /\ Busy
      /\ queues' = queues /\ wpc[w] = "run"
      /\ wpc' = [wpc EXCEPT ![w] = "acquire"] /\ job' = [job EXCEPT ![w] = None]
  BY DEF Typed, TypeOK, Places, Run
<1>1. /\ wpc'[w] # "run"
      /\ \A u \in Workers \ {w} : wpc'[u] = wpc[u] /\ job'[u] = job[u]
  BY <1>0
<1>2. \A x \in Jobs : InQueue(x)' <=> InQueue(x)
  BY <1>0 DEF InQueue
<1>3. ~InQueue(job[w])
  BY <1>0 DEF NotBoth
<1>4. \A x \in Jobs : InHand(x)' <=> InHand(x) /\ x # job[w]
  BY <1>0, <1>1 DEF InHand, OneHolder
<1>5. OnePosition'
  BY <1>0 DEF OnePosition
<1>6. OneHolder'
  BY <1>0, <1>1 DEF OneHolder
<1>7. NotBoth'
  BY <1>0, <1>1 DEF NotBoth, InQueue
<1> QED
  BY <1>2, <1>3, <1>4, <1>5, <1>6, <1>7 DEF Places, Waiting

\* Clearing the queues leaves only the items in the workers' hands.
LEMMA ClearPlaces ==
  ASSUME Typed, Places, queues' = [w \in Workers |-> <<>>], UNCHANGED working
  PROVE  /\ Places' /\ \A x \in Jobs : Waiting(x)' <=> InHand(x)
         /\ \A x \in Jobs : InHand(x) => ~InQueue(x)
<1>0. OneHolder /\ NotBoth /\ UNCHANGED <<wpc, job>>
  BY DEF Places, working
<1>1. \A w \in Workers : 1..Len(queues'[w]) = {}
  OBVIOUS
<1>2. OnePosition'
  BY <1>1 DEF OnePosition
<1>3. \A x : ~InQueue(x)'
  BY <1>1 DEF InQueue
<1>4. NotBoth'
  BY <1>0, <1>1 DEF NotBoth, InQueue
<1>5. OneHolder'
  BY <1>0 DEF OneHolder
<1>6. \A x \in Jobs : InHand(x)' <=> InHand(x)
  BY <1>0 DEF InHand
<1>7. \A x \in Jobs : InHand(x) => ~InQueue(x)
  BY <1>0 DEF InHand, NotBoth
<1> QED
  BY <1>2, <1>3, <1>4, <1>5, <1>6, <1>7 DEF Places, Waiting

\* A step that leaves the queues and the workers' items alone moves no job.
LEMMA SamePlaces ==
  ASSUME Places, UNCHANGED <<queues, job>>,
         \A w \in Workers : wpc'[w] = "run" <=> wpc[w] = "run"
  PROVE  Places' /\ \A x \in Jobs : Waiting(x)' <=> Waiting(x)
  BY DEF Places, OnePosition, OneHolder, NotBoth, Waiting, InQueue, InHand

(* The freshly built pool satisfies the inductive invariant about job ownership. *)
LEMMA InitIInv == Init => IInv
<1> SUFFICES ASSUME Init PROVE IInv
  OBVIOUS
<1>1. \A w \in Workers : 1..Len(queues[w]) = {} /\ wpc[w] = "acquire"
  BY DEF Init
<1>2. Places /\ \A x : ~Waiting(x)
  BY <1>1 DEF Places, OnePosition, OneHolder, NotBoth, Waiting, InQueue, InHand
<1>3. \A j \in Jobs : Account(j)
  BY <1>2 DEF Init, Account
<1> QED
  BY InitTyped, <1>1, <1>2, <1>3 DEF Init, IInv, Leaving, Drained

\* Steps of the submitters, the workers and the shutdown keep each job's
\* account, and keep the queue of a worker that has left empty.
LEMMA StepIInv == IInv /\ [Next]_vars => IInv'
<1> SUFFICES ASSUME IInv, [Next]_vars PROVE IInv'
  OBVIOUS
<1>0. /\ Typed /\ Typed' /\ Places /\ Leaving /\ Drained
      /\ \A x \in Jobs : Account(x)
  BY StepTyped DEF IInv
<1>t. /\ runs \in [Jobs -> Nat] /\ cancels \in [Jobs -> Nat]
      /\ spc \in [Jobs -> {"new", "primary", "companion", "failed", "done"}]
      /\ outcome \in [Jobs -> {"none", "accepted", "rejected", "overflow"}]
      /\ wpc \in [Workers -> {"acquire", "take", "run", "exit"}]
      /\ queues \in [Workers -> Seq(Jobs)]
      /\ policy \in {"Drain", "Cancel"}
  BY <1>0, PoolAssumption DEF Typed, TypeOK
<1> DEFINE Kept == Places' /\ (\A x \in Jobs : Account(x)') /\ Leaving' /\ Drained'
<1> SUFFICES Kept
  BY <1>0 DEF IInv
<1> USE DEF config, working, submitting
<1>1. CASE UNCHANGED vars
  <2>1. Places' /\ \A x \in Jobs : Waiting(x)' <=> Waiting(x)
    BY <1>0, <1>1, SamePlaces DEF vars
  <2> QED
    BY <1>0, <1>1, <2>1 DEF vars, Account, Leaving, Drained, shutting_down
<1>2. ASSUME NEW j \in Jobs, Refuse(j) \/ SubmitFails(j) PROVE Kept
  <2>1. Places' /\ \A x \in Jobs : Waiting(x)' <=> Waiting(x)
    BY <1>0, <1>2, SamePlaces DEF Refuse, SubmitFails
  <2>2. /\ spc[j] = "new" /\ spc' = [spc EXCEPT ![j] = spc'[j]] /\ spc'[j] \in {"done", "failed"}
        /\ outcome' = [outcome EXCEPT ![j] = "rejected"]
        /\ UNCHANGED <<runs, cancels, policy>>
    BY <1>2, <1>t DEF Refuse, SubmitFails
  <2>3. ASSUME NEW x \in Jobs PROVE Account(x)'
    <3>1. CASE x = j
      BY <1>0, <1>t, <2>1, <2>2, <3>1 DEF Account
    <3>2. CASE x # j
      BY Zenon, <1>0, <1>t, <2>1, <2>2, <3>2 DEF Account
    <3> QED
      BY <3>1, <3>2
  <2>4. Leaving' /\ Drained'
    BY <1>0, <1>2, <1>t DEF Refuse, SubmitFails, Leaving, Drained, shutting_down
  <2> QED
    BY <2>1, <2>3, <2>4
<1>3. ASSUME NEW j \in Jobs, Enqueue(j) PROVE Kept
  <2>1. ~Waiting(j)
    BY <1>0, <1>3 DEF Account, Enqueue
  <2>2. PICK w \in Workers : queues' = [queues EXCEPT ![w] = Append(@, j)]
    BY Zenon, <1>3 DEF Enqueue
  <2>3. Places' /\ \A x \in Jobs : Waiting(x)' <=> Waiting(x) \/ x = j
    BY ZenonT(30), <1>0, <1>3, <2>1, <2>2, EnqueuePlaces DEF Enqueue
  <2>4. ASSUME NEW x \in Jobs PROVE Account(x)'
    BY <1>0, <1>3, <1>t, <2>3 DEF Account, Enqueue
  <2>5. Leaving' /\ Drained'
    BY <1>0, <1>3 DEF Enqueue, Leaving, Drained, shutting_down
  <2> QED
    BY <2>3, <2>4, <2>5
<1>4. ASSUME NEW j \in Jobs, ReleasePrimary(j) \/ ReleaseCompanion(j) PROVE Kept
  <2>1. /\ spc[j] \in {"primary", "companion"} /\ spc' = [spc EXCEPT ![j] = spc'[j]]
        /\ outcome' = [outcome EXCEPT ![j] = outcome'[j]]
        /\ \/ spc'[j] = "companion" /\ outcome'[j] = outcome[j]
           \/ spc'[j] = "done" /\ outcome'[j] = "accepted"
           \/ spc'[j] = "failed" /\ outcome'[j] = "overflow"
        /\ UNCHANGED <<runs, cancels, policy, queues, wpc, job, shutdown>>
    BY Zenon, <1>4, <1>t DEF ReleasePrimary, ReleaseCompanion, ReleaseToken
  <2>2. Places' /\ \A x \in Jobs : Waiting(x)' <=> Waiting(x)
    BY <1>0, <2>1, SamePlaces
  <2>3. ASSUME NEW x \in Jobs PROVE Account(x)'
    <3>1. CASE x = j
      BY <1>0, <1>t, <2>1, <2>2, <3>1 DEF Account
    <3>2. CASE x # j
      BY <1>0, <1>t, <2>1, <2>2, <3>2 DEF Account
    <3> QED
      BY <3>1, <3>2
  <2>4. shutdown = "up"
    BY <1>0, <2>1 DEF Typed, Submitter
  <2>5. Leaving' /\ Drained'
    BY <1>0, <2>1, <2>4 DEF Leaving, Drained, shutting_down
  <2> QED
    BY <2>2, <2>3, <2>5
<1>5. ASSUME NEW j \in Jobs, RunRejected(j) PROVE Kept
  <2>1. Places' /\ \A x \in Jobs : Waiting(x)' <=> Waiting(x)
    BY <1>0, <1>5, SamePlaces DEF RunRejected
  <2>2. ASSUME NEW x \in Jobs PROVE Account(x)'
    <3>1. CASE x = j
      BY <1>0, <1>t, <1>5, <2>1, <3>1 DEF Account, RunRejected
    <3>2. CASE x # j
      BY <1>0, <1>t, <1>5, <2>1, <3>2 DEF Account, RunRejected
    <3> QED
      BY <3>1, <3>2
  <2>3. outcome[j] # "accepted"
    BY <1>0, <1>5 DEF Account, RunRejected
  <2>4. Leaving' /\ Drained'
    BY <1>0, <1>5, <1>t, <2>3 DEF RunRejected, Leaving, Drained, shutting_down
  <2> QED
    BY <2>1, <2>2, <2>4
<1>6. ASSUME NEW w \in Workers, Acquire(w) PROVE Kept
  <2>1. Places' /\ \A x \in Jobs : Waiting(x)' <=> Waiting(x)
    BY <1>0, <1>t, <1>6, SamePlaces DEF Acquire
  <2>2. \A x \in Jobs : Account(x)'
    BY <1>0, <1>6, <2>1 DEF Account, Acquire
  <2>3. Leaving' /\ Drained'
    BY <1>0, <1>6, <1>t DEF Acquire, Leaving, Drained, shutting_down
  <2> QED
    BY <2>1, <2>2, <2>3
<1>7. ASSUME NEW w \in Workers, Take(w) PROVE Kept
  <2>1. \A v \in Victims(w) : v \in Workers /\ queues[v] # <<>>
    BY <1>0, VictimType DEF Typed, Loaded
  <2>2. CASE \E v \in Workers : queues[v] # <<>> /\ Dequeue(w, v)
    <3>1. PICK v \in Workers : queues[v] # <<>> /\ Dequeue(w, v)
      BY <2>2
    <3>2. Places' /\ \A x \in Jobs : Waiting(x)' <=> Waiting(x)
      BY <1>0, <1>7, <3>1, DequeuePlaces DEF Take
    <3>3. \A x \in Jobs : Account(x)'
      BY <1>0, <1>7, <3>2 DEF Account, Take
    <3>4. Leaving' /\ Drained'
      BY <1>0, <1>7, <1>t, <3>1 DEF Take, Dequeue, Leaving, Drained, shutting_down
    <3> QED
      BY <3>2, <3>3, <3>4
  <2>3. CASE /\ queues[w] = <<>> /\ UNCHANGED <<queues, job>>
             /\ wpc' = [wpc EXCEPT ![w] = IF shutting_down THEN "exit" ELSE "acquire"]
    <3>1. Places' /\ \A x \in Jobs : Waiting(x)' <=> Waiting(x)
      <4>1. \A u \in Workers : wpc'[u] = "run" <=> wpc[u] = "run"
        BY <1>7, <1>t, <2>3 DEF Take
      <4> QED
        BY <1>0, <2>3, <4>1, SamePlaces
    <3>2. \A x \in Jobs : Account(x)'
      BY <1>0, <1>7, <3>1 DEF Account, Take
    <3>3. Leaving' /\ Drained'
      BY <1>0, <1>7, <1>t, <2>3 DEF Take, Leaving, Drained, shutting_down
    <3> QED
      BY <3>1, <3>2, <3>3
  <2> QED
    BY <1>7, <2>1, <2>2, <2>3 DEF Take
<1>8. ASSUME NEW w \in Workers, Run(w) PROVE Kept
  <2>1. Places' /\ \A x \in Jobs : Waiting(x)' <=> Waiting(x) /\ x # job[w]
    BY <1>0, <1>8, RunPlaces
  <2>2. job[w] \in Jobs /\ Waiting(job[w])
    BY <1>0, <1>8 DEF Typed, Busy, Run, Waiting, InHand
  <2>3. ASSUME NEW x \in Jobs PROVE Account(x)'
    <3>1. CASE x = job[w]
      BY <1>0, <1>t, <1>8, <2>1, <2>2, <3>1 DEF Account, Run
    <3>2. CASE x # job[w]
      BY <1>0, <1>t, <1>8, <2>1, <3>2 DEF Account, Run
    <3> QED
      BY <3>1, <3>2
  <2>4. Leaving'
    BY <1>0, <1>8, <1>t DEF Run, Leaving, shutting_down
  <2>5. Drained'
    <3> SUFFICES ASSUME shutdown' = "down", policy' = "Drain", NEW x \in Jobs,
                        outcome'[x] = "accepted"
                 PROVE  runs'[x] = 1
      BY DEF Drained
    <3>1. runs[x] = 1 /\ runs[x] + cancels[x] <= 1 /\ cancels[x] \in Nat
      BY <1>0, <1>t, <1>8 DEF Run, Drained, Account
    <3>2. x # job[w]
      BY <1>0, <1>t, <1>8, <2>2, <3>1 DEF Account, Run
    <3> QED
      BY <1>8, <1>t, <3>1, <3>2 DEF Run
  <2> QED
    BY <2>1, <2>3, <2>4, <2>5
<1>9. CASE TakeInner
  <2>1. Places' /\ \A x \in Jobs : Waiting(x)' <=> Waiting(x)
    BY <1>0, <1>9, SamePlaces DEF TakeInner
  <2> QED
    BY <1>0, <1>9, <2>1 DEF TakeInner, Account, Leaving, Drained, shutting_down
<1>10. CASE BeginShutdown
  <2>1. CASE policy = "Drain" /\ UNCHANGED <<queues, cancels>>
    <3>1. Places' /\ \A x \in Jobs : Waiting(x)' <=> Waiting(x)
      BY <1>0, <1>10, <2>1, SamePlaces DEF BeginShutdown
    <3> QED
      BY <1>0, <1>10, <2>1, <3>1 DEF BeginShutdown, Account, Leaving, Drained, shutting_down
  <2>2. CASE /\ policy = "Cancel" /\ queues' = [w \in Workers |-> <<>>]
             /\ cancels' = [j \in Jobs |-> IF j \in Queued THEN cancels[j] + 1 ELSE cancels[j]]
    <3>1. /\ Places' /\ \A x \in Jobs : Waiting(x)' <=> InHand(x)
          /\ \A x \in Jobs : InHand(x) => ~InQueue(x)
      BY <1>0, <1>10, <2>2, ClearPlaces DEF BeginShutdown
    <3>2. \A x \in Jobs : x \in Queued <=> InQueue(x)
      BY <1>0, QueuedIsInQueue DEF Typed
    <3>3. UNCHANGED <<policy, spc, outcome, runs, wpc>> /\ shutdown' # "down"
      BY <1>10 DEF BeginShutdown
    <3>4. ASSUME NEW x \in Jobs PROVE Account(x)'
      <4>1. CASE InQueue(x)
        <5>1. cancels'[x] = cancels[x] + 1 /\ Waiting(x) /\ ~Waiting(x)'
          BY <1>t, <2>2, <3>1, <3>2, <4>1 DEF Waiting
        <5> QED
          BY <1>0, <1>t, <2>2, <3>3, <5>1 DEF Account
      <4>2. CASE ~InQueue(x)
        <5>1. cancels'[x] = cancels[x] /\ (Waiting(x)' <=> Waiting(x))
          BY <1>t, <2>2, <3>1, <3>2, <4>2 DEF Waiting
        <5> QED
          BY <1>0, <1>t, <2>2, <3>3, <5>1 DEF Account
      <4> QED
        BY <4>1, <4>2
    <3>5. Leaving' /\ Drained'
      BY <1>0, <1>10, <2>2, <3>3 DEF BeginShutdown, Leaving, Drained, shutting_down
    <3> QED
      BY <3>1, <3>4, <3>5
  <2> QED
    BY <1>10, <2>1, <2>2 DEF BeginShutdown
<1>11. CASE Join
  <2>1. Places' /\ \A x \in Jobs : Waiting(x)' <=> InHand(x)
    BY <1>0, <1>11, ClearPlaces DEF Join
  <2>2. \A x \in Jobs : ~Waiting(x)
    BY <1>0, <1>11 DEF Join, Leaving, Waiting, InQueue, InHand
  <2>3. \A x \in Jobs : ~Waiting(x)'
    BY <2>1, <2>2 DEF Waiting
  <2>4. \A x \in Jobs : Account(x)'
    BY <1>0, <1>11, <2>2, <2>3 DEF Account, Join
  <2>5. Leaving'
    BY <1>11 DEF Join, Leaving, shutting_down
  <2>6. Drained'
    <3> SUFFICES ASSUME policy = "Drain", NEW x \in Jobs, outcome[x] = "accepted"
                 PROVE  runs[x] = 1
      BY <1>11 DEF Drained, Join
    <3>1. runs[x] \in Nat /\ cancels[x] = 0 /\ runs[x] + cancels[x] >= 1 /\ runs[x] + cancels[x] <= 1
      BY <1>0, <1>t, <2>2 DEF Account
    <3> QED
      BY <3>1
  <2> QED
    BY <2>1, <2>4, <2>5, <2>6
<1> QED
  BY <1>1, <1>2, <1>3, <1>4, <1>5, <1>6, <1>7, <1>8, <1>9, <1>10, <1>11
  DEF Next, SubmitStep, WorkerStep, ShutdownStep

\* Every closure is consumed at most once, whatever the interleaving of
\* workers, thieves, submitters and shutdown.
THEOREM Consumption == Spec => []ConsumedOnce
<1>1. IInv => ConsumedOnce
  BY DEF IInv, Account, ConsumedOnce
<1> QED
  BY InitIInv, StepIInv, <1>1, PTL DEF Spec

\* A draining shutdown that returns has run every accepted job.
THEOREM Draining == Spec => []Drained
<1>1. IInv => Drained
  BY DEF IInv
<1> QED
  BY InitIInv, StepIInv, <1>1, PTL DEF Spec
-----------------------------------------------------------------------------
\* The queue lock's capacity check, and the tokens behind every queue.
Capacity == Cardinality(Queued) <= QueueItems
TInv == IInv /\ Capacity /\ TokensCover

\* One worker's queue is no longer than the whole.
LEMMA QueueWithinQueued ==
  ASSUME Typed, Places, NEW w \in Workers
  PROVE  Len(queues[w]) <= Cardinality(Queued)
<1>1. IsFiniteSet(Queued) /\ queues[w] \in Seq(Jobs)
  <2>1. Queued \subseteq Jobs
    BY DEF Queued
  <2> QED
    BY <2>1, FS_Subset, PoolAssumption DEF Typed, TypeOK
<1>2. queues[w] \in Injection(1..Len(queues[w]), Queued)
  <2>1. queues[w] \in [1..Len(queues[w]) -> Queued]
    BY <1>1 DEF Queued
  <2>2. \A i, k \in 1..Len(queues[w]) : queues[w][i] = queues[w][k] => i = k
    BY DEF Places, OnePosition
  <2> QED
    BY <2>1, <2>2 DEF Injection, IsInjective
<1>3. Cardinality(1..Len(queues[w])) <= Cardinality(Queued)
  BY Zenon, <1>1, <1>2, FS_Injection
<1>4. Len(queues[w]) \in Nat
  BY <1>1
<1>5. Cardinality(1..Len(queues[w])) = Len(queues[w])
  BY <1>4, FS_Interval
<1> QED
  BY <1>3, <1>5

\* Dropping items keeps the queue within its capacity.
LEMMA FewerQueued ==
  ASSUME TypeOK, Capacity, Queued' \subseteq Queued PROVE Capacity'
<1>1. IsFiniteSet(Queued)
  BY Zenon, FS_Subset, PoolAssumption DEF Queued
<1>2. IsFiniteSet(Queued') /\ Cardinality(Queued') <= Cardinality(Queued)
  BY <1>1, FS_Subset
<1>3. Cardinality(Queued) \in Nat /\ Cardinality(Queued') \in Nat
  BY <1>1, <1>2, FS_CardinalityType
<1> QED
  BY <1>2, <1>3, PoolAssumption DEF Capacity

(* The freshly built pool satisfies the inductive invariant about wake-up tokens. *)
LEMMA InitTInv == Init => TInv
<1> SUFFICES ASSUME Init PROVE TInv
  OBVIOUS
<1>1. Queued = {}
  BY DEF Init, Queued
<1>2. Capacity
  BY <1>1, FS_EmptySet, PoolAssumption DEF Capacity
<1>3. TokensCover
  BY DEF Init, TokensCover, Holds, InFlight
<1> QED
  BY <1>2, <1>3, InitIInv DEF TInv

\* Enqueuing respects the capacity it has just checked.
LEMMA EnqueueCapacity ==
  ASSUME TypeOK, NEW j \in Jobs, Enqueue(j) PROVE Capacity'
<1>1. PICK w \in Workers : queues' = [queues EXCEPT ![w] = Append(@, j)]
  BY Zenon DEF Enqueue
<1>2. /\ queues[w] \in Seq(Jobs) /\ queues'[w] = Append(queues[w], j)
      /\ \A v \in Workers \ {w} : queues'[v] = queues[v]
      /\ \A v \in Workers : queues[v] \in Seq(Jobs)
  BY <1>1 DEF TypeOK
<1>3. Queued' \subseteq Queued \cup {j}
  <2> SUFFICES ASSUME NEW x \in Jobs, NEW v \in Workers, NEW i \in DOMAIN queues'[v],
                      queues'[v][i] = x
               PROVE  x \in Queued \cup {j}
    BY DEF Queued
  <2>1. CASE v = w
    <3>1. Len(queues[w]) \in Nat /\ DOMAIN queues[w] = 1..Len(queues[w])
          /\ (i \in 1..Len(queues[w]) \/ i = Len(queues[w]) + 1)
      BY <1>2, <2>1
    <3>2. CASE i \in 1..Len(queues[w])
      BY <1>2, <2>1, <3>1, <3>2, AppendFacts DEF Queued
    <3>3. CASE i = Len(queues[w]) + 1
      BY <1>2, <2>1, <3>1, <3>3, AppendFacts
    <3> QED
      BY <3>1, <3>2, <3>3
  <2>2. CASE v # w
    BY <1>2, <2>2 DEF Queued
  <2> QED
    BY <2>1, <2>2
<1>4. IsFiniteSet(Queued)
  BY FS_Subset, PoolAssumption DEF Queued
<1>5. /\ IsFiniteSet(Queued \cup {j})
      /\ Cardinality(Queued \cup {j}) = IF j \in Queued THEN Cardinality(Queued)
                                         ELSE Cardinality(Queued) + 1
  BY <1>4, FS_AddElement
<1>6. IsFiniteSet(Queued') /\ Cardinality(Queued') <= Cardinality(Queued \cup {j})
  BY <1>3, <1>5, FS_Subset
<1>7. Cardinality(Queued) \in Nat /\ Cardinality(Queued') \in Nat
  BY <1>4, <1>6, FS_CardinalityType
<1>8. Cardinality(Queued) < QueueItems
  BY DEF Enqueue
<1> QED
  BY <1>5, <1>6, <1>7, <1>8, PoolAssumption DEF Capacity

\* Each step keeps a token behind each queued item.
LEMMA StepTInv == TInv /\ [Next]_vars => TInv'
<1> SUFFICES ASSUME TInv, [Next]_vars PROVE TInv'
  OBVIOUS
<1>0. IInv /\ IInv' /\ Typed /\ TypeOK /\ Places /\ Capacity /\ TokensCover
  BY StepIInv DEF TInv, IInv, Typed
<1>t. /\ tokens \in [Workers -> 0..TokenMax] /\ TokenMax \in Nat
      /\ wpc \in [Workers -> {"acquire", "take", "run", "exit"}]
      /\ queues \in [Workers -> Seq(Jobs)] /\ \A v \in Workers : Len(queues[v]) \in Nat
      /\ spc \in [Jobs -> {"new", "primary", "companion", "failed", "done"}]
      /\ target \in [Jobs -> Workers \cup {None}]
  BY <1>0, TokenBound DEF TypeOK
<1> DEFINE Kept == Capacity' /\ TokensCover'
<1> SUFFICES Kept
  BY <1>0 DEF TInv
<1> USE DEF config, working, submitting
<1>c. ASSUME UNCHANGED queues PROVE Capacity'
  BY <1>0, <1>c DEF Capacity, Queued
<1>1. CASE UNCHANGED vars
  <2>1. UNCHANGED <<queues, tokens, wpc, spc, target>>
    BY <1>1 DEF vars
  <2>2. \A v \in Workers : Holds(v)' = Holds(v) /\ InFlight(v)' = InFlight(v)
    BY <2>1 DEF Holds, InFlight
  <2>3. TokensCover'
    BY <1>0, <2>1, <2>2 DEF TokensCover
  <2> QED
    BY <1>c, <2>1, <2>3
<1>2. ASSUME NEW j \in Jobs, Refuse(j) \/ SubmitFails(j) \/ RunRejected(j) PROVE Kept
  <2>1. /\ \A x \in Jobs : spc'[x] = "primary" <=> spc[x] = "primary"
        /\ UNCHANGED <<queues, tokens, wpc, target>>
    BY <1>2, <1>t DEF Refuse, SubmitFails, RunRejected
  <2> QED
    BY <1>0, <1>c, <2>1 DEF TokensCover, Holds, InFlight
<1>3. ASSUME NEW j \in Jobs, Enqueue(j) PROVE Kept
  <2>1. PICK w \in Workers : /\ queues' = [queues EXCEPT ![w] = Append(@, j)]
                             /\ target' = [target EXCEPT ![j] = w]
    BY ZenonT(30), <1>3 DEF Enqueue
  <2>2. UNCHANGED <<tokens, wpc>> /\ spc'[j] = "primary" /\ target'[j] = w
    BY <1>3, <1>t, <2>1 DEF Enqueue
  <2>3. \A v \in Workers : InFlight(v) = 0 /\ InFlight(v)' \in {0, 1}
    BY <1>3 DEF Enqueue, InnerFree, InFlight
  <2>4. InFlight(w)' = 1
    BY <2>2 DEF InFlight
  <2>5. /\ Len(queues'[w]) = Len(queues[w]) + 1
        /\ \A v \in Workers \ {w} : queues'[v] = queues[v]
    BY <1>t, <2>1, AppendFacts
  <2>6. \A v \in Workers : Holds(v)' = Holds(v) /\ Holds(v) \in {0, 1}
    BY <2>2 DEF Holds
  <2>7. ASSUME NEW v \in Workers
        PROVE  Len(queues'[v]) <= tokens'[v] + Holds(v)' + InFlight(v)'
    <3>1. /\ Len(queues[v]) <= tokens[v] + Holds(v) + InFlight(v)
          /\ tokens[v] \in Nat /\ tokens'[v] = tokens[v] /\ Len(queues[v]) \in Nat
      BY <1>0, <1>t, <2>2 DEF TokensCover
    <3> QED
      BY <2>3, <2>4, <2>5, <2>6, <3>1
  <2>8. TokensCover'
    BY <2>7 DEF TokensCover
  <2> QED
    BY <1>0, <1>3, <2>8, EnqueueCapacity
<1>4. ASSUME NEW j \in Jobs, ReleasePrimary(j) PROVE Kept
  <2> DEFINE w == target[j]
  <2>1. w \in Workers /\ spc[j] = "primary"
    BY <1>0, <1>4 DEF Typed, Submitter, ReleasePrimary
  <2>2. /\ UNCHANGED <<queues, wpc, target>> /\ spc'[j] # "primary"
        /\ \A x \in Jobs \ {j} : spc'[x] = spc[x]
        /\ \/ tokens' = [tokens EXCEPT ![w] = @ + 1]
           \/ tokens[w] = TokenMax /\ tokens' = tokens
    BY <1>4, <1>t DEF ReleasePrimary, ReleaseToken
  <2>3. \A x \in Jobs : spc'[x] # "primary"
    BY <1>0, <2>1, <2>2 DEF Typed, Submitter
  <2>4. \A v \in Workers : InFlight(v)' = 0
    BY <2>3 DEF InFlight
  <2>5. InFlight(w) = 1 /\ \A v \in Workers \ {w} : InFlight(v) = 0
    BY <1>0, <2>1 DEF Typed, Submitter, InFlight
  <2>6. \A v \in Workers : Holds(v)' = Holds(v) /\ Holds(v) \in {0, 1}
    BY <2>2 DEF Holds
  <2>7. Len(queues[w]) <= TokenMax
    <3>1. Len(queues[w]) <= Cardinality(Queued) /\ Cardinality(Queued) <= QueueItems
      BY <1>0, <2>1, QueueWithinQueued DEF Capacity
    <3>2. Cardinality(Queued) \in Nat
      BY FS_Subset, FS_CardinalityType, PoolAssumption DEF Queued
    <3> QED
      BY <1>t, <2>1, <3>1, <3>2, TokenBound
  <2> HIDE DEF w
  <2>8. ASSUME NEW v \in Workers
        PROVE  Len(queues'[v]) <= tokens'[v] + Holds(v)' + InFlight(v)'
    <3>1. /\ Len(queues[v]) <= tokens[v] + Holds(v) + InFlight(v)
          /\ tokens[v] \in Nat /\ queues'[v] = queues[v] /\ Len(queues[v]) \in Nat
      BY <1>0, <1>t, <2>2 DEF TokensCover
    <3>2. CASE v = w
      <4>1. tokens'[w] = tokens[w] + 1 \/ (tokens[w] = TokenMax /\ tokens'[w] = tokens[w])
        BY <1>t, <2>1, <2>2
      <4> QED
        BY <2>4, <2>5, <2>6, <2>7, <3>1, <3>2, <4>1
    <3>3. CASE v # w
      <4>1. tokens'[v] = tokens[v]
        BY <1>t, <2>1, <2>2, <3>3
      <4> QED
        BY <2>4, <2>5, <2>6, <3>1, <3>3, <4>1
    <3> QED
      BY <3>2, <3>3
  <2> QED
    BY <1>c, <2>2, <2>8 DEF TokensCover
<1>5. ASSUME NEW j \in Jobs, ReleaseCompanion(j) PROVE Kept
  <2>1. /\ UNCHANGED <<queues, wpc, target>>
        /\ \A x \in Jobs : spc'[x] = "primary" <=> spc[x] = "primary"
        /\ \/ tokens' = [tokens EXCEPT ![companion[j]] = @ + 1]
           \/ tokens' = tokens
    BY <1>5, <1>t DEF ReleaseCompanion, ReleaseToken
  <2>2. companion[j] \in Workers
    BY <1>0, <1>5 DEF Typed, Submitter, ReleaseCompanion
  <2>3. ASSUME NEW v \in Workers
        PROVE  tokens'[v] \in Nat /\ tokens[v] \in Nat /\ tokens'[v] >= tokens[v]
    <3>1. tokens[v] \in Nat /\ tokens'[v] \in {tokens[v], tokens[v] + 1}
      BY <1>t, <2>1, <2>2
    <3> QED
      BY <3>1
  <2>4. \A v \in Workers : Holds(v)' = Holds(v) /\ InFlight(v)' = InFlight(v)
                           /\ Holds(v) \in {0, 1} /\ InFlight(v) \in {0, 1}
    BY <2>1 DEF Holds, InFlight
  <2>5. ASSUME NEW v \in Workers
        PROVE  Len(queues'[v]) <= tokens'[v] + Holds(v)' + InFlight(v)'
    <3>1. /\ Len(queues[v]) <= tokens[v] + Holds(v) + InFlight(v)
          /\ queues'[v] = queues[v] /\ Len(queues[v]) \in Nat
      BY <1>0, <1>t, <2>1 DEF TokensCover
    <3> QED
      BY <2>3, <2>4, <3>1
  <2> QED
    BY <1>c, <2>1, <2>5 DEF TokensCover
<1>6. ASSUME NEW w \in Workers, Acquire(w) PROVE Kept
  <2>1. /\ UNCHANGED <<queues, target, spc>>
        /\ tokens'[w] = tokens[w] - 1 /\ wpc[w] = "acquire" /\ wpc'[w] = "take"
        /\ \A v \in Workers \ {w} : tokens'[v] = tokens[v] /\ wpc'[v] = wpc[v]
    BY <1>6, <1>t DEF Acquire
  <2>2. \A v \in Workers : InFlight(v)' = InFlight(v) /\ InFlight(v) \in {0, 1}
    BY <2>1 DEF InFlight
  <2>3. /\ Holds(w) = 0 /\ Holds(w)' = 1
        /\ \A v \in Workers \ {w} : Holds(v)' = Holds(v) /\ Holds(v) \in {0, 1}
    BY <2>1 DEF Holds
  <2>4. ASSUME NEW v \in Workers
        PROVE  Len(queues'[v]) <= tokens'[v] + Holds(v)' + InFlight(v)'
    <3>1. /\ Len(queues[v]) <= tokens[v] + Holds(v) + InFlight(v)
          /\ tokens[v] \in Nat /\ queues'[v] = queues[v] /\ Len(queues[v]) \in Nat
      BY <1>0, <1>t, <2>1 DEF TokensCover
    <3> QED
      BY <2>1, <2>2, <2>3, <3>1
  <2> QED
    BY <1>c, <2>1, <2>4 DEF TokensCover
<1>7. ASSUME NEW w \in Workers, Take(w) PROVE Kept
  <2>1. /\ UNCHANGED <<target, spc, tokens>> /\ wpc[w] = "take"
    BY <1>7 DEF Take
  <2>2. \A v \in Workers : InFlight(v)' = InFlight(v) /\ InFlight(v) \in {0, 1}
    BY <2>1 DEF InFlight
  <2>3. \A v \in Victims(w) : v \in Workers \ {w} /\ queues[v] # <<>>
    BY <1>0, VictimType DEF Loaded
  <2>4. CASE \E v \in Workers : /\ queues[v] # <<>> /\ Dequeue(w, v)
                                /\ v = w \/ queues[w] = <<>>
    <3>1. PICK v \in Workers : /\ queues[v] # <<>> /\ Dequeue(w, v)
                               /\ v = w \/ queues[w] = <<>>
      BY <2>4
    <3>2. /\ Len(queues'[v]) = Len(queues[v]) - 1
          /\ \A u \in Workers \ {v} : queues'[u] = queues[u]
      BY <1>t, <3>1, TailFacts DEF Dequeue
    <3>3. /\ Holds(w) = 1 /\ Holds(w)' = 0
          /\ \A u \in Workers \ {w} : Holds(u)' = Holds(u) /\ Holds(u) \in {0, 1}
      BY <1>t, <2>1, <3>1 DEF Holds, Dequeue
    <3>4. ASSUME NEW u \in Workers
          PROVE  Len(queues'[u]) <= tokens'[u] + Holds(u)' + InFlight(u)'
      <4>1. /\ Len(queues[u]) <= tokens[u] + Holds(u) + InFlight(u)
            /\ tokens[u] \in Nat /\ tokens'[u] = tokens[u] /\ Len(queues[u]) \in Nat
        BY <1>0, <1>t, <2>1 DEF TokensCover
      <4>2. CASE u = w
        <5>1. CASE v = w
          BY <2>2, <3>2, <3>3, <4>1, <4>2, <5>1
        <5>2. CASE v # w
          <6>1. Len(queues'[w]) = 0
            BY <3>1, <3>2, <5>2
          <6> QED
            BY <2>2, <3>3, <4>1, <4>2, <6>1
        <5> QED
          BY <5>1, <5>2
      <4>3. CASE u # w
        BY <2>2, <3>2, <3>3, <4>1, <4>3
      <4> QED
        BY <4>2, <4>3
    <3>5. Queued' \subseteq Queued
      <4> SUFFICES ASSUME NEW x \in Jobs, NEW u \in Workers, NEW i \in DOMAIN queues'[u],
                          queues'[u][i] = x
                   PROVE  x \in Queued
        BY DEF Queued
      <4>1. CASE u = v
        <5>1. queues[v] \in Seq(Jobs) /\ queues'[v] = Tail(queues[v])
          BY <1>t, <3>1 DEF Dequeue
        <5>2. /\ Len(queues[v]) \in Nat \ {0}
              /\ i \in 1..(Len(queues[v]) - 1) /\ queues'[v][i] = queues[v][i + 1]
          BY <3>1, <3>2, <4>1, <5>1, TailFacts
        <5>3. i + 1 \in DOMAIN queues[v]
          BY <5>1, <5>2
        <5> QED
          BY <4>1, <5>2, <5>3 DEF Queued
      <4>2. CASE u # v
        BY <3>2, <4>2 DEF Queued
      <4> QED
        BY <4>1, <4>2
    <3> QED
      BY <1>0, <3>4, <3>5, FewerQueued DEF TokensCover
  <2>5. CASE /\ queues[w] = <<>> /\ UNCHANGED <<queues, job>>
             /\ wpc' = [wpc EXCEPT ![w] = IF shutting_down THEN "exit" ELSE "acquire"]
    <3>1. \A u \in Workers \ {w} : Holds(u)' = Holds(u) /\ Holds(u) \in {0, 1}
      BY <1>t, <2>5 DEF Holds
    <3>2. Holds(w)' \in {0, 1}
      BY DEF Holds
    <3>3. ASSUME NEW u \in Workers
          PROVE  Len(queues'[u]) <= tokens'[u] + Holds(u)' + InFlight(u)'
      <4>1. /\ Len(queues[u]) <= tokens[u] + Holds(u) + InFlight(u)
            /\ tokens[u] \in Nat /\ tokens'[u] = tokens[u] /\ queues'[u] = queues[u]
        BY <1>0, <1>t, <2>1, <2>5 DEF TokensCover
      <4>2. CASE u = w
        <5>1. Len(queues'[w]) = 0
          BY <2>5
        <5> QED
          BY <2>2, <3>2, <4>1, <4>2, <5>1
      <4>3. CASE u # w
        BY <2>2, <3>1, <4>1, <4>3
      <4> QED
        BY <4>2, <4>3
    <3> QED
      BY <1>c, <2>5, <3>3 DEF TokensCover
  <2> QED
    BY <1>7, <2>3, <2>4, <2>5 DEF Take
<1>8. ASSUME NEW w \in Workers, Run(w) PROVE Kept
  <2>1. /\ UNCHANGED <<queues, tokens, target, spc>>
        /\ \A v \in Workers : wpc'[v] = "take" <=> wpc[v] = "take"
    BY <1>8, <1>t DEF Run
  <2> QED
    BY <1>0, <1>c, <2>1 DEF TokensCover, Holds, InFlight
<1>9. CASE TakeInner
  BY <1>0, <1>9, <1>c DEF TakeInner, TokensCover, Holds, InFlight
<1>10. CASE BeginShutdown
  <2>1. /\ UNCHANGED <<wpc, spc, target>>
        /\ \A v \in Workers : tokens'[v] >= tokens[v] /\ tokens'[v] \in Nat
    <3>1. PICK woken \in SUBSET Workers :
             tokens' = [v \in Workers |-> IF v \in woken THEN tokens[v] + 1 ELSE tokens[v]]
      BY Zenon, <1>10 DEF BeginShutdown
    <3>2. UNCHANGED <<wpc, spc, target>>
      BY <1>10 DEF BeginShutdown
    <3> QED
      BY <1>t, <3>1, <3>2
  <2>2. \A v \in Workers : /\ Holds(v)' = Holds(v) /\ InFlight(v)' = InFlight(v)
                           /\ Holds(v) \in {0, 1} /\ InFlight(v) \in {0, 1}
    BY <2>1 DEF Holds, InFlight
  <2>3. CASE UNCHANGED queues
    <3>1. ASSUME NEW v \in Workers
          PROVE  Len(queues'[v]) <= tokens'[v] + Holds(v)' + InFlight(v)'
      <4>1. /\ Len(queues[v]) <= tokens[v] + Holds(v) + InFlight(v)
            /\ tokens[v] \in Nat /\ queues'[v] = queues[v] /\ Len(queues[v]) \in Nat
        BY <1>0, <1>t, <2>3 DEF TokensCover
      <4>2. tokens'[v] >= tokens[v] /\ tokens'[v] \in Nat
        BY <2>1
      <4>3. /\ Holds(v)' = Holds(v) /\ InFlight(v)' = InFlight(v)
            /\ Holds(v) \in Nat /\ InFlight(v) \in Nat
        BY <2>2
      <4>4. tokens[v] + Holds(v) + InFlight(v) <= tokens'[v] + Holds(v) + InFlight(v)
        BY <4>1, <4>2, <4>3
      <4>5. Len(queues[v]) <= tokens'[v] + Holds(v) + InFlight(v)
        BY <4>1, <4>2, <4>3, <4>4
      <4> QED
        BY <4>1, <4>3, <4>5
    <3> QED
      BY <1>c, <2>3, <3>1 DEF TokensCover
  <2>4. CASE queues' = [w \in Workers |-> <<>>]
    <3>1. Queued' = {} /\ \A v \in Workers : Len(queues'[v]) = 0
      BY <2>4 DEF Queued
    <3> QED
      <4>1. Capacity'
        BY <1>0, <3>1, FewerQueued
      <4>2. ASSUME NEW v \in Workers
            PROVE  0 <= tokens'[v] + Holds(v)' + InFlight(v)'
        BY <2>1, <2>2
      <4> QED
        BY <3>1, <4>1, <4>2 DEF TokensCover
  <2> QED
    BY <1>10, <2>3, <2>4 DEF BeginShutdown
<1>11. CASE Join
  <2>1. Queued' = {} /\ \A v \in Workers : Len(queues'[v]) = 0 /\ tokens'[v] = 0
    BY <1>11 DEF Join, Queued
  <2>2. \A v \in Workers : Holds(v)' \in {0, 1} /\ InFlight(v)' \in {0, 1}
    BY DEF Holds, InFlight
  <2> QED
    BY <1>0, <2>1, <2>2, FewerQueued DEF TokensCover
<1> QED
  BY <1>1, <1>2, <1>3, <1>4, <1>5, <1>6, <1>7, <1>8, <1>9, <1>10, <1>11
  DEF Next, SubmitStep, WorkerStep, ShutdownStep

\* No queued item is ever without a token for the worker that owns it, even
\* when token releases overflow.
THEOREM Covered == Spec => []TokensCover
<1>1. TInv => TokensCover
  BY DEF TInv
<1> QED
  BY InitTInv, StepTInv, <1>1, PTL DEF Spec
=============================================================================
