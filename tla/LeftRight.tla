------------------------------ MODULE LeftRight ------------------------------
(***************************************************************************)
(* LeftRight of fusion-sys: two replicas, an atomic selector, one counter  *)
(* per reader slot.  `update` and `replace` run under the writer mutex, so *)
(* one writer at a time walks stage / publish / scan / unlock; readers run *)
(* begin / load selector / read / finish.  A counter's parity is all that  *)
(* is ever looked at.                                                      *)
(*                                                                         *)
(* The selector is stored with Release and the counters are then loaded    *)
(* with Acquire, which leaves the store free to be delayed past the loads  *)
(* (x86 does so): it stays `pending` in the writer's store buffer until it *)
(* drains, at the latest at the locked exchange of the mutex unlock.  The  *)
(* history variable `late` says whether a load has ever overtaken it.      *)
(***************************************************************************)
EXTENDS Naturals

CONSTANTS READERS,      \* number of reader slots
          Updates,      \* bound on update / replace calls
          Reads         \* bound on the reads through each slot

ASSUME ReadersAssumption == READERS \in Nat
ASSUME BoundsAssumption == Updates \in Nat /\ Reads \in Nat

VARIABLES active_side,  \* the selector, as other threads see it
          pending,      \* the writer's flip of the selector has not drained
          late,         \* a counter was loaded while the flip was pending
          replica,      \* side -> version of the table it holds
          wpc, scan,    \* the writer's position; the slot it inspects next
          updates,      \* updates started
          rpc, ptr,     \* each reader's position and the side its guard names
          reads_left    \* reads a slot may still start

writer == <<wpc, scan, updates>>
reader == <<rpc, ptr, reads_left>>
table_vars == <<active_side, pending, late, replica, writer, reader>>

Sides == {0, 1}
Slots == 1..READERS
alternate_side(s) == 1 - s

TableInit == /\ active_side = 0 /\ pending = FALSE /\ late = FALSE
             /\ replica = [s \in Sides |-> 0]
             /\ wpc = "idle" /\ scan = 1 /\ updates = 0
             /\ rpc = [r \in Slots |-> "idle"]
             /\ ptr = [r \in Slots |-> 0]
             /\ reads_left = [r \in Slots |-> Reads]

\* The selector as the writing thread reads it back.
OwnSide == IF pending THEN alternate_side(active_side) ELSE active_side
Inactive == alternate_side(OwnSide)

\* update / replace: the writer mutex is taken and the inactive replica chosen.
LockWriter ==
  /\ wpc = "idle" /\ updates < Updates
  /\ wpc' = "stage" /\ updates' = updates + 1
  /\ UNCHANGED <<active_side, pending, late, replica, scan, reader>>

\* clone_from the active replica and apply the change, all in place.
Stage ==
  /\ wpc = "stage"
  /\ replica' = [replica EXCEPT ![Inactive] = replica[OwnSide] + 1]
  /\ wpc' = "publish"
  /\ UNCHANGED <<active_side, pending, late, scan, updates, reader>>

\* active_side.store(inactive_side, Release).
Publish ==
  /\ wpc = "publish"
  /\ pending' = TRUE
  /\ wpc' = "scan" /\ scan' = 1
  /\ UNCHANGED <<active_side, late, replica, updates, reader>>

\* The delayed store reaches the other threads.
Drain ==
  /\ pending
  /\ active_side' = OwnSide /\ pending' = FALSE
  /\ UNCHANGED <<late, replica, writer, reader>>

\* is_quiescent: the counter is odd from begin to finish.
Quiescent(r) == rpc[r] = "idle"

\* Mutant: a busy slot is skipped instead of restarting the scan.
ScanSlot_Skips ==
  /\ wpc = "scan" /\ scan \in Slots
  /\ scan' = scan + 1
  /\ late' = (late \/ pending)
  /\ UNCHANGED <<active_side, pending, replica, wpc, updates, reader>>

\* wait_for_quiescence: one is_quiescent load; a live slot restarts the scan.
ScanSlot ==
  /\ wpc = "scan" /\ scan \in Slots
  /\ scan' = IF Quiescent(scan) THEN scan + 1 ELSE 1
  /\ late' = (late \/ pending)
  /\ UNCHANGED <<active_side, pending, replica, wpc, updates, reader>>

\* Every slot was seen quiescent: the guard of the writer mutex is dropped.
UnlockWriter ==
  /\ wpc = "scan" /\ scan = READERS + 1
  /\ wpc' = "idle"
  /\ active_side' = OwnSide /\ pending' = FALSE
  /\ UNCHANGED <<late, replica, scan, updates, reader>>

\* read: counter.begin() flips the slot to odd.
ReadBegin(r) ==
  /\ rpc[r] = "idle" /\ reads_left[r] > 0
  /\ rpc' = [rpc EXCEPT ![r] = "begun"]
  /\ reads_left' = [reads_left EXCEPT ![r] = @ - 1]
  /\ UNCHANGED <<active_side, pending, late, replica, writer, ptr>>

\* read: the selector is loaded and the guard handed out.
ReadSelect(r) ==
  /\ rpc[r] = "begun"
  /\ ptr' = [ptr EXCEPT ![r] = active_side]
  /\ rpc' = [rpc EXCEPT ![r] = "reading"]
  /\ UNCHANGED <<active_side, pending, late, replica, writer, reads_left>>

\* Mutant: finish adds two, which leaves the counter odd.
ReadFinish_StaysOdd(r) ==
  /\ rpc[r] = "reading"
  /\ rpc' = [rpc EXCEPT ![r] = "begun"]
  /\ UNCHANGED <<active_side, pending, late, replica, writer, ptr, reads_left>>

\* Drop of the guard: counter.finish() flips the slot back to even.
ReadFinish(r) ==
  /\ rpc[r] = "reading"
  /\ rpc' = [rpc EXCEPT ![r] = "idle"]
  /\ UNCHANGED <<active_side, pending, late, replica, writer, ptr, reads_left>>

WriterStep == LockWriter \/ Stage \/ Publish \/ ScanSlot \/ UnlockWriter
ReaderStep(r) == ReadBegin(r) \/ ReadSelect(r) \/ ReadFinish(r)

TableNext == WriterStep \/ Drain \/ \E r \in Slots : ReaderStep(r)

\* Threads are scheduled, guards are dropped, and a store buffer drains.
TableFairness == /\ WF_table_vars(WriterStep) /\ WF_table_vars(Drain)
                 /\ \A r \in Slots : WF_table_vars(ReaderStep(r))

TableSpec == TableInit /\ [][TableNext]_table_vars /\ TableFairness
-----------------------------------------------------------------------------
\* Type correctness of selector, replicas, positions and the scan index.
TableTypeOK == /\ active_side \in Sides /\ pending \in BOOLEAN /\ late \in BOOLEAN
               /\ replica \in [Sides -> Nat]
               /\ wpc \in {"idle", "stage", "publish", "scan"}
               /\ scan \in 1..(READERS + 1) /\ updates \in Nat
               /\ rpc \in [Slots -> {"idle", "begun", "reading"}]
               /\ ptr \in [Slots -> Sides]
               /\ reads_left \in [Slots -> Nat]

\* "the writer does not recycle the previously active replica until every
\* slot is quiescent": no live guard names the replica being staged.
GuardNotRecycled ==
  wpc = "stage" => \A r \in Slots : rpc[r] = "reading" => ptr[r] # Inactive

\* The same, as long as no counter load of wait_for_quiescence has overtaken
\* the selector store before it.
GuardNotRecycledInOrder == ~late => GuardNotRecycled

\* What a guard dereferences never changes under it, as long as no counter
\* load has overtaken a selector store.
GuardStable ==
  [][~late => \A r \in Slots : rpc[r] = "reading" =>
        replica'[ptr[r]] = replica[ptr[r]]]_table_vars

\* No update is lost, delayed store or not: each one builds on the replica the previous one
\* published, and an idle table shows all of them.
UpdatesAccumulate == wpc = "idle" => replica[OwnSide] = updates

\* Once readers stop arriving, every update / replace call returns.
EveryUpdateReturns == <>[](wpc = "idle" /\ updates = Updates)
=============================================================================
