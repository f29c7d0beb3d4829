----------------------------- MODULE MCAsyncTask -----------------------------
(***************************************************************************)
(* AsyncTask for TLC: two workers with one pending poll and an abort, and  *)
(* one worker with two pending polls, panics and a refused dispatch.  The  *)
(* workers are interchangeable.                                            *)
(***************************************************************************)
EXTENDS AsyncTask, TLC

VARIABLE bound

Wide == [workers |-> 2, polls |-> 1, refusals |-> 0, abort |-> TRUE, panic |-> FALSE]
Long == [workers |-> 1, polls |-> 2, refusals |-> 1, abort |-> FALSE, panic |-> TRUE]

MCInit == Init /\ bound \in {Wide, Long}
MCNext == /\ Next
          /\ polled' <= bound.polls /\ refused' <= bound.refusals
          /\ cause'[Owner] = "Cancelled" => bound.abort
          /\ (\E t \in Workers : cause'[t] = "TaskPanicked") => bound.panic
          /\ Cardinality({w \in Workers : pc'[w] # "idle"}) <= bound.workers
          /\ UNCHANGED bound
MCSpec == MCInit /\ [][MCNext]_<<vars, bound>>

WorkerSymmetry == Permutations(Workers)
=============================================================================
