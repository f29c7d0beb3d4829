---------------------------- MODULE HostedExecutor ----------------------------
(***************************************************************************)
(* An executor on hosted threads: the scheduler that dispatches its jobs,  *)
(* the reactor that answers its waits, and the shutdown they share.  The   *)
(* flag stops both; the waits are cleared and the driver is joined after   *)
(* the scheduler's jobs have drained.                                      *)
(***************************************************************************)
EXTENDS HostedScheduler, ReactorDriver

ExecInit == Init /\ RInit /\ worker_count = bound.workers

\* A workload says how many dispatches there are, whether it shuts down, and how
\* many tasks there are for the reactor.
SchedulerNext ==
  /\ Next
  /\ Cardinality({d \in Dispatchers : dpc'[d] # "begin"}) <= bound.dispatches
  /\ spc' # spc => bound.shutdown
  /\ UNCHANGED reactor_vars

ReactorNext == bound.generations > 0 /\ UNCHANGED vars /\ RNext

ExecNext == SchedulerNext \/ ReactorNext
ExecSpec == ExecInit /\ [][ExecNext]_<<vars, reactor_vars>>
=============================================================================
