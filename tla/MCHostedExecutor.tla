--------------------------- MODULE MCHostedExecutor ---------------------------
(***************************************************************************)
(* HostedExecutor for TLC: its workloads; the dispatchers are symmetric.   *)
(***************************************************************************)
EXTENDS HostedExecutor, TLC

CONSTANTS s1, s2

Crowded == [workers |-> 1, dispatches |-> 4, shutdown |-> TRUE, slots |-> 1,
            sources |-> <<{}>>, waits |-> 0, generations |-> 0, time |-> 0, full |-> FALSE]
Spread  == [Crowded EXCEPT !.workers = 2, !.dispatches = 3, !.shutdown = FALSE]
Ending  == [Crowded EXCEPT !.workers = 2, !.dispatches = 2]
Waiting == [Crowded EXCEPT !.dispatches = 0, !.shutdown = FALSE]
\* One task that waits twice: for two sources, or for a source and a timer.
Sources  == [Waiting EXCEPT !.sources = <<{s1, s2}>>, !.waits = 2, !.generations = 1]
Timed    == [Waiting EXCEPT !.sources = <<{s1}>>, !.waits = 2, !.generations = 1, !.time = 1,
                            !.full = TRUE]
\* Two tasks with one source, a task with a source beside one with timers, a slot
\* used again, and the end of the executor with a wait for a source or a timer.
Sharing  == [Waiting EXCEPT !.slots = 2, !.sources = <<{s1}, {s1}>>, !.waits = 1, !.generations = 1]
Mixed    == [Sharing EXCEPT !.sources = <<{s1}, {}>>, !.time = 1]
Again    == [Waiting EXCEPT !.sources = <<{s1}>>, !.waits = 1, !.generations = 2, !.full = TRUE]
Stopping == [Waiting EXCEPT !.sources = <<{s1}>>, !.waits = 1, !.generations = 1, !.shutdown = TRUE]
Dozing   == [Stopping EXCEPT !.sources = <<{}>>, !.time = 1]
MCWorkloads == {Crowded, Spread, Ending, Sources, Timed, Sharing, Mixed, Again,
                Stopping, Dozing}
DispatcherSymmetry == Permutations(Dispatchers)
=============================================================================
