----------------------------- MODULE MCGreenPool -----------------------------
(***************************************************************************)
(* The pools TLC looks at.  Each has the features whose interplay it is    *)
(* about and the bounds that let that interplay happen.                    *)
(***************************************************************************)
EXTENDS GreenPool

CONSTANTS k1, k2, k3

MC_class_capacity == [class \in Classes |-> 1]

\* Three handles of one task: joins, withdrawals, drops against finish_task.
Joins    == [driver |-> "CarrierPool", lanes |-> {0}, stealing |-> FALSE, reactor |-> FALSE,
             sink |-> FALSE, spawners |-> {k1}, joiners |-> {k1, k2, k3}, spawns |-> 1,
             turns |-> 0, stops |-> FALSE, execution |-> {"Fiber"}]
\* A slot, its semaphore and a stack used again by a second task.
Reuse    == [Joins EXCEPT !.joiners = {k1, k2}, !.spawns = 2]
\* Two threads spawn at once.
Crowd    == [Joins EXCEPT !.spawners = {k1, k2}, !.joiners = {}, !.spawns = 2,
                          !.execution = {"Fiber", "Inline"}]
\* Two carriers steal tasks that also yield; the same with a shutdown.
Stealing == [Joins EXCEPT !.lanes = {0, 1}, !.joiners = {}, !.stealing = TRUE,
                          !.spawns = 2, !.turns = 1]
Stopped  == [Stealing EXCEPT !.stops = TRUE, !.spawns = 1]
\* Tasks park on the carrier's reactor, with a shutdown; or are stolen again.
Reactor  == [Joins EXCEPT !.joiners = {k1}, !.reactor = TRUE, !.spawns = 2, !.turns = 1,
                          !.stops = TRUE]
Roaming  == [Stealing EXCEPT !.reactor = TRUE, !.spawns = 1]
\* The pool of the current thread, with a ledger that refuses some fibers.
Current  == [Joins EXCEPT !.driver = "CurrentThread", !.sink = TRUE, !.joiners = {k2},
                          !.spawns = 3, !.turns = 1, !.stops = TRUE,
                          !.execution = {"Fiber", "Inline"}]
\* Carriers under the same ledger: they may be faster than the registration.
Supervised == [Stealing EXCEPT !.sink = TRUE, !.spawns = 1]
Overseen   == [Reactor EXCEPT !.sink = TRUE, !.joiners = {}, !.stops = FALSE]
MCConfigs == {Joins, Reuse, Crowd, Stealing, Stopped, Reactor, Roaming, Current,
              Supervised, Overseen}
=============================================================================
