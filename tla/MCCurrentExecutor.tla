-------------------------- MODULE MCCurrentExecutor --------------------------
(***************************************************************************)
(* The workloads TLC looks at.                                             *)
(***************************************************************************)
EXTENDS CurrentExecutor

CONSTANTS s1, s2

\* Polls nested through join: with a source and a timer, or with slots used again.
Nested  == [depth |-> 2, sources |-> {s1}, generations |-> 1, clones |-> 1, time |-> 1]
Again   == [Nested EXCEPT !.generations = 2, !.clones = 0, !.time = 0]
\* Two sources for a poll that reports one, and timers at two instants.
Sources == [depth |-> 1, sources |-> {s1, s2}, generations |-> 1, clones |-> 0, time |-> 2]
\* Slots used three times, and no reactor.
Reuse   == [depth |-> 1, sources |-> {}, generations |-> 3, clones |-> 2, time |-> 0]
MCWorkloads == {Nested, Again, Sources, Reuse}
=============================================================================
