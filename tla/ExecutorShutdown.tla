--------------------------- MODULE ExecutorShutdown ---------------------------
(***************************************************************************)
(* What the scheduler and the reactor of an executor share: the flag of    *)
(* ExecutorCore and how far ExecutorCore::shutdown has come.               *)
(***************************************************************************)
CONSTANT None

VARIABLES shutdown_requested, \* ExecutorCore
          spc                 \* shutdown: its position

flags == <<shutdown_requested, spc>>

\* wait_external_idle has returned: no worker polls.
drained == spc = "down"
=============================================================================
