---------------------------- MODULE CourierLedger ----------------------------
(***************************************************************************)
(* The supervision ledger a domain keeps for one courier: one record per   *)
(* fiber the courier ever registered and the number of live fibers of each *)
(* admission class.  A runtime reports to it through a runtime sink, which *)
(* is taken to serialise the calls.  One pool reports for the courier and  *)
(* only its first registration claims to be the root, so a conflict of     *)
(* roots cannot refuse one; launch control is left out.                    *)
(***************************************************************************)
EXTENDS Naturals, FiniteSets

CONSTANTS max_live_fibers,   \* CourierPlan, or the length of the record table if smaller
          class_capacity     \* planned_fiber_capacity, dynamic_fiber_capacity

Classes == {"Planned", "Dynamic"}

VARIABLES ledger,   \* fiber -> its record, for the fibers registered
          live      \* active_planned_fibers, active_dynamic_fibers

LedgerInit == ledger = <<>> /\ live = [k \in Classes |-> 0]

\* register_fiber_with_class admits the fiber.  The first bound counts the
\* records, and a record stays when its fiber is terminal.
Admits(fiber, class) == /\ Cardinality(DOMAIN ledger) < max_live_fibers
                        /\ live[class] < class_capacity[class]
                        /\ fiber \notin DOMAIN ledger
RegisterFiber(fiber, class) ==
  /\ Admits(fiber, class)
  /\ ledger' = [f \in DOMAIN ledger \cup {fiber} |->
                  IF f = fiber THEN [class |-> class, state |-> "Created"]
                  ELSE ledger[f]]
  /\ live' = [live EXCEPT ![class] = @ + 1]

\* update_fiber_snapshot: an unknown fiber is NotFound.
UpdateFiber(fiber, state) ==
  /\ fiber \in DOMAIN ledger
  /\ ledger' = [ledger EXCEPT ![fiber].state = state]
  /\ UNCHANGED live

\* Mutant: the fiber keeps its place in the live count.
MarkTerminal_KeepsCount(fiber) ==
  /\ fiber \in DOMAIN ledger
  /\ ledger' = [ledger EXCEPT ![fiber].state = "Terminal"]
  /\ UNCHANGED live

\* mark_fiber_terminal; release_fiber saturates.
MarkTerminal(fiber) ==
  /\ fiber \in DOMAIN ledger
  /\ ledger' = [ledger EXCEPT ![fiber].state = "Terminal"]
  /\ live' = [live EXCEPT ![ledger[fiber].class] = IF @ = 0 THEN 0 ELSE @ - 1]
=============================================================================
