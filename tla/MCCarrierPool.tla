---------------------------- MODULE MCCarrierPool ----------------------------
(***************************************************************************)
(* CarrierPool for TLC.  A pool that cancels has nothing left to steal     *)
(* once it shuts down, so of the located boundaries only the draining pool *)
(* is looked at: located stealing before shutdown is the same in both.     *)
(***************************************************************************)
EXTENDS CarrierPool

MCInit == Init /\ <<policy, boundary>> # <<"Cancel", "Located">>
MCSpec == MCInit /\ [][Next]_vars /\ Fairness
=============================================================================
