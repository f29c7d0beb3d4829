------------------------------ MODULE Exclusion ------------------------------
(***************************************************************************)
(* What the exclusion primitives of the synchronization contract promise   *)
(* (RawMutex and RawRwLock): any number of shared holders or one exclusive *)
(* holder, every acquisition by one thread at a time, and a release only   *)
(* by a holder.  A mutex is the case that never takes a shared hold.       *)
(***************************************************************************)
CONSTANT Threads

VARIABLES readers,   \* threads with a shared hold
          writers    \* threads with the exclusive hold

vars == <<readers, writers>>

Init == readers = {} /\ writers = {}

AcquireRead(t) == /\ t \notin readers /\ writers = {}
                  /\ readers' = readers \cup {t}
                  /\ UNCHANGED writers

ReleaseRead(t) == /\ t \in readers
                  /\ readers' = readers \ {t}
                  /\ UNCHANGED writers

AcquireWrite(t) == /\ readers = {} /\ writers = {}
                   /\ writers' = {t}
                   /\ UNCHANGED readers

ReleaseWrite(t) == /\ t \in writers
                   /\ writers' = writers \ {t}
                   /\ UNCHANGED readers

Next == \E t \in Threads : \/ AcquireRead(t) \/ ReleaseRead(t)
                           \/ AcquireWrite(t) \/ ReleaseWrite(t)

Spec == Init /\ [][Next]_vars
=============================================================================
