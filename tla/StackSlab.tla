------------------------------ MODULE StackSlab ------------------------------
(***************************************************************************)
(* FiberStackSlab: a reservation of StackCapacity stack slots of which a   *)
(* prefix is committed.  With growth OnDemand the prefix grows by a chunk  *)
(* when no committed slot is free and shrinks when its last two chunks are *)
(* free.  Both operations hold the slab's mutex, so each is one step.  The *)
(* free stack is a set here: which free slot is handed out is left open.   *)
(***************************************************************************)
EXTENDS Integers, FiniteSets

CONSTANTS StackCapacity,  \* max_fibers_per_carrier
          ChunkSize,      \* growth_chunk
          OnDemand        \* growth: OnDemand, else Fixed

ASSUME SlabAssumption ==
  /\ StackCapacity \in Nat \ {0} /\ ChunkSize \in Nat \ {0}
  /\ ChunkSize <= StackCapacity /\ OnDemand \in BOOLEAN

VARIABLES stack_free,   \* FiberStackSlabState
          allocated,
          committed
slab == <<stack_free, allocated, committed>>

Stacks == 0..(StackCapacity - 1)
initial_slots == IF OnDemand THEN ChunkSize ELSE StackCapacity

SlabInit == /\ stack_free = 0..(initial_slots - 1)
            /\ allocated = {}
            /\ committed = initial_slots

\* grow_locked: where the prefix ends after one more chunk.
Grown(c) == IF c + ChunkSize < StackCapacity THEN c + ChunkSize ELSE StackCapacity

\* acquire_slot_index: grow when nothing is free, then pop.  The FiberStack made of
\* the slot is refused only for a length of zero, which the slab never has.
CanAcquire == stack_free # {} \/ (OnDemand /\ committed < StackCapacity)
AcquireStack(x) ==
  /\ CanAcquire
  /\ LET grow == stack_free = {}
         open == IF grow THEN committed..(Grown(committed) - 1) ELSE stack_free
     IN  /\ x \in open
         /\ stack_free' = open \ {x}
         /\ committed' = IF grow THEN Grown(committed) ELSE committed
  /\ allocated' = allocated \cup {x}

\* chunk_range_ending_at: where the chunk that ends at c starts.
ChunkStart(c) == c - (IF c % ChunkSize = 0 THEN ChunkSize ELSE c % ChunkSize)

\* try_shrink_locked: one turn of the loop gives up the chunk that ends at c
\* when it and the chunk before it are free.
GivesUp(a, c) == /\ OnDemand /\ c > initial_slots
                 /\ ChunkStart(c) > 0
                 /\ \A x \in ChunkStart(ChunkStart(c))..(c - 1) : x \notin a
\* The loop comes from c to d: every chunk end above d was given up, d is not.
ChunkEnds(c, d) == {e \in (d + 1)..c : e = c \/ e % ChunkSize = 0}
ShrinksTo(a, c, d) == /\ d = c \/ \E e \in ChunkEnds(c, d) : ChunkStart(e) = d
                      /\ \A e \in ChunkEnds(c, d) : GivesUp(a, e)
                      /\ ~GivesUp(a, d)

\* release: a slot that is not allocated is refused.
ReleaseStack(x) ==
  /\ x \in allocated
  /\ allocated' = allocated \ {x}
  /\ \E d \in 0..committed :
       /\ ShrinksTo(allocated', committed, d)
       /\ committed' = d
       /\ stack_free' = {y \in stack_free \cup {x} : y < d}

SlabNext == \E x \in Stacks : AcquireStack(x) \/ ReleaseStack(x)
SlabSpec == SlabInit /\ [][SlabNext]_slab
-----------------------------------------------------------------------------
\* The bookkeeping is exact: free and allocated split the committed prefix, so
\* no stack is in two hands, none is handed out outside committed memory
\* (initialize_slot, deinitialize_slot) and none is lost by growing or
\* shrinking.
SlabExact == /\ stack_free \cap allocated = {}
             /\ stack_free \cup allocated = 0..(committed - 1)
             /\ initial_slots <= committed /\ committed <= StackCapacity
=============================================================================
