------------------------------ MODULE Allocator ------------------------------
(***************************************************************************)
(* fusion-sys/alloc: the allocators of one domain over its memory pool.    *)
(* Bounded arenas, slabs and shared control blocks each live inside an     *)
(* extent leased from the pool, and counted handles (SharedHeader) keep    *)
(* the block, the extent and the pool alive.  A call under an allocator's  *)
(* own mutex is one step.  A drop takes one step for each count and each   *)
(* lock it goes through, so that drops on several threads interleave.      *)
(* Refused calls that change nothing are left out.                         *)
(***************************************************************************)
EXTENDS MemoryPool, Sequences
LOCAL INSTANCE SequencesExt

CONSTANT HeaderBytes   \* metadata_len of an allocator, at the front of its extent

VARIABLES
    bound,       \* what the callers do and how often: [direct, shapes, sizes, assigns,
                 \* clones (references of a block), drops (under way at once), closes, ...]
    root,        \* the Allocator exists, with the PoolHandle of its domain
    pool_refs,   \* the header of the PoolControlBlock
    blocks,      \* lease id -> the allocator inside that extent
    owned,       \* the handles and the allocations that callers have
    leaving      \* drops that have yet to let go of their PoolHandle

avars == <<root, pool_refs, blocks, owned, leaving>>

\* at and len are an allocation's range in its payload; at is the number of a slot
\* of a slab, and tells the clones of a control lease apart.
Thing(id, what, at, len) == [id |-> id, what |-> what, at |-> at, len |-> len]
Of(id, kinds) == {t \in owned : t.id = id /\ t.what \in kinds}
Handles == {"arena", "slab", "control"}

\* The pool request of a shape [kind, capacity, align, count, immortal]: the metadata,
\* the padding to the payload's alignment, the payload.
ExtentRequest(s) ==
    [len |-> AlignUp(HeaderBytes, s.align) + s.capacity, align |-> s.align]

\* ArenaState, SlabState and ControlBlock of a new allocator.  releasing counts the
\* drops on their way to SharedHeader::release, freeing says that one of them was
\* last, and lost counts the results that a refused deallocate has consumed.
NewBlock(s) ==
    [shape |-> s, refs |-> 1, releasing |-> 0, freeing |-> FALSE,
     cursor |-> 0, live_slices |-> 0, live_allocations |-> 0, lost |-> 0,
     free |-> [k \in 1 .. s.count |-> s.count - k], occupied |-> {}]

AllocatorInit ==
    root = TRUE /\ pool_refs = 1 /\ blocks = <<>> /\ owned = {} /\ leaving = 0

\* slab, arena_with_alignment, control, extent: the pool's handle is cloned and an
\* extent assigned.  When the pool refuses, the clone is dropped again.  What is looked
\* up and checked between the extent and the handle (member_info, lease_region, the
\* length and alignment the request asked for) is taken to succeed for the new lease:
\* AssignedPoolExtent::assign would keep the lease if a lookup failed.
Assign(s) ==
    /\ root /\ next_lease_id \in 1 .. bound.assigns
    /\ \/ /\ AcquireExtent(ExtentRequest(s))
          /\ pool_refs' = pool_refs + 1
          /\ blocks' = (next_lease_id :> NewBlock(s)) @@ blocks
          /\ owned' = owned \cup {Thing(next_lease_id, s.kind, 0, 0)}
       \/ /\ AcquireNoRoom(ExtentRequest(s)) \/ AcquireNoSlot(ExtentRequest(s))
          /\ UNCHANGED <<pool_refs, blocks, owned>>
    /\ UNCHANGED <<bound, root, leaving>>

-----------------------------------------------------------------------------
(* BoundedArena *)

\* The payload starts at a multiple of max_align, so offsets align like addresses.
Offset(id, q) == AlignUp(blocks[id].cursor, q.align)

Room(id, q) ==
    /\ Thing(id, "arena", 0, 0) \in owned
    /\ q.align <= blocks[id].shape.align
    /\ Offset(id, q) + q.len <= blocks[id].shape.capacity

Advance(id, q) == [blocks[id] EXCEPT !.cursor = Offset(id, q) + q.len]
Placed(id, what, q) == owned \cup {Thing(id, what, Offset(id, q), q.len)}

\* Mutant: the slice gets the control pointer without a reference of its own.
AllocValue_NoRetain(id, q) ==
    /\ Room(id, q)
    /\ blocks' = [blocks EXCEPT ![id] = [Advance(id, q) EXCEPT !.live_slices = @ + 1]]
    /\ owned' = Placed(id, "slice", q)

\* alloc_value, and try_alloc_array_with when its initializer succeeds.
AllocValue(id, q) ==
    /\ Room(id, q)
    /\ blocks' = [blocks EXCEPT ![id] =
                     [Advance(id, q) EXCEPT !.live_slices = @ + 1, !.refs = @ + 1]]
    /\ owned' = Placed(id, "slice", q)

\* try_alloc_array_with when the initializer fails: the clone of the control lease
\* and the slice count go back, and the cursor to the aligned offset.
InitFails(id, q) ==
    /\ Room(id, q)
    /\ blocks' = [blocks EXCEPT ![id].cursor = Offset(id, q)]
    /\ UNCHANGED owned

\* alloc returns a token that borrows the arena, AllocationStrategy::allocate a bare
\* AllocResult.
AllocateUntyped(id, q) ==
    /\ Room(id, q)
    /\ blocks' = [blocks EXCEPT ![id] = [Advance(id, q) EXCEPT !.live_allocations = @ + 1]]
    /\ \E what \in {"token", "result"} : owned' = Placed(id, what, q)

\* alloc_retained_value of an immortal arena.
AllocRetained(id, q) ==
    /\ Room(id, q) /\ blocks[id].shape.immortal
    /\ blocks' = [blocks EXCEPT ![id] = Advance(id, q)]
    /\ owned' = Placed(id, "retained", q)

\* Mutant: the cursor goes back to the allocation wherever that is.
ReleaseAllocation_AnyOrder(t) ==
    [blocks[t.id] EXCEPT !.cursor = t.at, !.live_allocations = @ - 1]

\* release_allocation: only the block at the top gives its bytes back.
ReleaseAllocation(t) ==
    [blocks[t.id] EXCEPT !.cursor = IF t.at + t.len = @ THEN t.at ELSE @,
                         !.live_allocations = @ - 1]

\* Dropping a token (try_release does the same at the top, and is refused below it).
DropToken(t) ==
    /\ t.what = "token"
    /\ blocks' = [blocks EXCEPT ![t.id] = ReleaseAllocation(t)]
    /\ owned' = owned \ {t}

\* deallocate with require_top: refused below the top, yet the result is consumed.
Deallocate(t) ==
    /\ t.what = "result" /\ Thing(t.id, "arena", 0, 0) \in owned
    /\ blocks' = [blocks EXCEPT ![t.id] =
                     IF t.at + t.len = @.cursor THEN ReleaseAllocation(t)
                     ELSE [@ EXCEPT !.lost = @ + 1]]
    /\ owned' = owned \ {t}

\* Only mortal arenas have reset.
Reset(id) ==
    /\ Thing(id, "arena", 0, 0) \in owned /\ ~blocks[id].shape.immortal
    /\ blocks[id].live_slices = 0 /\ blocks[id].live_allocations = 0
    /\ blocks' = [blocks EXCEPT ![id].cursor = 0]
    /\ UNCHANGED owned

-----------------------------------------------------------------------------
(* Slab *)

\* What a slab hands a slot out as: alloc, allocate, alloc_retained_value.
SlotTokens(id) ==
    {"slot", "result"} \cup (IF blocks[id].shape.immortal THEN {"retained"} ELSE {})

\* allocate_slot.  Its answer to a free slot that is marked as occupied is left out:
\* BlocksApart says that there is none.
AllocateSlot(id) ==
    /\ Thing(id, "slab", 0, 0) \in owned /\ blocks[id].free # <<>>
    /\ LET slot == Last(blocks[id].free) IN
       /\ blocks' = [blocks EXCEPT ![id].free = Front(@), ![id].occupied = @ \cup {slot}]
       /\ \E what \in SlotTokens(id) : owned' = owned \cup {Thing(id, what, slot, 0)}

\* release_slot, from the drop of a SlabAllocation or from deallocate.
ReleaseSlot(t) ==
    /\ t.what \in {"slot", "result"} /\ Thing(t.id, "slab", 0, 0) \in owned
    /\ t.at \in blocks[t.id].occupied
    /\ blocks' = [blocks EXCEPT ![t.id].free = Append(@, t.at),
                                ![t.id].occupied = @ \ {t.at}]
    /\ owned' = owned \ {t}

-----------------------------------------------------------------------------
(* Handles *)

\* ControlLease::try_clone.
CloneControl(t) ==
    /\ t.what = "control" /\ blocks[t.id].refs < bound.clones
    /\ LET at == Min((0 .. bound.clones) \ {u.at : u \in Of(t.id, {"control"})})
       IN  owned' = owned \cup {Thing(t.id, "control", at, 0)}
    /\ blocks' = [blocks EXCEPT ![t.id].refs = @ + 1]

\* The drop of an ArenaSlice, up to the drop of its ControlLease.
DropSlice(t) ==
    /\ t.what = "slice" /\ blocks[t.id].releasing < bound.drops
    /\ blocks' = [blocks EXCEPT ![t.id].live_slices = @ - 1, ![t.id].releasing = @ + 1]
    /\ owned' = owned \ {t}

\* The drop of a handle, which no token or slot may borrow any more.  An immortal one
\* leaves its extent behind; a slab owns its extent alone and frees it at once.
DropHandle(t) ==
    /\ t.what \in Handles /\ Of(t.id, {"token", "slot"}) = {}
    /\ blocks' = [blocks EXCEPT ![t.id] =
                     IF @.shape.immortal THEN @
                     ELSE IF t.what = "slab" THEN [@ EXCEPT !.refs = 0, !.freeing = TRUE]
                     ELSE [@ EXCEPT !.releasing = @ + 1]]
    /\ owned' = owned \ {t}

\* SharedHeader::release in the drop of a ControlLease: the last one goes on to free.
Release(id) ==
    /\ blocks[id].releasing > 0
    /\ blocks' = [blocks EXCEPT ![id].releasing = @ - 1, ![id].refs = @ - 1,
                                ![id].freeing = (blocks[id].refs = 1)]
    /\ UNCHANGED owned

\* The value is dropped and the extent released (the drop of AssignedPoolExtent).  No
\* handle is left that would accept the results that callers still have.
FreeExtent(id) ==
    /\ blocks[id].freeing
    /\ \E l \in held : l.id = id /\ ReleaseExtent(l)
    /\ blocks' = [i \in DOMAIN blocks \ {id} |-> blocks[i]]
    /\ owned' = owned \ Of(id, {"result"})
    /\ leaving' = leaving + 1
    /\ UNCHANGED <<bound, root, pool_refs>>

\* PoolHandle::drop: by the extent freed last, or by the Allocator.
DropPoolHandle ==
    /\ pool_refs' = pool_refs - 1
    /\ \/ leaving > 0 /\ leaving' = leaving - 1 /\ UNCHANGED root
       \/ root /\ bound.closes /\ root' = FALSE /\ UNCHANGED leaving
    /\ UNCHANGED <<vars, bound, blocks, owned>>

Use(id) ==
    /\ \/ \E q \in bound.sizes : AllocValue(id, q) \/ InitFails(id, q)
                                 \/ AllocateUntyped(id, q) \/ AllocRetained(id, q)
       \/ Reset(id) \/ AllocateSlot(id) \/ Release(id)
       \/ \E t \in {u \in owned : u.id = id} :
            \/ DropToken(t) \/ Deallocate(t) \/ ReleaseSlot(t)
            \/ CloneControl(t) \/ DropSlice(t) \/ DropHandle(t)
    /\ UNCHANGED <<vars, bound, root, pool_refs, leaving>>

AllocatorNext ==
    \/ \E s \in bound.shapes : Assign(s)
    \/ \E id \in DOMAIN blocks : Use(id) \/ FreeExtent(id)
    \/ DropPoolHandle

-----------------------------------------------------------------------------
(* Properties *)

\* No two allocations share a byte, now or after the next call: those of an arena lie
\* apart, below its cursor and inside its payload, whatever was released, failed or
\* reset in between; the slots that callers have are the occupied ones of a slab, and
\* its free stack is the rest.
BlocksApart ==
    \A id \in DOMAIN blocks :
        LET b == blocks[id]
            taken == Of(id, {"slice", "token", "slot", "result", "retained"})
        IN  \/ /\ b.shape.kind = "arena" /\ b.cursor <= b.shape.capacity
               /\ \A t \in taken : t.at + t.len <= b.cursor
               /\ \A t, u \in taken : t # u => t.at + t.len <= u.at \/ u.at + u.len <= t.at
            \/ /\ b.shape.kind = "slab" /\ b.occupied = {t.at : t \in taken}
               /\ Cardinality(b.occupied) = Cardinality(taken)
               /\ Len(b.free) + Cardinality(taken) = b.shape.count
               /\ ToSet(b.free) \cup b.occupied = 0 .. b.shape.count - 1
            \/ b.shape.kind = "control" /\ taken = {}

\* An extent is leased exactly while its block is there, and block and pool are there
\* exactly while somebody can still reach them: the counts are those of the handles,
\* slices and drops under way, and just one drop finds itself last.
BackingExact ==
    /\ bound.direct \/ {l.id : l \in held} = DOMAIN blocks
    /\ {t.id : t \in owned} \subseteq DOMAIN blocks
    /\ \A id \in DOMAIN blocks :
        LET b == blocks[id]
            handles == IF b.shape.immortal THEN 1 ELSE Cardinality(Of(id, Handles))
        IN  /\ b.refs = handles + Cardinality(Of(id, {"slice"})) + b.releasing
            /\ b.freeing <=> b.refs = 0
            /\ b.live_slices = Cardinality(Of(id, {"slice"}))
            /\ b.shape.kind = "arena" =>
                b.live_allocations = Cardinality(Of(id, {"token", "result"})) + b.lost
    /\ pool_refs = (IF root THEN 1 ELSE 0) + Cardinality(DOMAIN blocks) + leaving

=============================================================================
