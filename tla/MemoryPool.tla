----------------------------- MODULE MemoryPool -----------------------------
(***************************************************************************)
(* fusion-sys/mem/pool: a pool of EXTENTS records that carve the usable    *)
(* ranges of its members into free and leased extents.  Every call runs    *)
(* under the state mutex (FutexMutex), so a call is one step.  A record is *)
(* [slot, member, offset, len, lease] with lease 0 for                     *)
(* ExtentDisposition::Free; a slot no record names is None.                *)
(***************************************************************************)
EXTENDS Integers, FiniteSets, FiniteSetsExt

CONSTANTS
    Members,       \* the member indexes, from 0
    Base,          \* the address of each member's resource
    Usable,        \* the usable_range of each member: [offset, len]
    EXTENTS,       \* the number of extent records
    Requests,      \* the requests the callers make: [len, align]
    LastLeaseId    \* the largest lease id (u64::MAX in the code)

ASSUME PoolAssumption ==
    /\ EXTENTS \in Nat /\ Members \subseteq 0 .. EXTENTS - 1
    /\ Base \in [Members -> Nat]
    /\ Usable \in [Members -> [offset : Nat, len : Nat \ {0}]]
    /\ Requests \subseteq [len : Nat, align : Nat]
    /\ LastLeaseId \in Nat \ {0}

VARIABLES
    extents,         \* the records in use
    free_bytes,
    leased_bytes,
    next_lease_id,   \* 0 once the ids are used up
    tight,           \* prefers_tight_front_allocation of the members
    held,            \* the MemoryPoolLease tokens that callers own
    answer           \* the last call's outcome and request

vars == <<extents, free_bytes, leased_bytes, next_lease_id, tight, held, answer>>

Slots == 0 .. EXTENTS - 1
End(e) == e.offset + e.len
Free(e) == e.lease = 0
Bytes(e) == {e.member} \X (e.offset .. End(e) - 1)
LeaseOf(e) == [id |-> e.lease, member |-> e.member, offset |-> e.offset, len |-> e.len]
Said(kind, q) == [kind |-> kind, request |-> q]
Nothing == [len |-> 0, align |-> 0]

UsableBytes == UNION {{m} \X (Usable[m].offset .. End(Usable[m]) - 1) : m \in Members}

\* One free record per member, in the first vacant slots: slot m for member m.
Init ==
    /\ extents = {[slot |-> m, member |-> m, offset |-> Usable[m].offset,
                   len |-> Usable[m].len, lease |-> 0] : m \in Members}
    /\ free_bytes = Cardinality(UsableBytes)
    /\ leased_bytes = 0
    /\ next_lease_id = 1
    /\ tight \in BOOLEAN
    /\ held = {}
    /\ answer = Said("none", Nothing)

-----------------------------------------------------------------------------
(* acquire_extent *)

IsPowerOfTwo(n) == \E k \in 0 .. n : n = 2 ^ k
ValidRequest(q) == q.len # 0 /\ q.align # 0 /\ IsPowerOfTwo(q.align)

AlignUp(value, align) == LET top == value + (align - 1) IN top - (top % align)

\* Front padding a record needs before an aligned allocation.
Prefix(e, q) == LET start == Base[e.member] + e.offset IN AlignUp(start, q.align) - start
Suffix(e, q) == e.len - Prefix(e, q) - q.len
Cost(e, q) == (IF Prefix(e, q) # 0 THEN 1 ELSE 0) + (IF Suffix(e, q) # 0 THEN 1 ELSE 0)

\* The records aligned_allocation can place the request in.
Fits(q) == {e \in extents : Free(e) /\ Prefix(e, q) + q.len <= e.len}

\* Mutant: the tight-front order is used for every pool.
Rank_AlwaysTight(e, q) ==
    <<e.len, Prefix(e, q), Cost(e, q), e.len - q.len, e.member, e.slot>>

\* is_better_candidate compares these tuples, field by field.
Rank(e, q) ==
    IF tight
    THEN <<e.len, Prefix(e, q), Cost(e, q), e.len - q.len, e.member, e.slot>>
    ELSE <<Cost(e, q), e.len - q.len, e.len, Prefix(e, q), e.member, e.slot>>

Before(r, s) ==
    \E i \in DOMAIN r : r[i] < s[i] /\ \A j \in 1 .. i - 1 : r[j] = s[j]

\* The record find_candidate returns.
Candidate(e, q) ==
    e \in Fits(q) /\ \A f \in Fits(q) \ {e} : Before(Rank(e, q), Rank(f, q))

AfterLeaseId == IF next_lease_id = LastLeaseId THEN 0 ELSE next_lease_id + 1

Vacant == Slots \ {e.slot : e \in extents}
FrontSlot == Min(Vacant)
BackSlot(e, q) == Min(Vacant \ (IF Prefix(e, q) # 0 THEN {FrontSlot} ELSE {}))

FrontPiece(e, q) ==
    IF Prefix(e, q) = 0 THEN {}
    ELSE {[slot |-> FrontSlot, member |-> e.member, offset |-> e.offset,
           len |-> Prefix(e, q), lease |-> 0]}

\* Mutant: the suffix is measured from the record's start, not the allocation's.
BackPiece_IgnoresPrefix(e, q) ==
    IF Suffix(e, q) = 0 THEN {}
    ELSE {[slot |-> BackSlot(e, q), member |-> e.member,
           offset |-> e.offset + q.len, len |-> Suffix(e, q), lease |-> 0]}

BackPiece(e, q) ==
    IF Suffix(e, q) = 0 THEN {}
    ELSE {[slot |-> BackSlot(e, q), member |-> e.member,
           offset |-> e.offset + Prefix(e, q) + q.len, len |-> Suffix(e, q), lease |-> 0]}

\* The leased record reuses the candidate's slot.
Leased(e, q) ==
    [e EXCEPT !.offset = e.offset + Prefix(e, q), !.len = q.len, !.lease = next_lease_id]

SaturatingSub(a, b) == IF a >= b THEN a - b ELSE 0

Refuse(kind, q) ==
    /\ answer' = Said(kind, q)
    /\ UNCHANGED <<extents, free_bytes, leased_bytes, tight, held>>

AcquireInvalid(q) ==
    /\ ~ValidRequest(q)
    /\ Refuse("invalid_request", q) /\ UNCHANGED next_lease_id

AcquireNoRoom(q) ==
    /\ ValidRequest(q) /\ Fits(q) = {}
    /\ Refuse("capacity_exhausted", q) /\ UNCHANGED next_lease_id

\* allocate_lease_id fails, with the same error as a full table.
AcquireNoId(q) ==
    /\ ValidRequest(q) /\ Fits(q) # {} /\ next_lease_id = 0
    /\ Refuse("metadata_exhausted", q) /\ UNCHANGED next_lease_id

\* vacant_slots_excluding fails after the id was taken: the id is lost.
AcquireNoSlot(q) ==
    /\ ValidRequest(q) /\ next_lease_id # 0
    /\ \E e \in extents : Candidate(e, q) /\ Cost(e, q) > Cardinality(Vacant)
    /\ Refuse("metadata_exhausted", q) /\ next_lease_id' = AfterLeaseId

AcquireExtent(q) ==
    /\ ValidRequest(q) /\ next_lease_id # 0
    /\ \E e \in extents :
        /\ Candidate(e, q) /\ Cost(e, q) <= Cardinality(Vacant)
        /\ extents' = (extents \ {e}) \cup {Leased(e, q)} \cup FrontPiece(e, q) \cup BackPiece(e, q)
        /\ held' = held \cup {LeaseOf(Leased(e, q))}
    /\ next_lease_id' = AfterLeaseId
    /\ free_bytes' = SaturatingSub(free_bytes, q.len)
    /\ leased_bytes' = leased_bytes + q.len
    /\ answer' = Said("ok", q)
    /\ UNCHANGED tight

-----------------------------------------------------------------------------
(* release_extent *)

Touches(e, f) == f.member = e.member /\ (End(f) = e.offset \/ f.offset = End(e))

\* The records that merge_free_extent_slot empties into the released slot.
Absorbed(e) == {f \in extents \ {e} : Free(f) /\ Touches(e, f)}

Merged(e) ==
    LET start == Min({f.offset : f \in Absorbed(e) \cup {e}})
        end   == Max({End(f) : f \in Absorbed(e) \cup {e}})
    IN  [e EXCEPT !.offset = start, !.len = end - start, !.lease = 0]

AfterRelease(e) == (extents \ ({e} \cup Absorbed(e))) \cup {Merged(e)}

\* extent_slot_for_lease.
Matches(e, l) == ~Free(e) /\ LeaseOf(e) = l

ReleaseExtent(l) ==
    /\ \E e \in extents :
        /\ Matches(e, l)
        /\ extents' = AfterRelease(e)
        /\ free_bytes' = free_bytes + e.len
        /\ leased_bytes' = SaturatingSub(leased_bytes, e.len)
    /\ held' = held \ {l}
    /\ answer' = Said("ok", Nothing)
    /\ UNCHANGED <<next_lease_id, tight>>

\* The steps of a call with request q, or of the release of lease l.
Acquire(q) ==
    \/ AcquireInvalid(q) \/ AcquireNoRoom(q) \/ AcquireNoId(q)
    \/ AcquireNoSlot(q)  \/ AcquireExtent(q)

Next == (\E q \in Requests : Acquire(q)) \/ (\E l \in held : ReleaseExtent(l))

Spec == Init /\ [][Next]_vars

-----------------------------------------------------------------------------
(* The loop of merge_free_extent_slot, run to its end on a table X whose    *)
(* record in slot s is already free: the first touching free record by slot *)
(* index is absorbed, and the scan starts over.                             *)

\* Mutant: the scan goes on with the anchor it copied before the first merge.
AbsorbOne_NoBreak(X, s) ==
    LET a == CHOOSE e \in X : e.slot = s
        near == {f \in X \ {a} : Free(f) /\ Touches(a, f)}
        f == CHOOSE g \in near : \A h \in near : g.slot >= h.slot
        low == IF End(f) = a.offset THEN f.offset ELSE a.offset
    IN  IF near = {} THEN X
        ELSE (X \ ({a} \cup near)) \cup {[a EXCEPT !.offset = low, !.len = a.len + f.len]}

AbsorbOne(X, s) ==
    LET a == CHOOSE e \in X : e.slot = s
        near == {f \in X \ {a} : Free(f) /\ Touches(a, f)}
        f == CHOOSE g \in near : \A h \in near : g.slot <= h.slot
        low == IF End(f) = a.offset THEN f.offset ELSE a.offset
    IN  IF near = {} THEN X
        ELSE (X \ {a, f}) \cup {[a EXCEPT !.offset = low, !.len = a.len + f.len]}

MergeLoop(X, s) ==
    LET pass[n \in 0 .. EXTENTS] == IF n = 0 THEN X ELSE AbsorbOne(pass[n - 1], s)
    IN  pass[EXTENTS]

-----------------------------------------------------------------------------
(* Properties *)

Extent == [slot : Slots, member : Members, offset : Nat, len : Nat \ {0}, lease : 0 .. LastLeaseId]
Lease == [id : 1 .. LastLeaseId, member : Members, offset : Nat, len : Nat \ {0}]

\* Records name existing slots and members and are never empty, and lease ids
\* stay in the counter's range: what acquire_extent and release_extent write.
TypeOK ==
    /\ extents \subseteq Extent
    /\ free_bytes \in Nat /\ leased_bytes \in Nat
    /\ next_lease_id \in 0 .. LastLeaseId
    /\ tight \in BOOLEAN
    /\ held \subseteq Lease
    /\ answer.kind \in {"none", "ok", "invalid_request", "capacity_exhausted",
                        "metadata_exhausted"}

\* Splits and merges neither lose a byte nor hand one out twice: no slot holds
\* two records, no two records share a byte, and together the records cover
\* exactly the usable range of every member.
Tiled ==
    /\ \A e, f \in extents : e # f => e.slot # f.slot /\ Bytes(e) \cap Bytes(f) = {}
    /\ UNION {Bytes(e) : e \in extents} = UsableBytes

\* The tokens callers own are exactly the leased records, each with an id of
\* its own: a release never meets unknown_lease, and no other lease is freed by it.
LeasesExact ==
    /\ held = {LeaseOf(e) : e \in {f \in extents : ~Free(f)}}
    /\ \A l, k \in held : l.id = k.id => l = k

\* free_bytes and leased_bytes are the bytes of the free and of the leased
\* records, so the saturating arithmetic of both calls never saturates.
BytesExact ==
    /\ free_bytes = Cardinality(UNION {Bytes(e) : e \in {f \in extents : Free(f)}})
    /\ leased_bytes = Cardinality(UNION {Bytes(e) : e \in {f \in extents : ~Free(f)}})

\* merge_free_extent_slot leaves no two free records of a member touching.
Coalesced == \A e, f \in extents : Free(e) /\ Free(f) => ~Touches(e, f)

\* The table, the leases out and the counters tell one story after any sequence
\* of acquire_extent and release_extent, and free space is never left in pieces.
Consistent == Tiled /\ LeasesExact /\ BytesExact /\ Coalesced

\* After capacity_exhausted there really is no aligned run of free bytes that
\* long in any member: fragmentation into several records never hides one.
CapacityHonest ==
    answer.kind = "capacity_exhausted" =>
        \A m \in Members : \A at \in Usable[m].offset .. End(Usable[m]) - 1 :
            (Base[m] + at) % answer.request.align = 0 =>
                \E b \in {m} \X (at .. at + answer.request.len - 1) :
                    \A e \in extents : Free(e) => b \notin Bytes(e)

\* Until the lease ids have run out, metadata_exhausted from a pool that is not
\* tight-front means that every free record that fits needs more slots than are
\* vacant: the choice of is_better_candidate never gives up a request another
\* record could have served.
MetadataHonest ==
    answer.kind = "metadata_exhausted" /\ ~tight =>
        \/ next_lease_id = 0
        \/ \A e \in Fits(answer.request) : Cost(e, answer.request) > Cardinality(Vacant)

\* acquire_extent reports capacity_exhausted only when no free record fits, and
\* metadata_exhausted, of a pool that is not tight-front, only when no slot or no
\* lease id is left for it.
RefusalsHonest == CapacityHonest /\ MetadataHonest

\* Once every lease is back each member is again one free record over its whole
\* usable range, whatever the order of the releases.
DrainedIsWhole ==
    held = {} =>
        \A m \in Members : \E e \in extents :
            /\ \A f \in extents : f.member = m => f = e
            /\ e.member = m /\ e.offset = Usable[m].offset /\ e.len = Usable[m].len /\ Free(e)

\* Absorbing the neighbours on both sides at once is what the loop of
\* merge_free_extent_slot comes to, for any lease released next.
MergeIsLoop ==
    \A e \in extents :
        ~Free(e) => AfterRelease(e) = MergeLoop((extents \ {e}) \cup {[e EXCEPT !.lease = 0]}, e.slot)

=============================================================================
