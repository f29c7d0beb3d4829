-------------------------- MODULE MCAllocatorService --------------------------
(* Two members with different bases and ranges, so that alignment costs a   *)
(* prefix in one and not in the other, and more demand than records.  Each  *)
(* workload drives one part of the domain.                                  *)
EXTENDS AllocatorService

MCMembers == {0, 1}
MCBase == [m \in MCMembers |-> IF m = 0 THEN 3 ELSE 8]
MCUsable == [m \in MCMembers |-> IF m = 0 THEN [offset |-> 0, len |-> 7] ELSE [offset |-> 1, len |-> 4]]
MCRequests ==
    {[len |-> 0, align |-> 1], [len |-> 1, align |-> 1], [len |-> 2, align |-> 4],
     [len |-> 1, align |-> 2], [len |-> 1, align |-> 3]}

Quiet ==
    [direct |-> FALSE, shapes |-> {}, sizes |-> {}, assigns |-> 0, clones |-> 0, drops |-> 2,
     closes |-> FALSE,
     audit |-> FALSE, capacity |-> 1, threads |-> FALSE, fiber |-> FALSE,
     attachments |-> 0, asks |-> 0, requests |-> {}]

Shape(kind, capacity, align, count, immortal) ==
    [kind |-> kind, capacity |-> capacity, align |-> align, count |-> count, immortal |-> immortal]
Query(kind, domain) == [kind |-> kind, domain |-> domain]

\* Bare leases.
Leases == [Quiet EXCEPT !.direct = TRUE]

\* An arena of three bytes after its metadata, mortal or not, with a request that needs
\* padding, beside an immortal slab.
Arenas == [Quiet EXCEPT
    !.shapes = {Shape("arena", 3, 2, 0, FALSE), Shape("arena", 3, 2, 0, TRUE),
                Shape("slab", 1, 1, 1, TRUE)},
    !.sizes = {[len |-> 1, align |-> 1], [len |-> 1, align |-> 2]},
    !.assigns = 2, !.closes = TRUE]

\* Slabs of two slots beside control blocks with clones.
Slabs == [Quiet EXCEPT
    !.shapes = {Shape("slab", 2, 1, 2, FALSE), Shape("control", 1, 2, 0, FALSE)},
    !.assigns = 3, !.clones = 2, !.closes = TRUE]

\* Control blocks that cut the pool into more pieces than there are records.
Pieces == [Slabs EXCEPT
    !.shapes = {Shape("control", 1, 1, 0, FALSE), Shape("control", 1, 2, 0, FALSE)},
    !.clones = 1]

\* Clients of the service: every kind of request, of a domain with a pool, of one
\* without and of one that does not exist.
Audit == [Quiet EXCEPT
    !.audit = TRUE, !.capacity = 2, !.attachments = 2, !.asks = 2,
    !.requests = {Query("audit", 9), Query("members", 0), Query("republish", 0)}]
Threads == [Audit EXCEPT !.threads = TRUE, !.fiber = TRUE, !.capacity = 1,
    !.requests = {Query("stats", 0), Query("members", 0)}]

\* The pool changes while its extents are being listed, to consumers that come and go.
Churn == [Audit EXCEPT
    !.shapes = {Shape("control", 1, 1, 0, FALSE)}, !.assigns = 1,
    !.attachments = 3, !.asks = 1, !.requests = {Query("extents", 0), Query("extents", 1)}]

MCInit == bound \in {Leases, Arenas, Slabs, Pieces, Audit, Threads, Churn} /\ DomainInit

MCSpec == MCInit /\ [][DomainNext]_<<vars, bound, avars, svars>>
=============================================================================
