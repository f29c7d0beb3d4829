SPECIFICATION MCSpec
CONSTANTS
    Members <- MCMembers
    Base <- MCBase
    Usable <- MCUsable
    Requests <- MCRequests
    EXTENTS = 5
    LastLeaseId = 6
    HeaderBytes = 1
    Domains = 2
    MAX_CONSUMERS = 2
CHECK_DEADLOCK FALSE
INVARIANTS
    Consistent
    RefusalsHonest
    MergeIsLoop
    BlocksApart
    BackingExact
    RepliesExact
