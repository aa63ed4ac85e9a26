SPECIFICATION MCSpec
CONSTANTS
    Run = {1, 2, 3}
    CreatedAt <- MCCreatedAt
    Replica = {p1, p2}
    Tenant = {t1, t2}
    Session = {s1, s2, s3}
    OwnerOf <- MCOwnerOf
    Alias = {a1}
    Call <- MCCall
    Targets = {"RUNNING", "QUEUED", "SUCCEEDED"}
    Followed = 1
    Afters = {Absent, 0, 1}
    Nobody = Nobody
    NoKey = NoKey
    Absent = Absent
    MaxQueued = 1
    PageSize = 1
    MaxRevision = 2
    MaxAttempt = 1
    MaxEvents = 4
    MaxDrops = 2
    t1 = t1
    t2 = t2
    s1 = s1
    s2 = s2
    s3 = s3
    a1 = a1
CHECK_DEADLOCK FALSE
INVARIANTS QueueOvershootBounded RunsBelongTogether RetriesNameOneRun ReadersMissNothing
PROPERTY FollowerCatchesUp
