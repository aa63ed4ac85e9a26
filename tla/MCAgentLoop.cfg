SPECIFICATION MCSpec
CONSTANTS
    edit = edit
    look = look
    sub = sub
    path = path
    mem = mem
    user = user
    c1 = c1
    c2 = c2
    Missing = Missing
    None = None
    NoKey = NoKey
    r1 = r1
    r2 = r2
    SchemaVersion = 1
    Migrations = {}
    Streams <- MCStreams
    WholeArguments <- MCWholeArguments
    Tools <- MCTools
    KeyOf <- MCKeyOf
    Body <- MCBody
    Seeds <- MCSeeds
    Reader = {r1, r2}
    MaxToolRounds = 2
    MaxAttempts = 2
    QueueSize = 1
    Cap = 1
    AbortOnBudget = FALSE
    MaxWriteErrors = 1
    MaxPrunes = 1
INVARIANTS
    TranscriptOnDisk
    NoLostUpdate
    BudgetFiresOnce
PROPERTY ReadsReturn
CHECK_DEADLOCK FALSE
