SPECIFICATION Spec
CONSTANTS
    Focus = {"sharing", "streams", "calls", "clients", "memory", "resources", "artifacts", "config", "tables", "graphs"}
    MaxOps = 4
    Session = {s1, s2}
    First = s1
    Box = {b1, b2}
    Thread = {t1, t2}
    WorkingDir = WorkingDir
    NoBox = NoBox
    NoThread = NoThread
    MaxDepth = 1
    x1 = x1
    q1 = q1
    Client = {x1, x2}
    Container = {c1, c2}
    Op = {1, 2, 3}
    Path = {p1, p2}
    NoContainer = NoContainer
    NoOp = NoOp
    CreateAttempts = 2
    CodeAttempts = 2
    FsLockLru = 1
    Strict = FALSE
    StreamObj = {q1, q2}
    BoxOf <- MCBoxOf
    Stop = Stop
    Buffer = 1
    MaxFatal = 1
    m1 = m1
    d1 = d1
    u3 = u3
    MemStore = {m1, m2}
    MemThread = {t1, t2}
    Doc = {d1}
    MemUri = {u1, u3}
    FileOf <- MCFileOf
    Invalid = Invalid
    Embedder = TRUE
    Extractor = TRUE
    MaxVersion = 3
    MaxMemCrash = 1
    MaxMessages = 1
    k2 = k2
    Key = {k1, k2}
    IsS3 <- MCIsS3
    Writer = {w1, w2}
    NoKey = NoKey
    MaxPuts = 3
    MaxStops = 1
    h1 = h1
    h2 = h2
    n1 = n1
    n2 = n2
    n3 = n3
    User = {h1, h2}
    Object = {1, 2, 3}
    NoObject = NoObject
    Secret = {z1}
    NoSecret = NoSecret
    MaxEdits = 1
    MaxSaves = 2
    Faulty = TRUE
    Proc = {y1, y2}
    Revision = {v1, v2}
    LegacyRows = {v1}
    Content = {g1, g2}
    DataId = {i1, i2}
    DataName = {a1}
    NoRow = NoRow
    MaxDataSaves = 2
    Node <- MCNode
    Unknown = Unknown
    Neighbours <- MCNeighbours
    Declaration <- MCDeclaration
    RecursionLimit = 2
    MaxWalk = 6
INVARIANTS
    CountsAreReferences
    AnsweredInOrder
    StaleVectorsExplained
    AckedArtifactsStay
    ConfigIsKept
    TablesAreSound
    TraversalsAreRight
PROPERTY
    OpsSettle
CHECK_DEADLOCK FALSE
