SPECIFICATION Spec
CONSTANTS
    p = p
    q = q
    r = r
    None = None
    Absent = Absent
    Nodes <- MCNodes
    Kids <- MCKids
    PoolPages = 6
    FlatPages = 2
    ChildCacheMax = 2
    MaxDepth = 2
INVARIANTS
    TypeOK
    EmitterWritesOnlyWritable
    CachedCodeIsLive
    EmbeddedCallsAreLive
    RunningCodeIsExecutable
CHECK_DEADLOCK FALSE
