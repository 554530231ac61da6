CONSTANTS
    js = js
    rs = rs
    Paths <- MCPaths
    Eligible <- MCEligible
    Snapshots <- MCSnapshots
    SourcePath = js
    RustPath = rs
    None = None
    Embed = TRUE
    Enrich = TRUE
    MaxSourcePaths = 1
    MaxCheckerAttempts = 3
    Kinds = {"source", "boundary"}
    Missable = {"source"}
    Reconciles = TRUE
    MaxEdits = 1
    MaxFailures = 3
    MaxGenerations = 3
SPECIFICATION FairSpec
CHECK_DEADLOCK FALSE
INVARIANTS CheckerBounded
PROPERTIES Progresses
