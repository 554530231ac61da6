CONSTANTS
    js = js
    rs = rs
    Paths <- MCPaths
    Eligible <- MCEligible
    Snapshots <- MCSnapshots
    SourcePath = js
    RustPath = rs
    None = None
    Embed = FALSE
    Enrich = TRUE
    MaxSourcePaths = 1
    MaxCheckerAttempts = 3
    Kinds = {"source", "rust", "doc", "boundary", "config"}
    Missable = {"source", "rust", "doc"}
    Reconciles = TRUE
    MaxEdits = 2
    MaxFailures = 1
    MaxGenerations = 2
SPECIFICATION Spec
CHECK_DEADLOCK FALSE
INVARIANTS Converged TimersScheduled Outstanding CheckerPaid ForceFollowsWork
PROPERTIES KeepsObligations CompletionSettles
