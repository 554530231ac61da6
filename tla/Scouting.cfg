CONSTANTS
    p1 = p1
    p2 = p2
    f1 = f1
    v1 = v1
    v2 = v2
    c1 = c1
    c2 = c2
    b1 = b1
    seed = seed
    anchor = anchor
    filescope = filescope
    module = module
    term = term
    None = None
    Proc = {p1, p2}
    Files = {f1}
    Versions = {v1, v2}
    Bodies = {b1}
    Subjects = {anchor, filescope, seed, term, module}
    KindOf <- MCKindOf
    FileOf <- MCFileOf
    Anchors = {anchor}
    AnchorsOf <- MCAnchorsOf
    Contexts = {c1, c2}
    Shows <- MCShows
    ModuleOf <- MCModuleOf
    TermsOf <- MCTermsOf
    Jobs <- AllJobs
    MaxConcurrency = 2
    MaxCalls = 2
    MaxStarts = 3
    MaxEdits = 1
    Budgeted = {}
SPECIFICATION Spec
INVARIANTS OneCurrentPerSubject LedgerHonest
PROPERTIES LeavesSound ImplementsRegister
CHECK_DEADLOCK FALSE
SYMMETRY Interchangeable
