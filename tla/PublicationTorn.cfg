SPECIFICATION Spec
\* A run ends when the bounds are used up.
CHECK_DEADLOCK FALSE

CONSTANTS
    f = f
    g = g
    A = A
    B = B
    e1 = e1
    e2 = e2
    None = None
    Files = {f, g}
    Projects = {A, B}
    Members <- MCMembers
    Target <- MCTarget
    Unanswered <- AUnanswered
    Mode <- Carry
    Enrichers = {e1}
    IndexKinds = {"preserve", "rebind"}
    EditKinds = {"src", "conf"}
    Concurrent = FALSE
    TornActivation = TRUE
    MaxEdits = 0
    MaxIndexes = 0
    MaxRuns = 2
    MaxFaults = 1

PROPERTY ReuseServesFacts
