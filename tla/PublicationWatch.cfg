SPECIFICATION Spec
\* A run ends when the bounds are used up.
CHECK_DEADLOCK FALSE

CONSTANTS
    f = f
    g = g
    A = A
    B = B
    e1 = e1
    e2 = e2
    None = None
    Files = {f, g}
    Projects = {A, B}
    Members <- MCMembers
    Target <- MCTarget
    Unanswered <- AllUnanswered
    Mode <- Carry
    Enrichers = {e1}
    IndexKinds = {"preserve", "rebind"}
    EditKinds = {"src", "conf"}
    Concurrent = FALSE
    TornActivation = FALSE
    MaxEdits = 2
    MaxIndexes = 1
    MaxRuns = 2
    MaxFaults = 1

INVARIANTS PublicationSound
PROPERTIES CarriesSoundly ReuseServesFacts UndisturbedPublishes
