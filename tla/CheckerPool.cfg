CONSTANTS
    w1 = w1
    w2 = w2
    Workers <- TwoWorkers
    Planner = Planner
    None = None
    Backends = {"process", "embedded"}
    MaxProjects = 2
    MaxRequests = 2
    MaxPasses = 2
    MaxInterrupts = 2
    MaxFaults = 1
SPECIFICATION Spec
SYMMETRY Alike
INVARIANTS OnlyAskedCanceled StopsPromptly
