CONSTANTS
    Concurrency = 2
    MaxWaves = 2
    MaxFaults = 1
    FaultyWaves = {1}
SPECIFICATION FairSpec
INVARIANTS
    InterruptSound
PROPERTIES
    ImplementsConsole
    InterruptEnds
