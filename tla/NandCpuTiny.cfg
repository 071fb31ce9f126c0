SPECIFICATION Spec
CONSTANTS
    DIGIT = 1
    LANES = 2
    PAGE_SIZ = 24
    NPages = 2
    Cells <- MCCells
    Rom <- MCErasingRom
    Jobs <- MCJobs
    NoJob = NoJob
    Faults = {"romread", "read", "write", "erase"}
    MaxFaults = 2
    Partials <- MCPartials
    StuckSets <- MCStuck
INVARIANTS IInv FreshPages ReadsProgrammed FetchesImage ReplicasAgree VoteTolerates TinyRoundCorrect
