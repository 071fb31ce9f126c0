SPECIFICATION Spec
CONSTANTS
    DIGIT = 16
    LANES = 2
    PAGE_SIZ = 2048
    NPages = 2
    Cells <- MCCells
    Rom <- MCRom
    Jobs <- MCJobs
    NoJob = NoJob
    Faults = {}
    MaxFaults = 0
    Partials = {}
    StuckSets <- SomeStuck
PROPERTIES ErasesWhenFull RefinesSubtractor
