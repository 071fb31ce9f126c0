SPECIFICATION Spec
CONSTANTS
    DIGIT = 64
    LANES = 2
    PAGE_SIZ = 2048
    Jobs <- MCWideJobs
    NoJob = NoJob
    NoResp = NoResp
INVARIANT CompleteCellsHold
PROPERTY RefinesSubtractor
