SPECIFICATION FairSpec
CONSTANTS
    Job = {j1}
    Run = {r1, r2}
    Request = {q1, q2}
    Types <- MixedTypes
    Configured <- OnlyPpf
    Faults <- AllFaults
    NoJob = NoJob
    NoRun = NoRun
    NoType = NoType
INVARIANT
    LastEventIsFinalState
PROPERTY
    JobsEnd
CHECK_DEADLOCK FALSE
