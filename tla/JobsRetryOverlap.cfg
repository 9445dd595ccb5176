SPECIFICATION Spec
CONSTANTS
    Job = {j1}
    Run = {r1, r2}
    Request = {q1, q2}
    Types <- RetryTypes
    Configured <- OnlyPpf
    Faults <- NoFaults
    NoJob = NoJob
    NoRun = NoRun
    NoType = NoType
INVARIANT
    KeyIsExclusive
CHECK_DEADLOCK FALSE
