SPECIFICATION Spec
CONSTANTS
    Job = {j1, j2}
    Run = {r1, r2}
    Request = {q1, q2}
    Types <- UpdateTypes
    Configured <- OnlyPpf
    Faults <- OnlyCrash
    NoJob = NoJob
    NoRun = NoRun
    NoType = NoType
SYMMETRY Symmetry
INVARIANTS
    NoOverlap
    ActiveRowHasDriver
CHECK_DEADLOCK FALSE
