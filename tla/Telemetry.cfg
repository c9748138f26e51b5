SPECIFICATION TelemetrySpec
CONSTANTS
    p1 = p1
    p2 = p2
    Procs <- TwoProcs
    Sizes = {2, 5}
    MaxBytes = 4
    Missing = Missing
SYMMETRY ProcSymmetry
INVARIANT JournalBounded
PROPERTY OptOutHolds
