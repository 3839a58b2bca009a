SPECIFICATION FairSpec
CONSTANTS
    Fill = {f1, f2, f3}
    Expected = {1, 3}
    MaxBytes = 1
    MaxFills = 2
    MaxArtifact = 2
    MaxInflight = 3
    MinFree = 1
    Capacity = 5
    Total <- MCTotal
    MaxCrashes = 1
    None = None
INVARIANTS
    IInv
    QuiescentMaintenance
    PayloadEnvelope
    HeadroomKept
PROPERTIES
    ClosedWhileDraining
    DrainEnds
