SPECIFICATION Spec
CONSTANTS
    Worker = {w1, w2}
    Other = other
    Key = {k1}
    Digest = {d1, d2}
    Large = {d2}
    Jobs = {"repair"}
    Damages = {"metadata", "body", "deletion", "outage"}
    MaxFaults = 1
    NoMeta = NoMeta
    Garbage = Garbage
    None = None
SYMMETRY Symmetry
INVARIANTS
    UploadsFaithful
PROPERTIES
    ReplaceObserved
