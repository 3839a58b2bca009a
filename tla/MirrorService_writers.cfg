SPECIFICATION Spec
CONSTANTS
    Worker = {w1, w2}
    Other = other
    Key = {k1}
    Digest = {d1, d2}
    Large = {d2}
    Jobs = {"serve", "mirror"}
    Damages = {}
    MaxFaults = 1
    NoMeta = NoMeta
    Garbage = Garbage
    None = None
SYMMETRY Symmetry
INVARIANTS
    IInv
    SuccessMeansStored
PROPERTIES
    NoStrayUpload
    Immutable
    PinNamesObject
    ImplementsMirror
