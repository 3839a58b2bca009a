SPECIFICATION Spec
CONSTANTS
    Worker = {w1, w2}
    Other = other
    Key = {k1, k2}
    Digest = {d1}
    Large = {}
    Jobs = {"mirror"}
    Damages = {}
    MaxFaults = 0
    NoMeta = NoMeta
    Garbage = Garbage
    None = None
SYMMETRY Symmetry
PROPERTIES
    PinsKept
