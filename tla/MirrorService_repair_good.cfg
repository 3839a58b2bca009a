SPECIFICATION Spec
CONSTANTS
    Worker = {w1, w2}
    Other = other
    Key = {k1}
    Digest = {d1, d2}
    Large = {}
    Jobs = {"serve", "repair"}
    Damages = {}
    MaxFaults = 0
    NoMeta = NoMeta
    Garbage = Garbage
    None = None
PROPERTIES
    RepairReplacesBad
