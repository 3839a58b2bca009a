SPECIFICATION Spec
CONSTANTS
    p1 = p1  p2 = p2  p3 = p3
    k1 = k1  k2 = k2  k3 = k3
    d1 = d1  d2 = d2  d3 = d3
    pinned = pinned  moved = moved  plain = plain  other = other  third = third
    Proc = {p1, p2}
    Key = {k1, k2}
    Digest = {d1, d2}
    Artifact = {pinned, moved, plain, other}
    KeyOf <- MCKeyOf
    Pins <- MCPins
    Passes <- MCPasses
    Bytes <- MCBytes
    Limits = {0}
    Ops = {"get", "remove", "gc", "peek", "verify"}
    Faults = {"abort", "io", "rot", "mangle"}
    MaxSources = 2
    MaxClock = 0
    Malformed = Malformed
    None = None
INVARIANTS
    IInv
    NoDanglingEntry
    HitStable
    NoLockCycle
    OneFetchPerKey
PROPERTIES
    ImplementsContentCache
