SPECIFICATION Spec
CONSTANTS
    p1 = p1  p2 = p2  p3 = p3
    k1 = k1  k2 = k2  k3 = k3
    d1 = d1  d2 = d2  d3 = d3
    pinned = pinned  moved = moved  plain = plain  other = other  third = third
    Proc = {p1}
    Key = {k1, k2, k3}
    Digest = {d1, d2, d3}
    Artifact = {pinned, moved, other, third}
    KeyOf <- MCKeyOf
    Pins <- MCPins
    Passes <- MCPasses
    Bytes <- MCBytes
    Limits = {0, 2, 3, 4}
    Ops = {"import", "remove", "gc"}
    Faults = {"abort", "io", "mangle"}
    MaxSources = 1
    MaxClock = 2
    Malformed = Malformed
    None = None
INVARIANTS
    GcMeetsBudget
PROPERTIES
    EvictsInOrder
