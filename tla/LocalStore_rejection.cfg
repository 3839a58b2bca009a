SPECIFICATION Spec
CONSTANTS
    p1 = p1  p2 = p2  p3 = p3
    k1 = k1  k2 = k2  k3 = k3
    d1 = d1  d2 = d2  d3 = d3
    pinned = pinned  moved = moved  plain = plain  other = other  third = third
    Proc = {p1}
    Key = {k1}
    Digest = {d1, d2}
    Artifact = {pinned, moved}
    KeyOf <- MCKeyOf
    Pins <- MCPins
    Passes <- MCPasses
    Bytes <- MCBytes
    Limits = {0}
    Ops = {"get"}
    Faults = {"rot"}
    MaxSources = 1
    MaxClock = 0
    Malformed = Malformed
    None = None
INVARIANTS
    RejectionNamesKeys
