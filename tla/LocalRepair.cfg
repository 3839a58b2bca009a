SPECIFICATION RepairFairSpec
CONSTANTS
    p1 = p1  p2 = p2
    k1 = k1  k2 = k2  k3 = k3
    d1 = d1  d2 = d2
    strict = strict  lax = lax
    Proc = {p1, p2}
    Cli = p1
    Manifest <- MCManifest
    Key = {k1, k2, k3}
    Digest = {d1, d2}
    Artifact = {strict, lax}
    KeyOf <- MCKeyOf
    Pins <- MCPins
    Passes <- MCPasses
    Bytes <- MCBytes
    Limits = {0}
    Ops = {"get", "remove", "gc", "verify"}
    Others = {"get", "gc"}
    Faults = {"abort", "io"}
    MaxSources = 1
    MaxClock = 0
    Malformed = Malformed
    None = None
INVARIANTS
    RepairInv
    RepairClean
    SuccessMeansWhole
PROPERTIES
    RemovesFailedOnly
    NoCallHangs
CHECK_DEADLOCK FALSE
