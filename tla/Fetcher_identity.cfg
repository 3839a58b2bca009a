SPECIFICATION Spec
CONSTANTS
    a = a
    b = b
    A = A
    A2 = A2
    B = B
    Z = Z
    va = va
    vb = vb
    w = w
    None = None
    Fails = Fails
    NoFile = NoFile
    Host = {a, b}
    Spelling = {A, A2, B, Z}
    Variable = {va, vb, w}
    Canon <- CanonDef
    TokenVar <- TokenVarDef
    Worlds <- IdentityWorlds
    DefaultRoot = "default"
    MaxU64 = 3
    Sources <- SourcesDef
    Targets <- TargetsDef
    Netrcs <- NetrcsDef
    Vaults = {"fails"}
    MaxHops = 2
    MaxEdits = 0
INVARIANT IdentityOfSent
CHECK_DEADLOCK FALSE
