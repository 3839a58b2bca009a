SPECIFICATION FairSpec
CONSTANTS
    a = a
    b = b
    A = A
    A2 = A2
    B = B
    Z = Z
    va = va
    vb = vb
    w = w
    None = None
    Fails = Fails
    NoFile = NoFile
    Host = {a, b}
    Spelling = {A, A2, B, Z}
    Variable = {va, vb, w}
    Canon <- CanonDef
    TokenVar <- TokenVarDef
    Worlds <- WorldsDef
    DefaultRoot = "default"
    MaxU64 = 3
    Sources <- SourcesDef
    Targets <- TargetsDef
    Netrcs <- NetrcsDef
    Vaults = {"fails"}
    MaxHops = 3
    MaxEdits = 1
INVARIANTS
    EvictsNamedDirOnly
    SecretStaysHome
    OnlyGrantedCredentials
    ReportsWhatWasSent
PROPERTIES
    NoPlaintextAfterTLS
    RequestEnds
CHECK_DEADLOCK FALSE
