SPECIFICATION Spec
CONSTANTS
    None = None
    NoPin = NoPin
    HtmlWindow = 2
    Window = 2
    Artifact = {"loose", "binary", "text", "pins", "clash", "odd"}
    Body <- BodyDef
    Length <- LengthDef
    Sources <- SourcesDef
    BadHeads <- BadHeadsDef
    Accepted <- AcceptedDef
    Chunks = {1, 2, 3}
    Budgets = {None, 3, 5}
INVARIANTS
    BudgetHeld
    RejectedEarly
    ContentJudged
    LayersInOrder
PROPERTIES
    VerdictsFinal
CHECK_DEADLOCK FALSE
