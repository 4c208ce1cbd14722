\* Two emissions overlap with each other and with both verifiers.
SPECIFICATION Spec
CONSTANTS
    Event = {e1, e2, e3}
    NoEvent = NoEvent
    Worker = {w1, w2}
    Text = {x, y}
    Reads <- SameText
    Fraction = {0}
    Every = 1
    Window = 2
    Overlap = 1
    Days = {1}
    EmitTime = 1
    SweepTime = 1
    MaxTime = 4
INVARIANTS
    TypeOK
    EveryLinkAnchored
    AlterationIsReported
    SuccessMeansOneChain
    NoEventSkipped
SYMMETRY Symmetry
CHECK_DEADLOCK FALSE
