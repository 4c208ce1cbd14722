\* One emission at a time; the clock is finer than the database's.
SPECIFICATION Spec
CONSTANTS
    Event = {e1, e2, e3}
    NoEvent = NoEvent
    Worker = {w1}
    Text = {x, y}
    Reads <- SameText
    Fraction = {0, 1}
    Every = 1
    Window = 2
    Overlap = 1
    Days = {1}
    EmitTime = 1
    SweepTime = 1
    MaxTime = 4
INVARIANTS
    IntactChainVerifies
SYMMETRY Symmetry
CHECK_DEADLOCK FALSE
