SPECIFICATION Spec
CONSTANTS
    top = top
    skirt = skirt
    Request = {r1, r2}
    Line = {top, skirt}
    Purchased <- TwoAndOne
    Worker = {w1, w2}
    Decided = {"RECEIVED", "INSPECTED"}
    None = None
SYMMETRY Symmetry
CONSTRAINT Unraced
CHECK_DEADLOCK FALSE
INVARIANTS
    ReturnsStand
PROPERTIES
    GoodsAreBack
    NoWayBack
