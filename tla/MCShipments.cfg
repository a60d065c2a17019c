SPECIFICATION Spec
CONSTANTS
    top = top
    Parcel = {p1, p2}
    Line = {top}
    Purchased <- Two
    Reports = {"IN_TRANSIT", "EXCEPTION", "DELIVERED"}
    Manual = {"DELIVERED", "CANCELLED"}
    Worker = {w1, w2}
    MaxCalls = 4
    MaxMishaps = 1
    None = None
SYMMETRY Symmetry
CONSTRAINT Unraced
CHECK_DEADLOCK FALSE
INVARIANTS
    ParcelsStand
PROPERTIES
    
    LastArrivalDelivers
