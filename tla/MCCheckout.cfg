SPECIFICATION Spec
CONSTANTS
    dress = dress
    Customer = {c1, c2}
    Article <- Articles
    Groups <- PartsGroup
    Whole = Whole
    Stock <- TwoLeft
    Key = {k1}
    UsageLimit = 2
    PerUserLimit = 1
    Handler = {h1, h2}
    MaxRequests = 3
    NoKey = NoKey
SYMMETRY Symmetry
CHECK_DEADLOCK FALSE
INVARIANTS
    BagsStand
    LimitsHold
    
