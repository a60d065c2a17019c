SPECIFICATION FairSpec
CONSTANTS
    v1 = v1
    v2 = v2
    c1 = c1
    c2 = c2
    l1 = l1
    l2 = l2
    l3 = l3
    Variant = {v1, v2}
    Customer = {c1, c2}
    Staff = {s1, s2}
    Line = {l1, l2, l3}
    OwnerOf <- SharedOwnerOf
    VariantOf <- SharedVariantOf
    Qty <- SharedQty
    Opening <- SharedOpening
    Adjustments <- OneOff
    Targets <- EmptyShelf
    None = None
CHECK_DEADLOCK FALSE
INVARIANTS
    StockIsExplained
    NumbersAreTheCount
PROPERTIES
    SaleIsAtomic
    EveryRequestIsAnswered
