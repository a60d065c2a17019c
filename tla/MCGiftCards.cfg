SPECIFICATION GiftCardsSpec
CONSTANTS
    Card = {c1}
    Order = {o1, o2}
    Handler = {h1, h2}
    Values = {2}
    Totals = {1, 3}
    None = None
SYMMETRY Symmetry
CHECK_DEADLOCK FALSE
INVARIANTS
    LedgerStands
    MoneyIsConserved
    CreditedOnce
