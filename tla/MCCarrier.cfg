SPECIFICATION CarrierSpec
CONSTANTS
    Nobody = Nobody
    bluedart = bluedart
    delhivery = delhivery
    xpressbees = xpressbees
    Package = {p1}
    Handler = {w1, w2}
    Courier = {bluedart, delhivery, xpressbees}
    Rate <- Rates
    Days <- Times
    Rule = "cheapest"
    Preferred = delhivery
    Tries = 2
    MaxRequests = 3
    MaxFailures = 1
    MaxRevoked = 1
SYMMETRY Symmetry
INVARIANTS
    BookedOnceAndKnown
    CancelledIsCalledOff
    RevocationIsUnnoticed
CHECK_DEADLOCK FALSE
