SPECIFICATION FairSpec
CONSTANTS
    o1 = o1
    a1 = a1
    a2 = a2
    p1 = p1
    Order = {o1}
    Attempt = {a1, a2}
    Charge = {p1}
    OrderOf <- TwoStartsOrderOf
    AttemptOf <- OneChargeAttemptOf
    Key <- PaymentIds
    KeyOf <- PaymentIdOf
    Types = {"captured", "failed"}
    Moves = {"PAID", "PROCESSING"}
    Worker = {w1, w2}
    MaxMishaps = 1
    None = None
CHECK_DEADLOCK FALSE

    
PROPERTIES
    
    EventsReachTheOrder
