SPECIFICATION RefundsFairSpec
CONSTANTS
    Admin = {a1, a2}
    Refund = {r1, r2, r3}
    Paid = 2
    Amounts = {1, 2}
    MaxMishaps = 1
    None = None
INVARIANTS
    MoneyIsRecorded
    
PROPERTIES
    PendingIsSettled
