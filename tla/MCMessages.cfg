SPECIFICATION Spec
CONSTANTS
    None = None
    Sid = {s1, s2}
    Minute = 1
    Window = 1
    Take = 200
    MaxTime = 2
    MaxRequests = 2
    MaxChanges = 2
CHECK_DEADLOCK FALSE
INVARIANTS
    LogIsTrue
    
PROPERTIES
    EveryoneIsTold
