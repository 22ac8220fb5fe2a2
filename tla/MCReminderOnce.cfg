SPECIFICATION Spec
CONSTANTS
    Requests = {r1, r2}
    Runs = {w1, w2}
    Nobody = Nobody
    Schedule <- ScheduleDef
    LongestDelay = 1
    MaxDeaths = 1
    MaxClosings = 0
INVARIANTS
    SentOncePerSlot
