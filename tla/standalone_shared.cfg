SPECIFICATION FairSpec
CONSTANTS
    Server = "http"
    NCerts = 2
    NDomains = 2
    a1 = a1  a2 = a2
    Addrs = {a1, a2}
    Listen <- MCListen
    Intruder = TRUE
    Free = Free
    Other = Other
INVARIANTS AvailableWhereBound NoStaleAnswer
PROPERTIES RunEnds
