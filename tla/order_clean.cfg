SPECIFICATION FairSpec
CONSTANTS
    NDomains = 4
    dns = dns  web = web  alone = alone
    base = base  other = other  fourth = fourth
    None = None
    Solvers = {dns, web, alone}
    Kind <- MCKind
    Served = {alone}
    TxtName <- MCTxtName
    Zones <- MCZones
    Offered <- MCOffered
    Retries = 20
    MaxAttempts = 2
    PerDomain <- MCPerDomain
    CertSolver = None
    DefaultSolver = None
    Respelled = {2}
    AuthOrders <- AsConfigured
    FaultyAttempts = {1}
    Faults = {"net", "present", "cleanup", "crash", "ca"}
INVARIANTS TypeOK NothingLeft ChallengeAvailable StaleHarmless
PROPERTIES AttemptEnds ImplementsIssuance
