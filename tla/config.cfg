SPECIFICATION Spec
CONSTANTS
    Configs <- MCConfigs
    Labels = {"org", "net", "a", "www", "192.0.2.1", "_acme-challenge"}
    Owners = {"root"}
    None = None
INVARIANTS AcceptedWorks ClosestZone HooksFound
CHECK_DEADLOCK FALSE
