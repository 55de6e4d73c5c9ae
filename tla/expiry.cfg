SPECIFICATION Spec
CONSTANTS
    RenewBeforeDays = 3
    Lifetime <- MCLifetime
    Delays <- MCDelays
    MaxFailures = 5
INVARIANTS Boundary StillValid
