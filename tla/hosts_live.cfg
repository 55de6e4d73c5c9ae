SPECIFICATION FairSpec
CONSTANTS
    NCerts = 2
    NHooks = 2
    MaxTtl = 1
    k1 = k1  k2 = k2  k3 = k3  k4 = k4
    s1 = s1  s2 = s2  s3 = s3
    n1 = n1  n2 = n2  n3 = n3
    None = None
    Corrupt = Corrupt
    Keys = {k1, k2, k3, k4}
    Serials = {s1, s2}
    Names = {n1}
    RotateKey <- RotateAndKeep
    Dane <- PrePublishDane
    NamedHooks <- SharedHooks
    InlineHooks <- SecondInline
    Commands <- MCPublisher
    Faults = {"dns"}
INVARIANTS HooksSettled
PROPERTIES RunEnds OthersRenewed PendingCompletes
