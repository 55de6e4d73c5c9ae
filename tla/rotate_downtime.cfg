SPECIFICATION Spec
CONSTANTS
    NCerts = 1
    NHooks = 1
    MaxTtl = 2
    k1 = k1  k2 = k2  k3 = k3  k4 = k4
    s1 = s1  s2 = s2  s3 = s3
    n1 = n1  n2 = n2  n3 = n3
    None = None
    Corrupt = Corrupt
    Keys = {k1, k2, k3, k4}
    Serials = {s1, s2, s3}
    Names = {n1, n2, n3}
    RotateKey <- MCRotateKey
    Dane <- MCDane
    NamedHooks <- MCNamedHooks
    InlineHooks <- MCInlineHooks
    Commands <- MCTimerOnly
    Faults = {}
INVARIANTS PrePublishedZeroDowntime
