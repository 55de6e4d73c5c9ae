SPECIFICATION Spec
CONSTANTS
    timer = timer  operator = operator
    Procs = {timer, operator}
    NCerts = 2
    Rotates = {1}
    Selected <- MCSelected
    Forced <- MCForced
    MaxTtl = 1
    Keys = {k1, k2, k3, k4, k5}
    None = None
    Torn = Torn
SYMMETRY Symmetry
INVARIANTS PendingBacked
PROPERTIES RotationSafe PendingKept KeptKeySafe
