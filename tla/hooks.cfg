SPECIFICATION Spec
CONSTANTS
    Units = {"web", "mail"}
    HookList <- MCHookList
    MaxRenewals = 2
INVARIANTS Served
PROPERTIES NotStarted Converges
