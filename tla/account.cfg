SPECIFICATION Spec
CONSTANTS
    Ids = {id1, id2, id3, id4, id5}
    None = None
    Torn = Torn
    Faults = {"load", "net", "lost", "io", "crash"}
SYMMETRY Symmetry
INVARIANTS UsableAccount AccountStored
