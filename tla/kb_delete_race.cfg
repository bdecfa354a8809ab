SPECIFICATION Spec
CONSTANTS
    r1 = r1
    r2 = r2
    r3 = r3
    d1 = d1
    s1 = s1
    NoProc = NoProc
    Requests = {r1, r2}
    Deleters = {d1}
    Readers = {}
    MaxOutputs = 1
    Faults = {}
SYMMETRY RequestSymmetry
INVARIANTS
    DeleteRemovesArtifacts
