SPECIFICATION Spec
CONSTANTS
    q1 = q1
    q2 = q2
    i1 = i1
    i2 = i2
    i3 = i3
    f1 = f1
    f2 = f2
    t1 = t1
    t2 = t2
    Requests = {q1, q2}
    Ids = {i1, i2, i3}
    Files = {f1, f2}
    Tabs = {t1}
    MaxFiles = 2
    MaxAttempts = 2
    NoId = NoId
    NoRequest = NoRequest
    Faults = {"select", "flush", "drop", "lost_answer", "timeout", "reload", "delete"}
SYMMETRY Symmetry
INVARIANTS
    TypeOK
    StoredOnce
    ReportedIsStored
    NoOrphanBlob
PROPERTY LedgerRefined
