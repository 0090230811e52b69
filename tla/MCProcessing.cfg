\* The deployed worker, a message that was sent twice, and a foreign one, with deaths and stops.
SPECIFICATION Spec
CONSTANTS
    t1 = t1
    t2 = t2
    m1 = m1
    m2 = m2
    m3 = m3
    Unknown = Unknown
    Garbage = Garbage
    Malformed = Malformed
    Content <- Texts
    None = None
    Tickets = {t1}
    Messages = {m1, m2, m3}
    Subject <- CopiesAndForeign
    Workers = {w1}
    Errors = {e1}
    MaxReceives = 2
    BatchSize = 2
    MaxOutages = 1
SYMMETRY CopySymmetry
INVARIANTS
    TypeOK
    PublishedAfterCommit
    HandledAtMostAsReceived
    AbandonedIsPending
    StopDrainsBatch
    RowIsConsistent
    FailedIsPursued
