\* Two workers on two copies of a message.
SPECIFICATION Spec
CONSTANTS
    t1 = t1
    t2 = t2
    m1 = m1
    m2 = m2
    m3 = m3
    Unknown = Unknown
    Garbage = Garbage
    Malformed = Malformed
    Content <- Texts
    None = None
    Tickets = {t1}
    Messages = {m1, m2}
    Subject <- TwoCopies
    Workers = {w1, w2}
    Errors = {e1}
    MaxReceives = 2
    BatchSize = 2
    MaxOutages = 0
SYMMETRY CopySymmetry
INVARIANTS
    ResultMatchesEvents
    DeletedIsProcessed
    HandledAtMostAsReceived
PROPERTIES
    MixtureIsOverlap
    ImplementsPromise
