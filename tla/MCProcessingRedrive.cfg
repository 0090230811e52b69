\* README.md:69, failed messages redrive to the DLQ.
SPECIFICATION UndisturbedSpec
\* The worker may end for good, and everything with it.
CHECK_DEADLOCK FALSE
CONSTANTS
    t1 = t1
    t2 = t2
    m1 = m1
    m2 = m2
    m3 = m3
    Unknown = Unknown
    Garbage = Garbage
    Malformed = Malformed
    Content <- Texts
    None = None
    Tickets = {t1, t2}
    Messages = {m1, m2}
    Subject <- OneEach
    Workers = {w1}
    Errors = {e1}
    MaxReceives = 2
    BatchSize = 2
    MaxOutages = 1
PROPERTIES
    FailuresAreRedriven
