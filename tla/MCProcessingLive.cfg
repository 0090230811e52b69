\* A message that ends the worker: every message is decided, stops are heeded and the promise is kept,
\* when somebody starts the worker again.
SPECIFICATION AttendedSpec
CONSTANTS
    t1 = t1
    t2 = t2
    m1 = m1
    m2 = m2
    m3 = m3
    Unknown = Unknown
    Garbage = Garbage
    Malformed = Malformed
    Content <- Texts
    None = None
    Tickets = {t1}
    Messages = {m1, m2}
    Subject <- OnePoisoned
    Workers = {w1}
    Errors = {e1}
    MaxReceives = 3
    BatchSize = 2
    MaxOutages = 1
PROPERTIES
    ImplementsPromise
    EveryMessageDecided
    StopIsHeeded
