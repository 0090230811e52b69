\* The API and the worker on one ticket and its log.
SPECIFICATION Spec
CONSTANTS
    t1 = t1
    ann = ann
    m1 = m1
    m2 = m2
    None = None
    TicketIds = {t1}
    Tickets = {t1}
    SeedTickets = {}
    UserIds = {ann}
    Users = {ann}
    Agents = {ann}
    Requests = {r1}
    Calls <- TwoCalls
    PoolSize = 1
    Messages = {m1, m2}
    Content <- Texts
    Subject <- Subjects
    Unknown = Unknown
    Garbage = Garbage
    Malformed = Malformed
    Workers = {w1}
    Errors = {e1}
    MaxReceives = 2
    BatchSize = 1
    MaxOutages = 0
INVARIANT
    ResultIsLogged
PROPERTIES
    EveryChangeIsRecorded
    ImplementsLog
