\* Three requests and two connections: a seeded ticket, which has no CREATED event, and unknown ids.
SPECIFICATION FairSpec
CONSTANTS
    t1 = t1
    ts = ts
    tx = tx
    ann = ann
    bob = bob
    nobody = nobody
    r1 = r1
    r2 = r2
    r3 = r3
    None = None
    TicketIds = {ts, tx}
    Tickets = {ts}
    SeedTickets = {ts}
    UserIds = {ann, bob, nobody}
    Users = {ann, bob}
    Agents = {ann}
    PoolSize = 2
    Requests = {r1, r2, r3}
    Calls <- SeedCalls
INVARIANTS
    AnswerMatchesLog
PROPERTIES
    ImplementsLog
    EveryRequestAnswered
