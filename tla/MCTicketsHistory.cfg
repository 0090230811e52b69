\* README.md:78, the history reconstructs from the log.
SPECIFICATION Spec
CONSTANTS
    t1 = t1
    ts = ts
    tx = tx
    ann = ann
    bob = bob
    nobody = nobody
    r1 = r1
    r2 = r2
    r3 = r3
    None = None
    TicketIds = {t1, ts, tx}
    Tickets = {t1}
    SeedTickets = {}
    UserIds = {ann, bob, nobody}
    Users = {ann, bob}
    Agents = {ann}
    PoolSize = 3
    Requests = {r1, r2}
    Calls <- StatusOnlyCalls
INVARIANTS
    HistoryReconstructs
