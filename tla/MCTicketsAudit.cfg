\* README.md:82, the audit names who is assigned.
SPECIFICATION Spec
CONSTANTS
    t1 = t1
    ts = ts
    tx = tx
    ann = ann
    bob = bob
    nobody = nobody
    r1 = r1
    r2 = r2
    r3 = r3
    None = None
    TicketIds = {t1, ts, tx}
    Tickets = {t1}
    SeedTickets = {}
    UserIds = {ann, bob, nobody}
    Users = {ann, bob}
    Agents = {ann}
    PoolSize = 3
    Requests = {r1, r2, r3}
    Calls <- AssignOnlyCalls
INVARIANTS
    AssignmentReconstructs
