\* Three requests on users: first tickets, new agents, updates and deactivations at once.
SPECIFICATION Spec
CONSTANTS
    alice = alice
    bob = bob
    r1 = r1
    r2 = r2
    r3 = r3
    old = old
    new = new
    None = None
    Emails = {"alice", "bob", "carol"}
    Names = {old, new}
    SeedUsers = {alice, bob}
    SeedRow <- SeedRows
    Requests = {r1, r2, r3}
    Calls <- SmallCalls
INVARIANTS
    TypeOK
    EmailUnique
    TicketHasItsCustomer
    ViolationIsOverlap
    AnswerTellsEffect
PROPERTIES
    NothingChangesUnasked
    EveryRequestAnswered
