\* A client lists tickets page by page while others are created and changed.
SPECIFICATION Spec
CONSTANTS
    s1 = s1
    s2 = s2
    t1 = t1
    t2 = t2
    Tickets = {s1, s2, t1, t2}
    SeedTickets = {s1, s2}
    PageSizes = {1, 2}
SYMMETRY TicketSymmetry
INVARIANTS
    MissedIsExplained
    RepeatIsArrival
    TotalFitsPage
