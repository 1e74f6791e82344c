SPECIFICATION ReportsSpec
CONSTANTS
    t1 = t1
    t2 = t2
    held = held
    allowed = allowed
    p1 = p1
    p2 = p2
    Threads = {t1, t2}
    Events <- MCEvents
    NoEvent = NoEvent
    Requests = {held, allowed}
    ActionOf <- MCActionOf
    GuardOf <- MCGuardOf
    PolicyOf <- MCPolicyOf
    Risky = {held, allowed}
    Changed = {}
    Queries <- MCQueries
    Caps <- MCCaps
    DefaultCap = 6
    NotANumber = NotANumber
    None = None
SYMMETRY Symmetry
CHECK_DEADLOCK FALSE
INVARIANTS
    VerdictIsTrue
    CompleteMeansFinalized
    ReportsAddUp
    QueriesRank
    BrokenMeansForked
PROPERTIES
    ImplementsLog
