SPECIFICATION FairFaultSpec
CONSTANTS
    Tenants <- MCTenants
    Lattice <- MCLattice
    Providers <- MCProviders
    Threads = {t1, t2}
    Operators = {o1}
    Intents = {"intent-1"}
    Requests <- AdmissibleRequests
    OperatorRequests <- OneInterrupt
    OperatorToken = "token"
    Workflows = {"governed-intake"}
    DriftScores = {}
INVARIANTS
    BrokenFailsClosed
PROPERTIES
    BreakIsPermanent
    EveryRequestAnswered
    EveryOverrideLedgered
