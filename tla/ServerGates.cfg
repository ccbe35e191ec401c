SPECIFICATION Spec
CONSTANTS
    Tenants <- MCTenants
    Lattice <- MCLattice
    Providers <- MCProviders
    Threads = {t1}
    Operators = {o1}
    Intents = {"intent-1"}
    Requests <- GateRequests
    OperatorRequests <- CallsWithoutToken
    OperatorToken = ""
    Workflows = {}
    DriftScores = {}
INVARIANTS
    AdmittedIffPolicy
