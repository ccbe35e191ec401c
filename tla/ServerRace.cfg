SPECIFICATION Spec
CONSTANTS
    Tenants <- MCTenants
    Lattice <- MCLattice
    Providers <- MCProviders
    Threads = {t1, t2}
    Operators = {o1, o2}
    Intents = {"intent-1"}
    Requests <- AdmissibleRequests
    OperatorRequests <- AcceptedOverrides
    OperatorToken = "token"
    Workflows = {"governed-intake"}
    DriftScores = {}
SYMMETRY Symmetry
INVARIANTS
    TypeOK
    ChainIntact
    ExecutionBoundToDecision
    BarredNeverAdmitted
    OverriddenConflicts
    InFlightOverrideWins
    AuditOrder
    OverrideHolds
PROPERTIES
    AppendOnly
    ImplementsGovernedRuntime
