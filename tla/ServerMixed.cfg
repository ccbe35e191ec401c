SPECIFICATION Spec
CONSTANTS
    Tenants <- MCTenants
    Lattice <- MCLattice
    Providers <- MCProviders
    Threads = {t1, t2}
    Operators = {o1}
    Intents = {"intent-1", "intent-2"}
    Requests <- MixedRequests
    OperatorRequests <- OperatorCalls
    OperatorToken = "token"
    Workflows = {"governed-intake", "otem-execution", "unknown"}
    DriftScores = {49, 50}
SYMMETRY Symmetry
INVARIANTS
    ProviderContactIsGoverned
    AnswersMatchLedger
    OverridesAreScoped
    OverridesAreAttributable
