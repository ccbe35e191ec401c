SPECIFICATION Spec
CONSTANTS
    Files <- MCFiles
    Requests <- MCRequests
    Providers <- MCProviders
INVARIANTS
    AcceptedWasDeclared
    LanesAreIsolated
    RemovalOnlyRefuses
    UnreadableAdmitsNothing
