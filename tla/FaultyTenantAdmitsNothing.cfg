SPECIFICATION Spec
CONSTANTS
    Files <- MCFiles
    Requests <- MCRequests
    Providers <- MCProviders
INVARIANTS
    FaultyTenantAdmitsNothing
