SPECIFICATION Spec
CONSTANTS
    Appenders = {a1, a2}
    Headers <- MCHeaders
    OperatorToken = "token"
INVARIANTS
    DamagedFileIsKept
