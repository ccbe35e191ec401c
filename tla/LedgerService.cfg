SPECIFICATION Spec
CONSTANTS
    Appenders = {a1, a2, a3}
    Headers <- MCHeaders
    OperatorToken = "token"
SYMMETRY AppenderSymmetry
INVARIANTS
    ServiceTypeOK
    SerialChain
    AcknowledgedKept
PROPERTIES
    BrokenFileKept
