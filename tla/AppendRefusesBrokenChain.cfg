SPECIFICATION Spec
CONSTANTS
    Appenders = {a1, a2, a3}
    Headers <- MCHeaders
    OperatorToken = "token"
PROPERTIES
    AppendRefusesBrokenChain
