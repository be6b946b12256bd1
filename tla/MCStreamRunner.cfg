SPECIFICATION Spec
CONSTANTS
    Kinds = {"sse", "lines", "ws", "grpc", "http", "unary"}
    Headers <- MCHeaders
    MaxInput = 5
    MaxTime = 3
INVARIANTS
    TokensExact
    AbortedExact
    TimingAddsUp
    RateAgrees
CHECK_DEADLOCK FALSE
