CONSTANTS
    Conn = {1, 2, 3}
    Scenarios <- MCScenarios
    MaximumClientWritesPending = 2
    ClientNetWriteBufferSize = 24
    TopicAliasMaximum = 4
    MaxConcurrentConn = 2
    MaxConnPerSec = 3
    MaxAuthPerConn = 1
    MaxConnectionsPerSecond = 1
    MaxProperties = 2
    MaxKeySize = 30
    MaxValueSize = 20
    MaxPropertyPayload = 40
    MaxClientBudget = 4
    Permissions <- MCPermissions
    Tokens <- MCTokens
    RequireSignature = FALSE
    VerifySignature = TRUE
    Users <- MCUsers
    Auth <- MCAuth
    ACL <- MCACL
SPECIFICATION Spec
CHECK_DEADLOCK FALSE
INVARIANTS ConcurrencyKept TokenSpent Forwarded InOrderAndFlushed RoundTrip
