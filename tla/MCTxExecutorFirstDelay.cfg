CONSTANTS
    c1 = c1
    c2 = c2
    Clients <- MCClients
    NumRetries = 3
    InitialRetryDelay = 8
    MaxRetryDelay = 6
    Backend = "sqlite"
    DurationBits = 16
    MaxExponent = 32
    InjectedErrors <- MCInjectedErrors
SPECIFICATION Spec
INVARIANTS
    DelayCapped
