\* time.Duration scaled from 64 to 8 bits and the exponent limit from 32
\* to 3, keeping the threshold initialDelay >= 2^(bits-1-limit) at which the
\* product overflows (2^31 ns, about 2.15 s, in the code).
CONSTANTS
    c1 = c1
    Clients = {c1}
    NumRetries = 4
    InitialRetryDelay = 16
    MaxRetryDelay = 100
    Backend = "sqlite"
    DurationBits = 8
    MaxExponent = 3
    InjectedErrors <- MCInjectedErrors
    c2 = c2
SPECIFICATION Spec
INVARIANTS
    NoShortBackoff
