\* Four calls, each checked with its own daemon:
\*  - AssertReceiveEvents: detected (1), confirmed, proof received,
\*    completed (4); the daemon starts at or just before detected and emits
\*    up to five events;
\*  - AssertMintEvents: frozen (2) to finalized (6), up to five events;
\*  - AssertSendEventsComplete without a target script key: the two last
\*    send states, wait-for-confirmation (2) and complete (3);
\*  - AssertSendEvents for a target script key from state 0 to state 1 of
\*    3, which returns with the stream left open for its caller.
CONSTANTS
    Calls <- MCCalls
SPECIFICATION Spec
INVARIANTS
    VerdictSound
PROPERTIES
    HelperFinishes
    ImplementsAbstract
