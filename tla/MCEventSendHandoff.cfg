\* AssertSendEvents from state 0 to state 1 of 3, for a target script key:
\* the caller keeps the stream for AssertSendEventsComplete.
CONSTANTS
    Calls <- MCHandoffCalls
SPECIFICATION Spec
INVARIANTS
    StreamStateOnReturn
