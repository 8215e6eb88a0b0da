\* AssertNonInteractiveRecvComplete for three inbound transfers, called
\* after the first was detected.
CONSTANTS
    EventIds = {1, 2, 3}
    Helper = "recvComplete"
    NumEvents = 3
    Want = 4
    Detected = {1}
SPECIFICATION Spec
PROPERTIES
    RecvCompleteReturns
