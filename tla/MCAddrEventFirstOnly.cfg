CONSTANTS
    EventIds = {1, 2, 3}
    Helper = "addrEvent"
    NumEvents = 2
    Want = 4
    Detected = {}
SPECIFICATION Spec
INVARIANTS
    PollSound
