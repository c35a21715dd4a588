SPECIFICATION LiveReceiverSpec
CONSTANTS
    N = 1
    Servers = {a1}
    Limit = 1
    MaxAttempts = 5
    MaxFaults = 0
    Modes = {TRUE}
    Alive = {1}
PROPERTIES
    EventuallySettled
