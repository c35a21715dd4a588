SPECIFICATION LiveReceiverSpec
CONSTANTS
    N = 3
    Servers = {a1, a2}
    Limit = 2
    MaxAttempts = 2
    MaxFaults = 1
    Modes = {TRUE, FALSE}
    Alive = {2, 3}
INVARIANTS
    TypeOK
    SingleFlight
    SuccessIsReal
    NothingForgotten
PROPERTIES
    DeliveredWithoutFaults
