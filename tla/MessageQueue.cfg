SPECIFICATION LiveSpec
CONSTANTS
    Local = {l1, l2}
    Remote = {m1}
    MaxChunks = 2
    MaxMsgs = 3
    Large = {2, 3}
    Timed = {l1}
    Stoppable = {l2}
INVARIANTS NoOverlap InOrder
PROPERTIES ImplementsBroadcast MessagesArrive ShutdownStops
