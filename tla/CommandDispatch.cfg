SPECIFICATION Dispatching
CONSTANTS
    Sender = {c1, c2}
    Device = {led, fan}
    SignalHeld = {fan}
    QueueLimit = 2
    MaxCommands = 3
    MaxBoots = 2
INVARIANTS
    DispatchInv
    ActsBounded
PROPERTIES
    CommandStable
    InOrder
    IdleWorkerActs
    SenderServed
CHECK_DEADLOCK FALSE
