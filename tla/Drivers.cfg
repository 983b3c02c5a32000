SPECIFICATION Drivers
CONSTANTS
    LedBytes = {65, 68, 70}
    SegBytes = {117}
    Times = 1
    Reader = {transfer, adc_test}
    MaxReads = 5
    MaxBroken = 1
INVARIANTS
    DriversInv
    LostUpdatesBounded
    Current
    WillWake
CHECK_DEADLOCK FALSE
