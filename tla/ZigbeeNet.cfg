SPECIFICATION Spec
CONSTANTS
    Texts = {"0", "1"}
    Tens = {1, 2}
    AnswerLengths = {6, 7}
    MaxEvents = 3
INVARIANTS
    ZigbeeInv
    StaleBounded
    QueryAnswered
PROPERTIES
    FanInOrder
CHECK_DEADLOCK FALSE
