SPECIFICATION FormsSpec
CONSTANTS
    Texts <- FieldTexts
    QueueLimit = 1
    MaxForms = 2
    MaxStarts = 2
INVARIANTS
    FormsInv
    AsAsked
PROPERTIES
    RejectedIsHarmless
CHECK_DEADLOCK FALSE
