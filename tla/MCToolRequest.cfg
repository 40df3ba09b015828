SPECIFICATION Spec

CONSTANTS
    Text <- MCText
    Inputs <- MCInputs
    ToolNames <- MCToolNames
    Over200 <- MCOver200
    Over64 <- MCOver64
    Timeouts <- MCTimeouts
    Absolute <- MCAbsolute
    Addresses <- MCAddresses
    UpperCase <- MCUpperCase
    LowerCase <- MCLowerCase

INVARIANTS
    TypeOK
    SentIsUnique
    RefusedForCause
    SentIsComplete
    SentIsStable
    ImageCommandIsNotRefused

\* a body that was sent or refused is done
CHECK_DEADLOCK FALSE
