SPECIFICATION Spec

CONSTANTS
    Text <- MCText
    Inputs <- MCInputs
    ToolNames <- MCToolNames
    Over200 <- MCOver200
    Over64 <- MCOver64
    Timeouts <- MCTimeouts
    Absolute <- MCAbsolute
    Addresses <- MCAddresses
    UpperCase <- MCUpperCase
    LowerCase <- MCLowerCase

INVARIANT
    EntrypointIsUsed

\* a body that was sent or refused is done
CHECK_DEADLOCK FALSE
