\* Every subcommand against a CubeMaster that may refuse, lose and leave out.
SPECIFICATION Spec
CONSTANTS
    a = a
    b = b
    c = c
    None = None
    Templates = {a, b, c}
    Commands <- AllCommands
    Lists <- SomeLists
    Layouts = {"compact", "spaced"}
    PollInterval = 1
    WatchTimeout = 3
    MaxCall = 1
INVARIANTS
    NoUnaskedRebuild
    SummaryAddsUp
    SuccessIsReal
    WatchIsBounded
\* the script ends
CHECK_DEADLOCK FALSE
