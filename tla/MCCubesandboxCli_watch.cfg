\* A build that is ready, reported by an answer without all its fields.
SPECIFICATION Spec
CONSTANTS
    a = a
    b = b
    c = c
    None = None
    Templates = {a, b, c}
    Commands <- AllCommands
    Lists <- SomeLists
    Layouts = {"compact", "spaced"}
    PollInterval = 1
    WatchTimeout = 2
    MaxCall = 0
INVARIANTS
    ReadyIsReported
\* the script ends
CHECK_DEADLOCK FALSE
