\* The help text of sync-node against a list with blanks in it.
SPECIFICATION Spec
CONSTANTS
    a = a
    b = b
    c = c
    None = None
    Templates = {a, b, c}
    Commands <- AllCommands
    Lists <- SomeLists
    Layouts = {"compact", "spaced"}
    PollInterval = 1
    WatchTimeout = 2
    MaxCall = 0
INVARIANTS
    OnlyReadyIsSynced
\* the script ends
CHECK_DEADLOCK FALSE
