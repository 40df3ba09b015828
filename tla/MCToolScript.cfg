\* Two users run the tool subcommand against one server that may restart.
SPECIFICATION ScriptSpec
CONSTANTS
    r1 = r1
    r2 = r2
    img = img
    n1 = n1
    n2 = n2
    k = k
    q1 = q1
    t1 = t1
    t2 = t2
    None = None
    OwnCommand = OwnCommand
    Images = {img}
    Names = {n1, n2}
    Tokens = {k}
    ToolIds = {t1, t2}
    Requests = {r1, r2}
    Queries = {r1, r2}
    Payloads <- TwoUsers
    MaxPushes = 0
    MaxCrashes = 1
    PollInterval = 1
    PollTimeout = 2
    MaxLag = 1
SYMMETRY Symmetry
INVARIANTS
    VerdictIsTrue
    PollsAreBounded
CHECK_DEADLOCK FALSE
