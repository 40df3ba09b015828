\* One user of the script and one other user of the status endpoint: every call
\* is answered and the script ends, whatever the registry, AGS and the process do.
SPECIFICATION ScriptSpec
CONSTANTS
    r1 = r1
    r2 = r2
    img = img
    n1 = n1
    n2 = n2
    k = k
    q1 = q1
    t1 = t1
    t2 = t2
    None = None
    OwnCommand = OwnCommand
    Images = {img}
    Names = {n1, n2}
    Tokens = {k}
    ToolIds = {t1, t2}
    Requests = {r1}
    Queries = {r1, q1}
    Payloads <- OneUser
    MaxPushes = 0
    MaxCrashes = 1
    PollInterval = 1
    PollTimeout = 4
    MaxLag = 1
INVARIANTS
    StatusIsTruthful
PROPERTIES
    EveryQueryAnswered
    EveryScriptExits
    KeepsPromiseLive
    GoneLeaveNothing
CHECK_DEADLOCK FALSE
