\* Two create requests against the registry and AGS, no status calls.
SPECIFICATION Spec
CONSTANTS
    r1 = r1
    r2 = r2
    img = img
    n1 = n1
    n2 = n2
    k = k
    t1 = t1
    t2 = t2
    None = None
    OwnCommand = OwnCommand
    Images = {img}
    Names = {n1, n2}
    Tokens = {k}
    ToolIds = {t1, t2}
    Requests = {r1, r2}
    Queries = {}
    Payloads <- CreatePayloads
    MaxPushes = 1
    MaxCrashes = 1
SYMMETRY Symmetry
INVARIANTS
    TypeOK
    AcceptedToolExists
    RejectionIsFinal
    TokenRetryIsSafe
    ConflictIsForeign
    CommandIsFresh
PROPERTIES
    KeepsPromise
\* every request may be answered and nothing left to do
CHECK_DEADLOCK FALSE
