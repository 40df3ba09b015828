\* One user runs the sync subcommand: a call with three attempts against an
\* arbitrary upstream.
SPECIFICATION ScriptSpec
CONSTANTS
    MaxAttempts = 3
    RequestTimeout = 8
    AttemptTimeout = 3
    RetryDelay <- Delays
INVARIANTS
    TypeOK
    ScheduleIsKept
    GivesUpForCause
    SentIsBounded
    
    SyncVerdictIsTrue
PROPERTIES
    EndedWaitIsFinal
    RetriesOnlyTransient
    BackoffIsWaited
    SyncScriptExits
\* the script ends
CHECK_DEADLOCK FALSE
