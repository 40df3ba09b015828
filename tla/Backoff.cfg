\* Every interval up to more than twice the ceiling, the ten attempts the
\* configuration allows.
SPECIFICATION Spec
CONSTANTS
    MaxDelay = 5
    MaxInterval = 12
    MaxAttempt = 10
INVARIANTS
    DelayIsExponential
    DelayFits
\* the function returns
CHECK_DEADLOCK FALSE
