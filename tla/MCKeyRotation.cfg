\* Two callers change from key a to key b on two instances that start again and
\* again from a file whose other fields are edited at will.
SPECIFICATION RotationSpec
CONSTANTS
    c1 = c1
    c2 = c2
    i1 = i1
    i2 = i2
    Text <- MCText
    Instances = {i1, i2}
    Files <- MCFiles
    Urls <- MCUrls
    TooLong <- MCTooLong
    Headers <- MCHeaders
    SyncCalls <- MCSyncCalls
    Callers = {c1, c2}
    OldKey = "a"
    NewKey = "b"
    KeyLists <- MCKeyLists
SYMMETRY Symmetry
INVARIANTS
    ServingIsValid
    KeysAreExact
    AllowListIsExact
    RotationIsSmooth
