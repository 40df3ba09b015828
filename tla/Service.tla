------------------------------- MODULE Service -------------------------------
(***************************************************************************)
(* The instances of the server and the config file they start from.        *)
(* config.Load, validateConfig and the constructors of both clients decide *)
(* at start whether an instance serves; from then on the middleware and    *)
(* the checks of the sync endpoint answer by what was read at that start,  *)
(* whatever the file says since.                                           *)
(***************************************************************************)
EXTENDS RawText, Integers

CONSTANTS
    Instances,   \* processes started from the one file
    Files,       \* config files an operator may write
    Urls,        \* texts that are http or https URLs with a host
    TooLong,     \* TooLong[f]: texts too long for the sync parameter f
    Headers,     \* what callers put into X-API-Key
    SyncCalls    \* parameters of sync calls, a subset of SyncType

TextFields == {"SecretID", "SecretKey", "Region", "Endpoint", "SyncEndpoint",
               "Username", "Password"}
Timeouts == {"TencentCloud", "ImageSync", "Attempt", "Registry"}
NumberFields == Timeouts \cup {"MaxResponseBytes", "MaxAttempts", "RetryInterval"}
SyncFields == {"srcHub", "dstHub", "group", "image", "tag"}

\* a missing list and an empty one both keep the server from starting
IsFile(f) ==
    /\ f \in [keys : Seq(Raw), images : Seq(Raw), texts : {f.texts}, numbers : {f.numbers}]
    /\ DOMAIN f.texts \subseteq TextFields /\ f.texts \in [DOMAIN f.texts -> Raw]
    /\ DOMAIN f.numbers \subseteq NumberFields /\ f.numbers \in [DOMAIN f.numbers -> Int]

SyncType == [SyncFields -> Raw]

DefaultTexts == [SecretID |-> Omitted, SecretKey |-> Omitted, Region |-> Plain("ap-shanghai"),
                 Endpoint |-> Plain("ags"), SyncEndpoint |-> Plain("http://sync"),
                 Username |-> Omitted, Password |-> Omitted]

\* durations in milliseconds
DefaultNumbers == [TencentCloud |-> 10000, ImageSync |-> 20000, Attempt |-> 5000,
                   Registry |-> 10000, MaxResponseBytes |-> 1048576, MaxAttempts |-> 3,
                   RetryInterval |-> 500]

ASSUME ServiceAssumption ==
    /\ \A f \in Files : IsFile(f)
    /\ {"ap-shanghai", "ags", "http://sync"} \subseteq Text
    /\ Urls \subseteq Text
    /\ TooLong \in [SyncFields -> SUBSET Text]
    /\ Headers \subseteq Raw
    /\ SyncCalls \subseteq SyncType

VARIABLES
    file,  \* the config file
    live   \* live[i]: the config instance i serves with; its domain: who serves

vars == <<file, live>>

--------------------------------------------------------------------------------
(* The start.                                                              *)

Load(f) ==
    [keys |-> f.keys, images |-> f.images,
     texts |-> [x \in TextFields |->
                  IF x \in DOMAIN f.texts THEN f.texts[x] ELSE DefaultTexts[x]],
     numbers |-> [x \in NumberFields |->
                  IF x \in DOMAIN f.numbers THEN f.numbers[x] ELSE DefaultNumbers[x]]]

\* mutant of InRange: the field has no range
InRange_Free(f) == TRUE

\* the range of MaxAttempts, looked at when the file gives it
InRange(f) == "MaxAttempts" \in DOMAIN f.numbers => f.numbers["MaxAttempts"] \in 1 .. 10

Trimmed(s) == \A i \in DOMAIN s : ~IsBlank(s[i]) /\ TrimSpace(s[i]) = s[i]

\* mutant of validateConfig: the lists are not looked into
validateConfig_ListsUnread(c) ==
    /\ c.keys # <<>> /\ c.images # <<>>
    /\ \A x \in TextFields \ {"SyncEndpoint"} : ~IsBlank(c.texts[x])
    /\ \A t \in Timeouts : c.numbers[t] > 0

\* mutant of validateConfig: the names' length is not looked at
validateConfig_AnyLength(c) ==
    /\ c.keys # <<>> /\ Trimmed(c.keys)
    /\ \A x \in TextFields \ {"SyncEndpoint"} : ~IsBlank(c.texts[x])
    /\ \A t \in Timeouts : c.numbers[t] > 0
    /\ c.images # <<>> /\ Trimmed(c.images)

validateConfig(c) ==
    /\ c.keys # <<>> /\ Trimmed(c.keys)
    /\ \A x \in TextFields \ {"SyncEndpoint"} : ~IsBlank(c.texts[x])
    /\ \A t \in Timeouts : c.numbers[t] > 0
    /\ c.images # <<>> /\ Trimmed(c.images)
    /\ \A i \in DOMAIN c.images : c.images[i].text \notin TooLong["image"]

NewImageSyncClient(c) ==
    /\ c.texts["SyncEndpoint"].text \in Urls
    /\ c.numbers["MaxResponseBytes"] > 0
    /\ c.numbers["MaxAttempts"] > 0
    /\ c.numbers["RetryInterval"] >= 0

NewRegistryClient(c) ==
    /\ ~IsBlank(c.texts["Username"]) /\ ~IsBlank(c.texts["Password"])
    /\ c.numbers["Registry"] > 0

NewServiceContext(c) == validateConfig(c) /\ NewImageSyncClient(c) /\ NewRegistryClient(c)

Starts(f) == InRange(f) /\ NewServiceContext(Load(f))

\* a start that fails ends the process before it has served anything
Start(i) ==
    /\ i \notin DOMAIN live
    /\ Starts(file)
    /\ live' = [j \in DOMAIN live \cup {i} |-> IF j = i THEN Load(file) ELSE live[j]]
    /\ UNCHANGED file

\* shut down, or crashed
Stop(i) ==
    /\ i \in DOMAIN live
    /\ live' = [j \in DOMAIN live \ {i} |-> live[j]]
    /\ UNCHANGED file

\* the operator writes another file; nobody reads it until the next start
Edit(f) ==
    /\ file # f
    /\ file' = f
    /\ UNCHANGED live

Init == file \in Files /\ live = <<>>

Next ==
    \/ \E i \in Instances : Start(i) \/ Stop(i)
    \/ \E f \in Files : Edit(f)

Spec == Init /\ [][Next]_vars

--------------------------------------------------------------------------------
(* What a serving instance does with a call.                               *)

\* mutant of Handle: the matches are added up
Handle_Sums(c, header) ==
    \E i \in DOMAIN c.keys : \A j \in DOMAIN c.keys : c.keys[j] = TrimSpace(header) <=> j = i

(* The middleware.  net/http has trimmed the header's value, and hashes    *)
(* are equal when the keys are.                                            *)
Handle(c, header) == \E i \in DOMAIN c.keys : c.keys[i] = TrimSpace(header)

\* all five parameters, trimmed
buildSyncImageRequest(p) ==
    \A f \in SyncFields : ~IsBlank(p[f]) /\ p[f].text \notin TooLong[f]

isAllowedImageName(c, p) == \E i \in DOMAIN c.images : c.images[i] = TrimSpace(p["image"])

\* httpx.Parse misses a parameter that is not given; then SyncImage's checks
SyncImage(c, p) ==
    IF Omitted \in {p[f] : f \in SyncFields} THEN "BAD_REQUEST"
    ELSE IF ~buildSyncImageRequest(p) THEN "INVALID_ARGUMENT"
    ELSE IF ~isAllowedImageName(c, p) THEN "IMAGE_NOT_ALLOWED"
    ELSE "admitted"

Routes == {"/readiness", "/api/v1/images/sync", "/api/v1/sandbox/tools",
           "/api/v1/sandbox/tools/status"}

\* the routes behind the middleware
Guarded == Routes \ {"/readiness"}

Answer(c, route, header, p) ==
    IF route \in Guarded /\ ~Handle(c, header) THEN "UNAUTHORIZED"
    ELSE IF route = "/api/v1/images/sync" THEN SyncImage(c, p)
    ELSE "handled"

--------------------------------------------------------------------------------
(* Properties.                                                             *)

\* every variable keeps its type: a number that serves is never negative
TypeOK ==
    /\ file \in Files
    /\ DOMAIN live \subseteq Instances
    /\ \A i \in DOMAIN live :
          /\ live[i].keys \in Seq(Raw) /\ live[i].images \in Seq(Raw)
          /\ live[i].texts \in [TextFields -> Raw]
          /\ live[i].numbers \in [NumberFields -> Nat]

(* What serves is what the modules of the endpoints assume: every outside  *)
(* call has a timeout, the number of attempts is in its documented range,  *)
(* and there are credentials.                                              *)
ServingIsValid ==
    \A i \in DOMAIN live : LET c == live[i] IN
        /\ \A t \in Timeouts : c.numbers[t] \in Nat \ {0}
        /\ c.numbers["MaxAttempts"] \in 1 .. 10
        /\ c.numbers["MaxResponseBytes"] > 0 /\ c.numbers["RetryInterval"] >= 0
        /\ \A x \in TextFields : ~IsBlank(c.texts[x])

(* The keys that open the API are those the file listed at the start, as   *)
(* they can be sent in a header, each of them and no other: neither a      *)
(* blank nor a padded entry makes a key that opens everything or nothing.  *)
KeysAreExact ==
    \A i \in DOMAIN live, h \in Headers, r \in Guarded, p \in SyncCalls :
        Answer(live[i], r, h, p) # "UNAUTHORIZED" <=>
            h.text # "" /\ \E n \in DOMAIN live[i].keys : live[i].keys[n].text = h.text

(* Every image name of the allow list can be synchronised and no other:    *)
(* no entry is one that the checks of the parameters keep from matching.   *)
AllowListIsExact ==
    \A i \in DOMAIN live, p \in SyncCalls :
        (\A f \in SyncFields \ {"image"} : p[f].text \notin TooLong[f] \cup {""}) =>
            (SyncImage(live[i], p) = "admitted" <=>
                p["image"].text # ""
                /\ \E n \in DOMAIN live[i].images : live[i].images[n].text = p["image"].text)

=============================================================================
