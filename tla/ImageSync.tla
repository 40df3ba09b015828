------------------------------ MODULE ImageSync ------------------------------
(***************************************************************************)
(* GET /api/v1/images/sync: one call of the handler SyncImage and of the   *)
(* retrying HTTP client it drives (imagesync.Client.Sync).                 *)
(*                                                                         *)
(* Calls share nothing in the server, so one call is the whole story.  It  *)
(* races with four clocks: the total timeout of the call, the timeout of   *)
(* each attempt, the wait between attempts, and whoever owns the request   *)
(* context (the caller, the HTTP server).  Time is discrete; local steps   *)
(* of the goroutine take none, so time passes only while it is blocked and *)
(* nothing it waits for is due.                                            *)
(***************************************************************************)
EXTENDS Naturals

CONSTANTS
    MaxAttempts,     \* ImageSync.MaxAttempts
    RequestTimeout,  \* ImageSync.RequestTimeout, the whole call
    AttemptTimeout,  \* ImageSync.AttemptTimeout, one HTTP exchange
    RetryDelay       \* RetryDelay[a]: wait after attempt a (module Backoff)

\* what NewServiceContext enforces, and what retryDelay returns
ASSUME ImageSyncAssumption ==
    /\ MaxAttempts \in Nat \ {0}
    /\ RequestTimeout \in Nat \ {0}
    /\ AttemptTimeout \in Nat \ {0}
    /\ RetryDelay \in [1 .. MaxAttempts -> Nat]

VARIABLES
    pc,        \* where the handler's goroutine is
    ctx,       \* state of the call's context
    age,       \* time since the call was admitted
    timer,     \* what is left of the attempt's timeout or of the wait
    attempt,   \* loop variable of Sync
    answer,    \* status class of the response whose body is being read
    lastErr,   \* how the last attempt failed
    sent,      \* upstream requests sent (observation only)
    idle,      \* time since the last attempt ended (observation only)
    reply      \* what the handler answers

vars == <<pc, ctx, age, timer, attempt, answer, lastErr, sent, idle, reply>>

Answers == {"2xx", "429", "5xx", "other"}

Errors == {"network", "timeout", "canceled", "deadline", "tooLarge", "decode",
           "429", "5xx", "other"}

RefusalCodes == {"UNAUTHORIZED", "BAD_REQUEST", "INVALID_ARGUMENT",
                 "IMAGE_NOT_ALLOWED"}
Replies == {"none", "OK", "IMAGE_SYNC_TIMEOUT", "IMAGE_SYNC_FAILED"} \cup RefusalCodes

Running == pc \notin {"start", "answered"}

Init ==
    /\ pc = "start"
    /\ ctx = "live"
    /\ age = 0
    /\ timer = 0
    /\ attempt = 0
    /\ answer = "none"
    /\ lastErr = "none"
    /\ sent = 0
    /\ idle = 0
    /\ reply = "none"

--------------------------------------------------------------------------------
(* The handler, up to the client.                                          *)

(* The API key, the query string, the five fields and the allow list are   *)
(* looked at before anything is sent.                                      *)
Refuse ==
    /\ pc = "start"
    /\ pc' = "answered"
    /\ reply' \in RefusalCodes
    /\ UNCHANGED <<ctx, age, timer, attempt, answer, lastErr, sent, idle>>

\* the total timeout starts here
Admit ==
    /\ pc = "start"
    /\ pc' = "dispatch"
    /\ attempt' = 1
    /\ UNCHANGED <<ctx, age, timer, answer, lastErr, sent, idle, reply>>

\* mutant of FailureReply: any ended context counts as a timeout
FailureReply_AnyContext(err) ==
    IF err \in {"deadline", "canceled", "timeout"}
    THEN "IMAGE_SYNC_TIMEOUT" ELSE "IMAGE_SYNC_FAILED"

(* SyncImage's reading of Sync's error: a deadline, whether of the call or *)
(* of the last attempt, is a 504, everything else a 502.                   *)
FailureReply(err) ==
    IF err \in {"deadline", "timeout"} THEN "IMAGE_SYNC_TIMEOUT" ELSE "IMAGE_SYNC_FAILED"

Finish(r) ==
    /\ pc' = "answered"
    /\ reply' = r

--------------------------------------------------------------------------------
(* Sync's loop.                                                            *)

\* mutant of Dispatch: the request does not carry the context
Dispatch_Background ==
    /\ pc = "dispatch"
    /\ pc' = "awaiting"
    /\ timer' = AttemptTimeout
    /\ sent' = sent + 1
    /\ UNCHANGED <<ctx, age, attempt, answer, lastErr, idle, reply>>

\* httpClient.Do: under a dead context nothing is sent
Dispatch ==
    /\ pc = "dispatch"
    /\ \/ /\ ctx = "live"
          /\ pc' = "awaiting"
          /\ timer' = AttemptTimeout
          /\ sent' = sent + 1
          /\ UNCHANGED lastErr
       \/ /\ ctx # "live"
          /\ pc' = "doFailed"
          /\ lastErr' = ctx
          /\ UNCHANGED <<timer, sent>>
    /\ UNCHANGED <<ctx, age, attempt, answer, idle, reply>>

\* the errors a blocked exchange can end with now
ExchangeErrors ==
    {"network"} \cup (IF ctx # "live" THEN {ctx} ELSE {})
                \cup (IF timer = 0 THEN {"timeout"} ELSE {})

\* mutant of DoReturns: headers and body have a timeout each
DoReturns_Rearms ==
    /\ pc = "awaiting"
    /\ answer' \in Answers
    /\ pc' = "reading"
    /\ timer' = AttemptTimeout
    /\ UNCHANGED <<ctx, age, attempt, lastErr, sent, idle, reply>>

(* The response headers arrive, or Do fails.  The timeout of the attempt   *)
(* goes on: http.Client's covers the reading of the body too.              *)
DoReturns ==
    /\ pc = "awaiting"
    /\ answer' \in Answers
    /\ pc' = "reading"
    /\ UNCHANGED <<ctx, age, timer, attempt, lastErr, sent, idle, reply>>

DoFails ==
    /\ pc = "awaiting"
    /\ lastErr' \in ExchangeErrors
    /\ pc' = "doFailed"
    /\ UNCHANGED <<ctx, age, timer, attempt, answer, sent, idle, reply>>

\* the body has been read to its end, or cannot be, or is too long
BodyRead ==
    /\ pc = "reading"
    /\ pc' = "read"
    /\ UNCHANGED <<ctx, age, timer, attempt, answer, lastErr, sent, idle, reply>>

BodyFails ==
    /\ pc = "reading"
    /\ lastErr' \in ExchangeErrors \cup {"tooLarge"}
    /\ pc' = "readFailed"
    /\ UNCHANGED <<ctx, age, timer, attempt, answer, sent, idle, reply>>

\* mutant of FailOrRetry: one attempt too many
FailOrRetry_OneMore(retry, err) ==
    /\ lastErr' = err
    /\ idle' = 0
    /\ IF ~retry \/ attempt > MaxAttempts
       THEN Finish(FailureReply(err)) /\ UNCHANGED timer
       ELSE pc' = "backoff" /\ timer' = RetryDelay[attempt] /\ UNCHANGED reply

\* mutant of FailOrRetry: the wait does not grow
FailOrRetry_ConstantDelay(retry, err) ==
    /\ lastErr' = err
    /\ idle' = 0
    /\ IF ~retry \/ attempt = MaxAttempts
       THEN Finish(FailureReply(err)) /\ UNCHANGED timer
       ELSE pc' = "backoff" /\ timer' = RetryDelay[1] /\ UNCHANGED reply

(* The loop's decision after a failed attempt: give up with this attempt's *)
(* error, or wait and try again.                                           *)
FailOrRetry(retry, err) ==
    /\ lastErr' = err
    /\ idle' = 0
    /\ IF ~retry \/ attempt = MaxAttempts
       THEN Finish(FailureReply(err)) /\ UNCHANGED timer
       ELSE pc' = "backoff" /\ timer' = RetryDelay[attempt] /\ UNCHANGED reply

\* mutant of AfterDoFailed: a broken connection is redialled on the spot
AfterDoFailed_Redials ==
    /\ pc = "doFailed"
    /\ \/ lastErr = "network" /\ pc' = "dispatch" /\ UNCHANGED <<timer, lastErr, idle, reply>>
       \/ lastErr # "network" /\ FailOrRetry(ctx = "live", lastErr)
    /\ UNCHANGED <<ctx, age, attempt, answer, sent>>

\* mutant of AfterDoFailed: the error's chain is asked instead of the context
AfterDoFailed_AnyDeadline ==
    /\ pc = "doFailed"
    /\ FailOrRetry(lastErr \notin {"timeout", "deadline", "canceled"}, lastErr)
    /\ UNCHANGED <<ctx, age, attempt, answer, sent>>

(* The context is looked at after the failure, so a failure that had       *)
(* another cause is not retried either once the context is dead.           *)
AfterDoFailed ==
    /\ pc = "doFailed"
    /\ FailOrRetry(ctx = "live", lastErr)
    /\ UNCHANGED <<ctx, age, attempt, answer, sent>>

AfterReadFailed ==
    /\ pc = "readFailed"
    /\ FailOrRetry(ctx = "live" /\ lastErr # "tooLarge", lastErr)
    /\ UNCHANGED <<ctx, age, attempt, answer, sent>>

\* mutant of AfterRead: every unsuccessful status is retried
AfterRead_RetriesAll ==
    /\ pc = "read"
    /\ \/ answer # "2xx" /\ FailOrRetry(TRUE, answer)
       \/ answer = "2xx" /\ Finish("OK") /\ UNCHANGED <<timer, lastErr, idle>>
    /\ UNCHANGED <<ctx, age, attempt, answer, sent>>

\* a complete response: its status, then (2xx only) its JSON
AfterRead ==
    /\ pc = "read"
    /\ \/ /\ answer # "2xx"
          /\ FailOrRetry(answer \in {"429", "5xx"}, answer)
       \/ /\ answer = "2xx"
          /\ FailOrRetry(FALSE, "decode")
       \/ /\ answer = "2xx"
          /\ Finish("OK")
          /\ UNCHANGED <<timer, lastErr, idle>>
    /\ UNCHANGED <<ctx, age, attempt, answer, sent>>

\* mutant of waitForRetry: only the timer, and only for a live context
waitForRetry_Deaf ==
    /\ pc = "backoff"
    /\ timer = 0
    /\ ctx = "live"
    /\ attempt' = attempt + 1
    /\ pc' = "dispatch"
    /\ UNCHANGED <<ctx, age, timer, answer, lastErr, sent, idle, reply>>

\* waitForRetry's select: either branch when both are ready
waitForRetry ==
    /\ pc = "backoff"
    /\ \/ /\ timer = 0
          /\ attempt' = attempt + 1
          /\ pc' = "dispatch"
          /\ UNCHANGED <<lastErr, reply>>
       \/ /\ ctx # "live"
          /\ lastErr' = ctx
          /\ Finish(FailureReply(ctx))
          /\ UNCHANGED attempt
    /\ UNCHANGED <<ctx, age, timer, answer, sent, idle>>

--------------------------------------------------------------------------------
(* The clocks.                                                             *)

\* the caller hangs up, or the HTTP server's own timeout expires
ParentEnds ==
    /\ Running
    /\ ctx = "live"
    /\ ctx' \in {"canceled", "deadline"}
    /\ UNCHANGED <<pc, age, timer, attempt, answer, lastErr, sent, idle, reply>>

\* the timeout withOptionalTimeout put on the call
Expire ==
    /\ Running
    /\ ctx = "live"
    /\ age >= RequestTimeout
    /\ ctx' = "deadline"
    /\ UNCHANGED <<pc, age, timer, attempt, answer, lastErr, sent, idle, reply>>

\* places where the goroutine waits; the end of ctx is noticed at each of them
Blocked == {"awaiting", "reading", "backoff"}

(* Time passes while the goroutine is blocked and nothing is due: neither  *)
(* its timer, nor the call's deadline, nor a dead context it would notice. *)
Tick ==
    /\ pc \in Blocked
    /\ timer > 0
    /\ ctx = "live" /\ age < RequestTimeout
    /\ age' = age + 1
    /\ timer' = timer - 1
    /\ idle' = idle + 1
    /\ UNCHANGED <<pc, ctx, attempt, answer, lastErr, sent, reply>>

--------------------------------------------------------------------------------
\* steps the goroutine takes by itself
Local ==
    \/ Dispatch \/ AfterDoFailed \/ AfterReadFailed \/ AfterRead \/ waitForRetry
\* steps that need the network, except that a timeout always ends an exchange
Network == DoReturns \/ DoFails \/ BodyRead \/ BodyFails
Due     == (DoFails \/ BodyFails) /\ lastErr' # "network" /\ lastErr' # "tooLarge"

Next == Refuse \/ Admit \/ Local \/ Network \/ ParentEnds \/ Expire \/ Tick

(* The goroutine runs, timers fire and time passes; nothing is assumed of  *)
(* the upstream service or of the caller.                                  *)
Fairness == WF_vars(Local) /\ WF_vars(Due) /\ WF_vars(Expire) /\ WF_vars(Tick)

Spec == Init /\ [][Next]_vars /\ Fairness

--------------------------------------------------------------------------------
(* Properties.                                                             *)

\* every variable keeps its type
TypeOK ==
    /\ pc \in {"start", "dispatch", "awaiting", "reading", "doFailed", "readFailed",
               "read", "backoff", "answered"}
    /\ ctx \in {"live", "canceled", "deadline"}
    /\ age \in Nat
    /\ timer \in Nat
    /\ attempt \in 0 .. MaxAttempts
    /\ answer \in Answers \cup {"none"}
    /\ lastErr \in Errors \cup {"none"}
    /\ sent \in Nat
    /\ idle \in Nat
    /\ reply \in Replies

(* When attempt a must be over: a attempts of AttemptTimeout each, headers *)
(* and body together, and the waits between them.                          *)
Schedule[a \in 1 .. MaxAttempts] ==
    IF a = 1 THEN AttemptTimeout
             ELSE Schedule[a - 1] + RetryDelay[a - 1] + AttemptTimeout

(* The loop keeps its schedule, however slowly the upstream sends and      *)
(* however large the total timeout is: an attempt is over when its timeout *)
(* and those of the attempts before it have passed, with their waits.      *)
ScheduleIsKept ==
    Running => age <= Schedule[attempt]
                      + (IF pc = "backoff" THEN RetryDelay[attempt] ELSE 0)

(* No more upstream requests than attempts, and no request at all for a    *)
(* call that was refused.                                                  *)
SentIsBounded ==
    /\ sent <= attempt /\ attempt <= MaxAttempts
    /\ reply \in RefusalCodes => sent = 0

(* A call that fails has made all its attempts, each of which reached for  *)
(* the upstream, or its context has ended, or the last answer was a final  *)
(* one: a 4xx, not JSON, or too long.  An attempt that ran into its own    *)
(* timeout, or broke off, is never the reason to give up early.            *)
GivesUpForCause ==
    reply \in {"IMAGE_SYNC_TIMEOUT", "IMAGE_SYNC_FAILED"} =>
        \/ sent = MaxAttempts
        \/ ctx # "live"
        \/ lastErr \in {"other", "decode", "tooLarge"}

(* A call whose context ends during a wait fails with the context's error  *)
(* and asks the upstream for nothing more, even when the wait is over at   *)
(* the same moment and the loop goes on to its next attempt.               *)
EndedWaitIsFinal ==
    \A c \in {"canceled", "deadline"} : \A n \in 1 .. MaxAttempts :
        [](pc = "backoff" /\ ctx = c /\ sent = n =>
             [](/\ sent = n
                /\ reply \in {"none", IF c = "deadline" THEN "IMAGE_SYNC_TIMEOUT"
                                                       ELSE "IMAGE_SYNC_FAILED"}))

(* What the upstream answered in full is final unless it was 429 or 5xx:   *)
(* no second attempt follows a success, a client error, an undecodable or  *)
(* an oversized response.                                                  *)
RetriesOnlyTransient ==
    [][(attempt' > attempt /\ attempt > 0) =>
         lastErr \in {"network", "timeout", "429", "5xx"}]_vars

(* Between two requests to the upstream lies at least the delay the        *)
(* backoff schedule sets for the attempt that failed.                      *)
BackoffIsWaited ==
    [][(attempt' > attempt /\ attempt > 0) => idle >= RetryDelay[attempt]]_vars

(* A 504 is given only if a deadline really ended something: the call's    *)
(* context, or an attempt that used up its own timeout.                    *)
TimeoutIsReal ==
    reply = "IMAGE_SYNC_TIMEOUT" =>
        ctx = "deadline" \/ (lastErr = "timeout" /\ age >= AttemptTimeout)

(* What the clocks and the counters add up to at each place of the loop.   *)
Accounts ==
    /\ pc = "start" => attempt = 0 /\ sent = 0 /\ age = 0 /\ reply = "none"
    /\ pc = "dispatch" => sent < attempt
    /\ pc \notin {"start", "answered"} => attempt >= 1 /\ reply = "none"
    /\ pc \in {"awaiting", "reading"} => age + timer >= AttemptTimeout
    /\ pc = "backoff" => /\ attempt < MaxAttempts
                        /\ idle + timer >= RetryDelay[attempt]
    /\ pc \in {"doFailed", "readFailed"} => lastErr # "none"
    /\ pc \in {"reading", "read", "readFailed"} => answer # "none"
    /\ lastErr = "timeout" => age >= AttemptTimeout
    /\ lastErr = "deadline" => ctx = "deadline"
    /\ reply = "IMAGE_SYNC_TIMEOUT" => lastErr \in {"deadline", "timeout"}

==============================================================================
