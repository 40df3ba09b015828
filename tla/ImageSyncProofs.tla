--------------------------- MODULE ImageSyncProofs ---------------------------
(* Theorems about ImageSync, for every number of attempts, every timeout   *)
(* and every schedule of delays.                                           *)
EXTENDS ImageSync, NaturalsInduction, WellFoundedInduction, TLAPS

LEMMA InitTypeOK == Init => TypeOK
BY ImageSyncAssumption DEF Init, TypeOK, Replies

(* Whatever FailOrRetry decides, it leaves pc, timer, lastErr and reply in *)
(* their types.                                                            *)
LEMMA FailOrRetryType ==
    ASSUME TypeOK, attempt >= 1, NEW retry \in BOOLEAN, NEW err \in Errors,
           FailOrRetry(retry, err)
    PROVE  /\ pc' \in {"answered", "backoff"}
           /\ timer' \in Nat
           /\ lastErr' \in Errors
           /\ idle' \in Nat
           /\ reply' \in Replies
BY ImageSyncAssumption
   DEF TypeOK, FailOrRetry, Finish, FailureReply, Replies

(* Every step keeps every variable in its type.                            *)
LEMMA NextTypeOK == TypeOK /\ Accounts /\ [Next]_vars => TypeOK'
<1> SUFFICES ASSUME TypeOK, Accounts, [Next]_vars PROVE TypeOK'
  OBVIOUS
<1>1. CASE Refuse
  BY <1>1 DEF TypeOK, Refuse, Replies
<1>2. CASE Admit
  BY <1>2, ImageSyncAssumption DEF TypeOK, Admit
<1>3. CASE Dispatch
  BY <1>3, ImageSyncAssumption DEF TypeOK, Dispatch, Errors
<1>4. CASE DoReturns
  BY <1>4 DEF TypeOK, DoReturns
<1>5. CASE DoFails
  BY <1>5 DEF TypeOK, DoFails, ExchangeErrors, Errors
<1>6. CASE BodyRead
  BY <1>6 DEF TypeOK, BodyRead
<1>7. CASE BodyFails
  BY <1>7 DEF TypeOK, BodyFails, ExchangeErrors, Errors
<1>8. CASE AfterDoFailed
  <2>1. lastErr \in Errors
    BY <1>8 DEF TypeOK, Accounts, AfterDoFailed
  <2> QED BY <1>8, <2>1, FailOrRetryType DEF TypeOK, Accounts, AfterDoFailed
<1>9. CASE AfterReadFailed
  <2>1. lastErr \in Errors
    BY <1>9 DEF TypeOK, Accounts, AfterReadFailed
  <2> QED BY <1>9, <2>1, FailOrRetryType DEF TypeOK, Accounts, AfterReadFailed
<1>10. CASE AfterRead
  <2>1. attempt >= 1 /\ answer \in Answers /\ "decode" \in Errors
    BY <1>10 DEF TypeOK, Accounts, AfterRead, Errors
  <2>2. CASE FailOrRetry(answer \in {"429", "5xx"}, answer) /\ answer # "2xx"
    <3>1. answer \in Errors
      BY <2>1, <2>2 DEF Answers, Errors
    <3>2. PICK retry \in BOOLEAN : FailOrRetry(retry, answer)
      BY <2>2 DEF FailOrRetry
    <3> QED BY <1>10, <2>1, <3>1, <3>2, FailOrRetryType DEF TypeOK, AfterRead
  <2>3. CASE FailOrRetry(FALSE, "decode")
    BY <1>10, <2>1, <2>3, FailOrRetryType DEF TypeOK, AfterRead
  <2>4. CASE Finish("OK") /\ UNCHANGED <<timer, lastErr, idle>>
    BY <1>10, <2>4 DEF TypeOK, AfterRead, Finish, Replies
  <2> QED BY <1>10, <2>2, <2>3, <2>4 DEF AfterRead
<1>11. CASE waitForRetry
  BY <1>11, ImageSyncAssumption
     DEF TypeOK, Accounts, waitForRetry, Finish, FailureReply, Replies, Errors
<1>12. CASE ParentEnds \/ Expire
  BY <1>12 DEF TypeOK, ParentEnds, Expire
<1>13. CASE Tick
  BY <1>13 DEF TypeOK, Tick
<1>14. CASE UNCHANGED vars
  BY <1>14 DEF TypeOK, vars
<1> QED
  BY <1>1, <1>2, <1>3, <1>4, <1>5, <1>6, <1>7, <1>8, <1>9, <1>10, <1>11, <1>12, <1>13,
     <1>14 DEF Next, Local, Network

--------------------------------------------------------------------------------
\* time does not pass a deadline that is due
InTime == Running => age <= RequestTimeout

LEMMA InitAccounts == Init => Accounts /\ SentIsBounded /\ InTime
BY ImageSyncAssumption DEF Init, Accounts, SentIsBounded, InTime, Running, RefusalCodes

(* What FailOrRetry leaves behind: the call answered with this error, or a *)
(* wait of the length the schedule has for this attempt.                   *)
LEMMA FailOrRetryEffect ==
    ASSUME TypeOK, attempt >= 1, NEW retry \in BOOLEAN, NEW err \in Errors,
           FailOrRetry(retry, err), reply = "none"
    PROVE  /\ lastErr' = err
           /\ \/ pc' = "answered" /\ reply' = FailureReply(err)
              \/ /\ pc' = "backoff" /\ reply' = "none" /\ attempt < MaxAttempts
                 /\ idle' = 0 /\ timer' = RetryDelay[attempt]
BY ImageSyncAssumption DEF TypeOK, FailOrRetry, Finish

(* Every step keeps the accounts.                                          *)
LEMMA NextAccounts == TypeOK /\ Accounts /\ SentIsBounded /\ [Next]_vars => Accounts'
<1> SUFFICES ASSUME TypeOK, Accounts, SentIsBounded, [Next]_vars PROVE Accounts'
  OBVIOUS
<1> USE ImageSyncAssumption DEF TypeOK, Accounts
<1>1. CASE Refuse
  BY <1>1 DEF Refuse, RefusalCodes
<1>2. CASE Admit
  BY <1>2 DEF Admit
<1>3. CASE Dispatch
  BY <1>3 DEF Dispatch
<1>4. CASE DoReturns
  BY <1>4 DEF DoReturns, Answers
<1>5. CASE DoFails
  BY <1>5 DEF DoFails, ExchangeErrors
<1>6. CASE BodyRead
  BY <1>6 DEF BodyRead
<1>7. CASE BodyFails
  BY <1>7 DEF BodyFails, ExchangeErrors
<1>8. CASE AfterDoFailed
  <2>1. lastErr \in Errors
    BY <1>8 DEF AfterDoFailed
  <2>2. /\ lastErr' = lastErr
        /\ \/ pc' = "answered" /\ reply' = FailureReply(lastErr)
           \/ /\ pc' = "backoff" /\ reply' = "none" /\ attempt < MaxAttempts
              /\ idle' = 0 /\ timer' = RetryDelay[attempt]
    BY <1>8, <2>1, FailOrRetryEffect DEF AfterDoFailed
  <2> QED BY <1>8, <2>2 DEF AfterDoFailed, FailureReply
<1>9. CASE AfterReadFailed
  <2>1. lastErr \in Errors
    BY <1>9 DEF AfterReadFailed
  <2>2. /\ lastErr' = lastErr
        /\ \/ pc' = "answered" /\ reply' = FailureReply(lastErr)
           \/ /\ pc' = "backoff" /\ reply' = "none" /\ attempt < MaxAttempts
              /\ idle' = 0 /\ timer' = RetryDelay[attempt]
    BY <1>9, <2>1, FailOrRetryEffect DEF AfterReadFailed
  <2> QED BY <1>9, <2>2 DEF AfterReadFailed, FailureReply
<1>10. CASE AfterRead
  <2>1. attempt >= 1 /\ reply = "none" /\ UNCHANGED <<ctx, age, attempt, answer, sent>>
    BY <1>10 DEF AfterRead
  <2>2. ASSUME NEW retry \in BOOLEAN, NEW err \in {"429", "5xx", "other", "decode"},
               FailOrRetry(retry, err)
        PROVE  Accounts'
    <3>1. err \in Errors
      BY DEF Errors
    <3>2. /\ lastErr' = err
          /\ \/ pc' = "answered" /\ reply' = FailureReply(err)
             \/ /\ pc' = "backoff" /\ reply' = "none" /\ attempt < MaxAttempts
                /\ idle' = 0 /\ timer' = RetryDelay[attempt]
      BY <2>1, <2>2, <3>1, FailOrRetryEffect
    <3> QED BY <2>1, <3>2 DEF FailureReply
  <2>3. CASE answer # "2xx" /\ FailOrRetry(answer \in {"429", "5xx"}, answer)
    <3>1. answer \in {"429", "5xx", "other", "decode"}
      BY <1>10, <2>3 DEF AfterRead, Answers
    <3>2. PICK retry \in BOOLEAN : FailOrRetry(retry, answer)
      BY <2>3 DEF FailOrRetry
    <3> QED BY <2>2, <3>1, <3>2
  <2>4. CASE FailOrRetry(FALSE, "decode")
    BY <2>2, <2>4
  <2>5. CASE Finish("OK") /\ UNCHANGED <<timer, lastErr, idle>>
    BY <2>1, <2>5 DEF Finish
  <2> QED BY <1>10, <2>3, <2>4, <2>5 DEF AfterRead
<1>11. CASE waitForRetry
  <2>1. CASE /\ timer = 0 /\ attempt' = attempt + 1 /\ pc' = "dispatch"
             /\ UNCHANGED <<lastErr, reply>>
    <3>1. sent <= attempt
      BY <1>11 DEF waitForRetry, SentIsBounded
    <3> QED BY <1>11, <2>1, <3>1 DEF waitForRetry
  <2>2. CASE /\ ctx # "live" /\ lastErr' = ctx /\ Finish(FailureReply(ctx))
             /\ UNCHANGED attempt
    BY <1>11, <2>2 DEF waitForRetry, Finish, FailureReply
  <2> QED BY <1>11, <2>1, <2>2 DEF waitForRetry
<1>12. CASE ParentEnds \/ Expire
  BY <1>12 DEF ParentEnds, Expire, Errors
<1>13. CASE Tick
  BY <1>13 DEF Tick, Blocked
<1>14. CASE UNCHANGED vars
  BY <1>14 DEF vars
<1> QED
  BY <1>1, <1>2, <1>3, <1>4, <1>5, <1>6, <1>7, <1>8, <1>9, <1>10, <1>11, <1>12, <1>13,
     <1>14 DEF Next, Local, Network

(* Every request is preceded by an attempt of its own.                     *)
LEMMA NextSent == TypeOK /\ Accounts /\ SentIsBounded /\ [Next]_vars => SentIsBounded'
<1> SUFFICES ASSUME TypeOK, Accounts, SentIsBounded, [Next]_vars PROVE SentIsBounded'
  OBVIOUS
<1> USE ImageSyncAssumption DEF TypeOK, SentIsBounded, RefusalCodes
<1>1. CASE Refuse
  BY <1>1 DEF Refuse, Accounts
<1>2. CASE Admit
  BY <1>2 DEF Admit, Accounts
<1>3. CASE Dispatch
  BY <1>3 DEF Dispatch, Accounts
<1>4. CASE waitForRetry
  BY <1>4 DEF waitForRetry, Accounts, Finish, FailureReply
<1>5. CASE AfterDoFailed \/ AfterReadFailed \/ AfterRead
  BY <1>5 DEF AfterDoFailed, AfterReadFailed, AfterRead, Accounts, FailOrRetry, Finish,
              FailureReply
<1>6. CASE Network \/ ParentEnds \/ Expire \/ Tick \/ UNCHANGED vars
  BY <1>6 DEF Network, DoReturns, DoFails, BodyRead, BodyFails, ParentEnds, Expire, Tick,
              vars
<1> QED BY <1>1, <1>2, <1>3, <1>4, <1>5, <1>6 DEF Next, Local

(* Time passes only below the total timeout.                               *)
LEMMA NextInTime == TypeOK /\ Accounts /\ InTime /\ [Next]_vars => InTime'
<1> SUFFICES ASSUME TypeOK, Accounts, InTime, [Next]_vars PROVE InTime'
  OBVIOUS
<1>1. CASE Tick
  BY <1>1, ImageSyncAssumption
     DEF TypeOK, InTime, Running, Tick, Blocked
<1>2. CASE Admit
  BY <1>2, ImageSyncAssumption DEF Accounts, InTime, Admit
<1>3. CASE Refuse
  BY <1>3 DEF InTime, Running, Refuse
<1>4. CASE ~(Tick \/ Admit \/ Refuse)
  <2>1. age' = age
    BY <1>4 DEF Next, Local, Network, Dispatch, DoReturns, DoFails, BodyRead, BodyFails,
       AfterDoFailed, AfterReadFailed, AfterRead, waitForRetry, ParentEnds, Expire, vars
  <2>2. Running' => Running
    BY <1>4 DEF Running, Next, Local, Network, Dispatch, DoReturns, DoFails, BodyRead,
       BodyFails, AfterDoFailed, AfterReadFailed, AfterRead, waitForRetry, ParentEnds,
       Expire, vars
  <2> QED BY <2>1, <2>2 DEF InTime
<1> QED BY <1>1, <1>2, <1>3, <1>4

IInv == TypeOK /\ Accounts /\ SentIsBounded /\ InTime

(* The strengthening of the safety properties holds in every state.        *)
THEOREM Invariance == Spec => []IInv
<1>1. Init => IInv
  BY InitTypeOK, InitAccounts DEF IInv
<1>2. IInv /\ [Next]_vars => IInv'
  BY NextTypeOK, NextAccounts, NextSent, NextInTime DEF IInv
<1> QED BY <1>1, <1>2, PTL DEF Spec

(* Type correctness of the image-sync call.                                *)
THEOREM TypeCorrect == Spec => []TypeOK
BY Invariance, PTL DEF IInv

(* At most MaxAttempts upstream requests, none for a refused call.         *)
THEOREM RequestsAreBounded == Spec => []SentIsBounded
BY Invariance, PTL DEF IInv

(* A 504 always has a deadline behind it.                                  *)
THEOREM TimeoutsAreReal == Spec => []TimeoutIsReal
<1>1. IInv => TimeoutIsReal
  BY DEF IInv, Accounts, TimeoutIsReal
<1> QED BY <1>1, Invariance, PTL

(* The wait before an attempt is never cut short.                          *)
THEOREM WaitsAreFull == Spec => BackoffIsWaited
<1>1. IInv /\ [Next]_vars =>
        [(attempt' > attempt /\ attempt > 0) => idle >= RetryDelay[attempt]]_vars
  <2> SUFFICES ASSUME IInv, Next, attempt' > attempt, attempt > 0
               PROVE  idle >= RetryDelay[attempt]
    BY DEF vars
  <2>1. waitForRetry
    <3>1. ~Admit
      BY DEF IInv, Accounts, Admit
    <3>2. ~(Refuse \/ Dispatch \/ AfterDoFailed \/ AfterReadFailed \/ AfterRead)
      BY ImageSyncAssumption
         DEF IInv, TypeOK, Refuse, Dispatch, AfterDoFailed, AfterReadFailed, AfterRead,
             FailOrRetry
    <3>3. ~(Network \/ ParentEnds \/ Expire \/ Tick)
      BY DEF IInv, TypeOK, Network, DoReturns, DoFails, BodyRead, BodyFails, ParentEnds,
         Expire, Tick
    <3> QED BY <3>1, <3>2, <3>3 DEF Next, Local
  <2>2. timer = 0 /\ idle + timer >= RetryDelay[attempt]
    BY <2>1 DEF IInv, TypeOK, Accounts, waitForRetry
  <2> QED BY <2>2 DEF IInv, TypeOK
<1> QED BY <1>1, Invariance, PTL DEF Spec, BackoffIsWaited

--------------------------------------------------------------------------------
(* What a retry follows.                                                   *)

Transient == {"network", "timeout", "429", "5xx"}

(* A failed exchange ended with an error of its own or with the context's, *)
(* and an ended context stays ended: no wait is begun for one.             *)
TransientInv ==
    /\ pc = "backoff" => lastErr \in Transient
    /\ pc = "doFailed" => lastErr \in {"network", "timeout"} \/ (lastErr = ctx /\ ctx # "live")
    /\ pc = "readFailed" => \/ lastErr \in {"network", "timeout", "tooLarge"}
                            \/ lastErr = ctx /\ ctx # "live"

LEMMA NextTransient == TransientInv /\ [Next]_vars => TransientInv'
<1> SUFFICES ASSUME TransientInv, [Next]_vars PROVE TransientInv'
  OBVIOUS
<1> USE DEF TransientInv, Transient
<1>1. CASE AfterDoFailed \/ AfterReadFailed \/ AfterRead
  <2>1. CASE AfterDoFailed
    <3>1. CASE ctx = "live"
      BY <2>1, <3>1 DEF AfterDoFailed, FailOrRetry, Finish
    <3>2. CASE ctx # "live"
      BY <2>1, <3>2 DEF AfterDoFailed, FailOrRetry, Finish
    <3> QED
      BY <3>1, <3>2
  <2>2. CASE AfterReadFailed
    <3>1. CASE ctx = "live" /\ lastErr # "tooLarge"
      BY <2>2, <3>1 DEF AfterReadFailed, FailOrRetry, Finish
    <3>2. CASE ~(ctx = "live" /\ lastErr # "tooLarge")
      BY <2>2, <3>2 DEF AfterReadFailed, FailOrRetry, Finish
    <3> QED
      BY <3>1, <3>2
  <2>3. CASE AfterRead
    <3>1. CASE answer \in {"429", "5xx"}
      BY <2>3, <3>1 DEF AfterRead, FailOrRetry, Finish
    <3>2. CASE answer \notin {"429", "5xx"}
      BY <2>3, <3>2 DEF AfterRead, FailOrRetry, Finish
    <3> QED
      BY <3>1, <3>2
  <2> QED
    BY <1>1, <2>1, <2>2, <2>3
<1>2. CASE DoFails \/ BodyFails
  BY <1>2 DEF DoFails, BodyFails, ExchangeErrors
<1>3. CASE Dispatch \/ waitForRetry
  BY <1>3 DEF Dispatch, waitForRetry, Finish
<1>4. CASE Refuse \/ Admit \/ DoReturns \/ BodyRead \/ ParentEnds \/ Expire \/ Tick
  BY <1>4 DEF Refuse, Admit, DoReturns, BodyRead, ParentEnds, Expire, Tick
<1>5. CASE UNCHANGED vars
  BY <1>5 DEF vars
<1> QED
  BY <1>1, <1>2, <1>3, <1>4, <1>5 DEF Next, Local, Network

(* A complete answer other than 429 and 5xx, and an oversized one, is      *)
(* final.                                                                  *)
THEOREM RetriesAreJustified == Spec => RetriesOnlyTransient
<1>1. Init => TransientInv
  BY DEF Init, TransientInv
<1>2. IInv /\ TransientInv /\ [Next]_vars =>
        [(attempt' > attempt /\ attempt > 0) =>
             lastErr \in {"network", "timeout", "429", "5xx"}]_vars
  <2> SUFFICES ASSUME IInv, TransientInv, Next, attempt' > attempt, attempt > 0
               PROVE  lastErr \in Transient
    BY DEF vars, Transient
  <2>1. attempt \in Nat
    BY ImageSyncAssumption DEF IInv, TypeOK
  <2>2. ~Admit
    BY DEF IInv, Accounts, Admit
  <2>3. waitForRetry \/ attempt' = attempt
    BY <2>2 DEF Next, Local, Network, Refuse, Dispatch, AfterDoFailed, AfterReadFailed,
       AfterRead, DoReturns, DoFails, BodyRead, BodyFails, ParentEnds, Expire, Tick
  <2> QED
    BY <2>1, <2>3 DEF TransientInv, waitForRetry
<1> QED
  BY <1>1, <1>2, NextTransient, Invariance, PTL DEF Spec, RetriesOnlyTransient

--------------------------------------------------------------------------------
(* Why a call ends.                                                        *)

\* how far from the end of its attempt each place is; an attempt weighs eight
Distance ==
    [start |-> 1, dispatch |-> 7, awaiting |-> 6, reading |-> 5, read |-> 4,
     doFailed |-> 4, readFailed |-> 4, backoff |-> 1, answered |-> 0]

(* What is left of a call: ticks until its deadline, the end of its        *)
(* context, attempts, and the way through the current one.                 *)
Remaining ==
    (RequestTimeout - age) + (IF ctx = "live" THEN 1 ELSE 0)
    + 8 * (MaxAttempts - attempt) + Distance[pc]

LEMMA StepsForward ==
    ASSUME IInv, Next
    PROVE  Remaining \in Nat /\ Remaining' < Remaining
<1> USE ImageSyncAssumption
<1> DEFINE live(c) == IF c = "live" THEN 1 ELSE 0
           left(g, l, n, d) == (RequestTimeout - g) + l + 8 * (MaxAttempts - n) + d
<1>1. /\ attempt \in 0 .. MaxAttempts /\ age \in Nat
      /\ pc \in DOMAIN Distance /\ ctx \in {"live", "canceled", "deadline"}
  BY DEF IInv, TypeOK, Distance
<1>2. TypeOK'
  BY NextTypeOK DEF IInv
<1>3. attempt' \in 0 .. MaxAttempts /\ age' \in Nat /\ ctx' \in {"live", "canceled", "deadline"}
  BY <1>2 DEF TypeOK
<1>4. Distance[pc] \in 0 .. 7
  BY <1>1 DEF Distance
<1>5. pc # "answered" /\ age <= RequestTimeout
  <2>1. pc # "answered"
    BY DEF Next, Local, Network, Refuse, Admit, Dispatch, AfterDoFailed, AfterReadFailed,
           AfterRead, waitForRetry, DoReturns, DoFails, BodyRead, BodyFails, ParentEnds,
           Expire, Tick, Running, Blocked
  <2>2. pc = "start" => age = 0
    BY DEF IInv, Accounts
  <2> QED BY <2>1, <2>2 DEF IInv, InTime, Running
<1>6. Remaining \in Nat
  BY <1>1, <1>4, <1>5 DEF Remaining
<1>7. /\ Remaining = left(age, live(ctx), attempt, Distance[pc])
       /\ Remaining' = left(age', live(ctx'), attempt', Distance[pc'])
  BY DEF Remaining
<1>8. live("live") = 1 /\ \A c : live(c) \in 0 .. 1 /\ (c # "live" => live(c) = 0)
  OBVIOUS
<1>9. /\ attempt \in Nat /\ age \in Nat /\ live(ctx) \in 0 .. 1 /\ Distance[pc] \in 0 .. 8
  BY <1>1, <1>4
<1>10. \A g, n \in Nat : \A l \in 0 .. 1 : \A d, e \in 0 .. 8 :
           e < d => left(g, l, n, e) < left(g, l, n, d)
  OBVIOUS
<1>11. \A g, n \in Nat : \A l \in 0 .. 1 : \A d \in 0 .. 8 :
           left(g + 1, l, n, d) < left(g, l, n, d)
  OBVIOUS
<1>12. \A g, n \in Nat : \A d \in 0 .. 8 : left(g, 0, n, d) < left(g, 1, n, d)
  OBVIOUS
<1>13. \A g, n \in Nat : \A l \in 0 .. 1 : left(g, l, n + 1, 7) < left(g, l, n, 1)
  OBVIOUS
<1> HIDE DEF left, live, Distance
<1>14. CASE /\ age' = age /\ ctx' = ctx /\ attempt' = attempt
           /\ Distance[pc'] \in 0 .. 8 /\ Distance[pc'] < Distance[pc]
  <2>1. Remaining' = left(age, live(ctx), attempt, Distance[pc'])
    BY <1>14, <1>7
  <2>2. Distance[pc'] \in 0 .. 8 /\ Distance[pc'] < Distance[pc]
    BY <1>14
  <2>3. left(age, live(ctx), attempt, Distance[pc'])
           < left(age, live(ctx), attempt, Distance[pc])
    BY <1>10, <1>9, <2>2, Zenon
  <2> QED BY <1>6, <1>7, <2>1, <2>3, Zenon
<1>15. CASE Refuse \/ Dispatch \/ Network
  BY <1>14, <1>15 DEF Refuse, Dispatch, Network, DoReturns, DoFails, BodyRead, BodyFails, Distance
<1>16. CASE AfterDoFailed \/ AfterReadFailed \/ AfterRead
  <2>1. UNCHANGED <<age, ctx, attempt>> /\ pc \in {"doFailed", "readFailed", "read"}
    BY <1>16 DEF AfterDoFailed, AfterReadFailed, AfterRead
  <2>2. pc' \in {"answered", "backoff"}
    BY <1>16 DEF AfterDoFailed, AfterReadFailed, AfterRead, FailOrRetry, Finish
  <2>3. Distance[pc] = 4 /\ Distance[pc'] \in 0 .. 1
    BY <2>1, <2>2 DEF Distance
  <2> QED BY <1>14, <2>1, <2>3
<1>17. CASE Admit \/ (waitForRetry /\ pc' = "dispatch")
  <2>1. /\ attempt' = attempt + 1 /\ UNCHANGED <<age, ctx>>
        /\ pc \in {"start", "backoff"} /\ pc' = "dispatch"
    BY <1>17 DEF Admit, waitForRetry, IInv, Accounts, Finish
  <2>2. Distance[pc] = 1 /\ Distance[pc'] = 7
    BY <2>1 DEF Distance
  <2>3. Remaining = left(age, live(ctx), attempt, 1)
    BY <1>7, <2>2
  <2>4. Remaining' = left(age, live(ctx), attempt + 1, 7)
    BY <1>7, <2>1, <2>2
  <2>5. left(age, live(ctx), attempt + 1, 7) < left(age, live(ctx), attempt, 1)
    BY <1>13, <1>9, Zenon
  <2> QED BY <1>6, <2>3, <2>4, <2>5, Zenon
<1>18. CASE waitForRetry /\ pc' # "dispatch"
  BY <1>14, <1>18 DEF waitForRetry, Finish, Distance
<1>19. CASE ParentEnds \/ Expire
  <2>1. ctx = "live" /\ ctx' # "live" /\ UNCHANGED <<pc, age, attempt>>
    BY <1>19 DEF ParentEnds, Expire
  <2>2. Remaining = left(age, 1, attempt, Distance[pc])
    BY <1>7, <1>8, <2>1
  <2>3. Remaining' = left(age, 0, attempt, Distance[pc])
    BY <1>7, <1>8, <2>1
  <2>4. left(age, 0, attempt, Distance[pc]) < left(age, 1, attempt, Distance[pc])
    BY <1>12, <1>9, Zenon
  <2> QED BY <1>6, <2>2, <2>3, <2>4, Zenon
<1>20. CASE Tick
  <2>1. age' = age + 1 /\ UNCHANGED <<pc, ctx, attempt>>
    BY <1>20 DEF Tick
  <2>2. Remaining' = left(age + 1, live(ctx), attempt, Distance[pc])
    BY <1>7, <2>1
  <2>3. left(age + 1, live(ctx), attempt, Distance[pc])
           < left(age, live(ctx), attempt, Distance[pc])
    BY <1>11, <1>9, Zenon
  <2> QED BY <1>6, <1>7, <2>2, <2>3, Zenon
<1> QED
  BY <1>6, <1>15, <1>16, <1>17, <1>18, <1>19, <1>20 DEF Next, Local

(* Every step brings a call nearer to its end, so none goes on for ever,   *)
(* whatever the upstream answers and whoever cancels: of the script's      *)
(* liveness, the part that needs no fairness.                              *)
THEOREM CallsAreFinite == Spec => [][Remaining' < Remaining /\ Remaining \in Nat]_vars
<1>1. IInv /\ [Next]_vars => [Remaining' < Remaining /\ Remaining \in Nat]_vars
  BY StepsForward
<1> QED BY <1>1, Invariance, PTL DEF Spec

--------------------------------------------------------------------------------
(* Why a call gives up.                                                    *)

(* While the context lives every attempt has sent its request.             *)
Counted ==
    /\ ctx = "live" /\ pc = "dispatch" => sent + 1 = attempt
    /\ ctx = "live" /\ pc \notin {"start", "dispatch", "answered"} => sent = attempt
    /\ GivesUpForCause

\* a failed attempt that is the last one, or whose failure is final
LEMMA GivingUp ==
    ASSUME TypeOK, NEW retry \in BOOLEAN, NEW err, FailOrRetry(retry, err),
           sent' = sent, ctx' = ctx, attempt' = attempt, reply = "none",
           ctx = "live" => sent = attempt,
           ~retry => ctx # "live" \/ err \in {"other", "decode", "tooLarge"}
    PROVE  /\ pc' \in {"answered", "backoff"}
           /\ ctx' = "live" /\ pc' = "backoff" => sent' = attempt'
           /\ GivesUpForCause'
<1>1. CASE ~retry \/ attempt = MaxAttempts
  BY <1>1 DEF FailOrRetry, Finish, GivesUpForCause
<1>2. CASE retry /\ attempt # MaxAttempts
  BY <1>2 DEF FailOrRetry, GivesUpForCause
<1> QED
  BY <1>1, <1>2

LEMMA NextCounted == TypeOK /\ Accounts /\ Counted /\ [Next]_vars => Counted'
<1> SUFFICES ASSUME TypeOK, Accounts, Counted, [Next]_vars PROVE Counted'
  OBVIOUS
<1> USE DEF Counted
<1>1. CASE Refuse
  BY <1>1 DEF Refuse, RefusalCodes, GivesUpForCause
<1>2. CASE Admit
  BY <1>2 DEF Admit, Accounts, GivesUpForCause
<1>3. CASE Dispatch
  BY <1>3 DEF Dispatch, Accounts, GivesUpForCause
<1>4. CASE Network
  BY <1>4 DEF Network, DoReturns, DoFails, BodyRead, BodyFails, Accounts, GivesUpForCause
<1>5. CASE AfterDoFailed
  <2>1. reply = "none" /\ UNCHANGED <<ctx, attempt, sent>> /\ (ctx = "live" => sent = attempt)
    BY <1>5 DEF AfterDoFailed, Accounts
  <2>2. PICK retry \in BOOLEAN : retry = (ctx = "live") /\ FailOrRetry(retry, lastErr)
    BY <1>5 DEF AfterDoFailed
  <2> QED
    BY <2>1, <2>2, GivingUp
<1>6. CASE AfterReadFailed
  <2>1. reply = "none" /\ UNCHANGED <<ctx, attempt, sent>> /\ (ctx = "live" => sent = attempt)
    BY <1>6 DEF AfterReadFailed, Accounts
  <2>2. PICK retry \in BOOLEAN : /\ retry = (ctx = "live" /\ lastErr # "tooLarge")
                                 /\ FailOrRetry(retry, lastErr)
    BY <1>6 DEF AfterReadFailed
  <2> QED
    BY <2>1, <2>2, GivingUp
<1>7. CASE AfterRead
  <2>1. reply = "none" /\ UNCHANGED <<ctx, attempt, sent>> /\ (ctx = "live" => sent = attempt)
    BY <1>7 DEF AfterRead, Accounts
  <2>2. CASE answer # "2xx" /\ FailOrRetry(answer \in {"429", "5xx"}, answer)
    <3>1. CASE answer \in {"429", "5xx"}
      <4>1. FailOrRetry(TRUE, answer)
        BY <2>2, <3>1 DEF FailOrRetry
      <4> QED
        BY <2>1, <4>1, GivingUp
    <3>2. CASE answer \notin {"429", "5xx"}
      <4>1. FailOrRetry(FALSE, answer) /\ answer = "other"
        BY <1>7, <2>2, <3>2 DEF FailOrRetry, AfterRead, Accounts, TypeOK, Answers
      <4> QED
        BY <2>1, <4>1, GivingUp
    <3> QED
      BY <3>1, <3>2
  <2>3. CASE FailOrRetry(FALSE, "decode")
    BY <2>1, <2>3, GivingUp
  <2>4. CASE Finish("OK")
    BY <2>4 DEF Finish, GivesUpForCause
  <2> QED
    BY <1>7, <2>2, <2>3, <2>4 DEF AfterRead
<1>8. CASE waitForRetry
  BY <1>8 DEF waitForRetry, Finish, Accounts, GivesUpForCause
<1>9. CASE ParentEnds \/ Expire
  BY <1>9 DEF ParentEnds, Expire, Running, Accounts, GivesUpForCause
<1>10. CASE Tick \/ UNCHANGED vars
  BY <1>10 DEF Tick, vars, GivesUpForCause
<1> QED
  BY <1>1, <1>2, <1>3, <1>4, <1>5, <1>6, <1>7, <1>8, <1>9, <1>10 DEF Next, Local

(* A call never gives up while another attempt could help.                 *)
THEOREM NoEarlyGivingUp == Spec => []GivesUpForCause
<1>1. Init => Counted
  BY DEF Init, Counted, GivesUpForCause
<1>2. IInv /\ Counted /\ [Next]_vars => Counted'
  BY NextCounted DEF IInv
<1>3. Counted => GivesUpForCause
  BY DEF Counted
<1> QED
  BY <1>1, <1>2, <1>3, Invariance, PTL DEF Spec

--------------------------------------------------------------------------------
(* A context that ends during a wait.                                      *)

\* from the end of the context to the answer, on either branch of the select
Ended(c, n) ==
    /\ ctx = c /\ c # "live" /\ sent = n
    /\ \/ pc \in {"backoff", "dispatch"} /\ reply = "none"
       \/ pc = "doFailed" /\ lastErr = c /\ reply = "none"
       \/ pc = "answered" /\ reply = FailureReply(c)

LEMMA NextEnded ==
    ASSUME NEW c \in {"canceled", "deadline"}, NEW n, Ended(c, n), [Next]_vars
    PROVE  Ended(c, n)'
<1> USE DEF Ended
<1>1. CASE Dispatch
  BY <1>1 DEF Dispatch
<1>2. CASE AfterDoFailed
  BY <1>2 DEF AfterDoFailed, FailOrRetry, Finish, FailureReply
<1>3. CASE waitForRetry
  BY <1>3 DEF waitForRetry, Finish, FailureReply
<1>4. CASE UNCHANGED vars
  BY <1>4 DEF vars, FailureReply
<1>5. ~(Refuse \/ Admit \/ AfterReadFailed \/ AfterRead \/ Network \/ ParentEnds \/ Expire \/ Tick)
  BY DEF Refuse, Admit, AfterReadFailed, AfterRead, Network, DoReturns, DoFails, BodyRead,
         BodyFails, ParentEnds, Expire, Tick
<1> QED
  BY <1>1, <1>2, <1>3, <1>4, <1>5 DEF Next, Local

(* The end of the context during a wait is the end of the call, whichever  *)
(* branch the select takes.                                                *)
THEOREM EndedWaitsAreFinal == Spec => EndedWaitIsFinal
<1>1. ASSUME NEW c \in {"canceled", "deadline"}, NEW n \in 1 .. MaxAttempts
      PROVE  Spec => [](pc = "backoff" /\ ctx = c /\ sent = n =>
                [](/\ sent = n
                   /\ reply \in {"none", IF c = "deadline" THEN "IMAGE_SYNC_TIMEOUT"
                                                          ELSE "IMAGE_SYNC_FAILED"}))
  <2>1. IInv /\ pc = "backoff" /\ ctx = c /\ sent = n => Ended(c, n)
    BY DEF IInv, Accounts, Ended
  <2>2. Ended(c, n) /\ [Next]_vars => Ended(c, n)'
    BY NextEnded
  <2>3. Ended(c, n) => /\ sent = n
                       /\ reply \in {"none", IF c = "deadline" THEN "IMAGE_SYNC_TIMEOUT"
                                                              ELSE "IMAGE_SYNC_FAILED"}
    BY DEF Ended, FailureReply
  <2> QED
    BY <2>1, <2>2, <2>3, Invariance, PTL DEF Spec
<1> QED
  BY <1>1 DEF EndedWaitIsFinal

--------------------------------------------------------------------------------
(* The schedule of a call.                                                 *)

\* induction with a set in the place of the predicate
LEMMA SetInduction ==
    ASSUME NEW S, 0 \in S, \A n \in Nat : n \in S => n + 1 \in S
    PROVE  Nat \subseteq S
<1> DEFINE R == OpToRel(<, Nat)
<1>1. IsWellFoundedOn(R, Nat)
  BY NatLessThanWellFounded
<1>2. \A x, y \in Nat : x < y => <<x, y>> \in R
  BY DEF OpToRel
<1>3. SUFFICES ASSUME Nat \ S # {} PROVE FALSE
  OBVIOUS
<1> HIDE DEF R
<1>4. PICK x \in Nat \ S : \A y \in Nat \ S : ~(<<y, x>> \in R)
  BY <1>1, <1>3, WFMin
<1>5. x - 1 \in Nat /\ x = (x - 1) + 1 /\ x - 1 < x
  BY <1>4
<1>6. x - 1 \notin S
  BY <1>4, <1>5
<1> QED BY <1>2, <1>4, <1>5, <1>6

(* Schedule is what its recursion says.                                    *)
LEMMA ScheduleUnfolds ==
    /\ \A a \in 1 .. MaxAttempts : Schedule[a] \in Nat
    /\ Schedule[1] = AttemptTimeout
    /\ \A a \in 1 .. MaxAttempts : a + 1 \in 1 .. MaxAttempts =>
          Schedule[a + 1] = Schedule[a] + RetryDelay[a] + AttemptTimeout
<1> DEFINE next(q, a) == q + RetryDelay[a - 1] + AttemptTimeout
           step(g, a) == IF a = 1 THEN AttemptTimeout ELSE next(g[a - 1], a)
           P == {m \in Nat : \E g : g = [a \in 1 .. m |-> step(g, a)]}
<1>1. 0 \in P
  <2>1. [a \in 1 .. 0 |-> 0] = [a \in 1 .. 0 |-> step([j \in 1 .. 0 |-> 0], a)]
    OBVIOUS
  <2> QED BY <2>1
<1>2. ASSUME NEW m \in Nat, m \in P PROVE m + 1 \in P
  <2>1. PICK g : g = [a \in 1 .. m |-> step(g, a)]
    BY <1>2
  <2> DEFINE h == [a \in 1 .. m + 1 |->
                     IF a <= m THEN g[a] ELSE IF a = 1 THEN AttemptTimeout ELSE next(g[m], a)]
  <2> HIDE DEF next
  <2>2. \A a \in 1 .. m : h[a] = g[a]
    OBVIOUS
  <2>3. ASSUME NEW a \in 1 .. m + 1 PROVE h[a] = step(h, a)
    <3>1. CASE a <= m
      <4>1. a \in 1 .. m /\ h[a] = g[a] /\ g[a] = step(g, a)
        BY <2>1, <2>2, <3>1
      <4>2. a # 1 => a - 1 \in 1 .. m /\ h[a - 1] = g[a - 1]
        BY <2>2, <4>1
      <4> HIDE DEF h
      <4> QED BY <4>1, <4>2
    <3>2. CASE a = m + 1 /\ m # 0
      <4>1. h[a] = next(g[m], a) /\ a - 1 = m /\ h[m] = g[m] /\ a # 1
        BY <2>2, <3>2
      <4> HIDE DEF h
      <4> QED BY <4>1
    <3>3. CASE a = m + 1 /\ m = 0
      BY <3>3
    <3> QED BY <3>1, <3>2, <3>3
  <2>4. h = [a \in 1 .. m + 1 |-> step(h, a)]
    BY <2>3
  <2> HIDE DEF h, step
  <2>5. \E k : k = [a \in 1 .. m + 1 |-> step(k, a)]
    BY <2>4
  <2> QED BY <2>5
<1> HIDE DEF P
<1>3. MaxAttempts \in P
  BY <1>1, <1>2, SetInduction, ImageSyncAssumption
<1>4. \E g : g = [a \in 1 .. MaxAttempts |-> step(g, a)]
  BY <1>3 DEF P
<1>5. Schedule = [a \in 1 .. MaxAttempts |-> step(Schedule, a)]
  BY <1>4 DEF Schedule
<1>6. /\ Schedule[1] = AttemptTimeout
      /\ \A a \in 1 .. MaxAttempts : a # 1 => Schedule[a] = next(Schedule[a - 1], a)
  <2>1. \A a \in 1 .. MaxAttempts : Schedule[a] = step(Schedule, a)
    <3> HIDE DEF step
    <3> QED BY <1>5
  <2>2. 1 \in 1 .. MaxAttempts
    BY ImageSyncAssumption
  <2> HIDE DEF next
  <2> QED BY <2>1, <2>2
<1>7. \A a \in 1 .. MaxAttempts : a + 1 \in 1 .. MaxAttempts =>
          Schedule[a + 1] = Schedule[a] + RetryDelay[a] + AttemptTimeout
  <2> SUFFICES ASSUME NEW a \in 1 .. MaxAttempts, a + 1 \in 1 .. MaxAttempts
               PROVE  Schedule[a + 1] = Schedule[a] + RetryDelay[a] + AttemptTimeout
    OBVIOUS
  <2>1. a + 1 # 1 /\ (a + 1) - 1 = a
    OBVIOUS
  <2> QED BY <1>6, <2>1
<1>8. \A a \in 1 .. MaxAttempts : Schedule[a] \in Nat
  <2> DEFINE Q == {m \in Nat : m + 1 \in 1 .. MaxAttempts => Schedule[m + 1] \in Nat}
  <2>1. 0 \in Q
    BY <1>6, ImageSyncAssumption
  <2>2. ASSUME NEW m \in Nat, m \in Q PROVE m + 1 \in Q
    <3> SUFFICES ASSUME (m + 1) + 1 \in 1 .. MaxAttempts PROVE Schedule[(m + 1) + 1] \in Nat
      OBVIOUS
    <3>1. m + 1 \in 1 .. MaxAttempts
      BY ImageSyncAssumption
    <3>2. Schedule[(m + 1) + 1] = Schedule[m + 1] + RetryDelay[m + 1] + AttemptTimeout
      BY <1>7, <3>1
    <3> QED BY <2>2, <3>1, <3>2, ImageSyncAssumption
  <2> HIDE DEF Q
  <2>3. Nat \subseteq Q
    BY <2>1, <2>2, SetInduction
  <2> SUFFICES ASSUME NEW a \in 1 .. MaxAttempts PROVE Schedule[a] \in Nat
    OBVIOUS
  <2>4. a - 1 \in Q /\ (a - 1) + 1 = a
    BY <2>3
  <2> QED BY <2>4 DEF Q
<1> QED BY <1>6, <1>7, <1>8

(* What is left of an attempt's timeout, or of a wait, ends where the      *)
(* schedule says.                                                          *)
OnSchedule ==
    /\ pc = "dispatch" => age + AttemptTimeout <= Schedule[attempt]
    /\ pc \in {"awaiting", "reading"} => age + timer <= Schedule[attempt]
    /\ pc \in {"read", "doFailed", "readFailed"} => age <= Schedule[attempt]
    /\ pc = "backoff" => age + timer <= Schedule[attempt] + RetryDelay[attempt]

LEMMA NextOnSchedule == IInv /\ OnSchedule /\ [Next]_vars => OnSchedule'
<1> SUFFICES ASSUME IInv, OnSchedule, [Next]_vars PROVE OnSchedule'
  OBVIOUS
<1> USE ImageSyncAssumption DEF OnSchedule
<1>1. /\ age \in Nat /\ timer \in Nat /\ attempt \in 0 .. MaxAttempts
      /\ pc \notin {"start", "answered"} => attempt \in 1 .. MaxAttempts
  BY DEF IInv, TypeOK, Accounts
<1>2. /\ \A a \in 1 .. MaxAttempts : Schedule[a] \in Nat /\ RetryDelay[a] \in Nat
      /\ AttemptTimeout \in Nat
  BY ScheduleUnfolds
<1>3. CASE Admit
  <2>1. age' = 0 /\ attempt' = 1 /\ pc' = "dispatch"
    BY <1>3 DEF Admit, IInv, Accounts
  <2> QED BY <1>2, <2>1, ScheduleUnfolds
<1>4. CASE Dispatch
  BY <1>1, <1>2, <1>4 DEF Dispatch
<1>5. CASE Network
  BY <1>1, <1>2, <1>5 DEF Network, DoReturns, DoFails, BodyRead, BodyFails
<1>6. CASE AfterDoFailed \/ AfterReadFailed \/ AfterRead
  <2>1. UNCHANGED <<age, attempt>> /\ pc \in {"doFailed", "readFailed", "read"}
    BY <1>6 DEF AfterDoFailed, AfterReadFailed, AfterRead
  <2>2. pc' = "answered" \/ (pc' = "backoff" /\ timer' = RetryDelay[attempt])
    BY <1>6 DEF AfterDoFailed, AfterReadFailed, AfterRead, FailOrRetry, Finish
  <2> QED BY <1>1, <1>2, <2>1, <2>2
<1>7. CASE waitForRetry
  <2>1. CASE pc' = "dispatch" /\ timer = 0 /\ attempt' = attempt + 1
    <3>1. /\ pc = "backoff" /\ age' = age /\ attempt \in 1 .. MaxAttempts
          /\ attempt + 1 \in 1 .. MaxAttempts
      BY <1>1, <1>7, <2>1 DEF waitForRetry, IInv, Accounts
    <3>2. Schedule[attempt + 1] = Schedule[attempt] + RetryDelay[attempt] + AttemptTimeout
      BY <3>1, ScheduleUnfolds
    <3> QED BY <1>1, <1>2, <2>1, <3>1, <3>2
  <2>2. CASE pc' = "answered"
    BY <2>2
  <2> QED BY <1>7, <2>1, <2>2 DEF waitForRetry, Finish
<1>8. CASE Tick
  BY <1>1, <1>2, <1>8 DEF Tick, Blocked
<1>9. CASE Refuse \/ ParentEnds \/ Expire \/ UNCHANGED vars
  BY <1>9 DEF Refuse, ParentEnds, Expire, vars
<1> QED
  BY <1>3, <1>4, <1>5, <1>6, <1>7, <1>8, <1>9 DEF Next, Local

(* Attempts and waits keep the schedule, for any number of them.           *)
THEOREM ScheduleHolds == Spec => []ScheduleIsKept
<1>1. Init => OnSchedule
  BY DEF Init, OnSchedule
<1>2. IInv /\ OnSchedule => ScheduleIsKept
  <2> SUFFICES ASSUME IInv, OnSchedule, Running PROVE ScheduleIsKept
    BY DEF ScheduleIsKept
  <2>1. /\ age \in Nat /\ timer \in Nat /\ attempt \in 1 .. MaxAttempts
        /\ AttemptTimeout \in Nat
        /\ pc \in {"dispatch", "awaiting", "reading", "read", "doFailed", "readFailed",
                   "backoff"}
    BY ImageSyncAssumption DEF IInv, TypeOK, Accounts, Running
  <2>2. Schedule[attempt] \in Nat /\ RetryDelay[attempt] \in Nat
    BY <2>1, ScheduleUnfolds, ImageSyncAssumption
  <2> QED BY <2>1, <2>2 DEF OnSchedule, ScheduleIsKept
<1> QED
  BY <1>1, <1>2, NextOnSchedule, Invariance, PTL DEF Spec

=============================================================================
