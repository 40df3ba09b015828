-------------------------- MODULE SyncScriptProofs --------------------------
(* Theorems about SyncScript: the script sees ImageSync as it is, and its  *)
(* exit code tells the truth of any upstream.                              *)
EXTENDS SyncScript, TLAPS

(* Every step of the composition is one of the server's or leaves it       *)
(* alone: what ImageSyncProofs shows of the call holds of a script's call. *)
THEOREM ServerIsImageSync == ScriptSpec => Init /\ [][Next]_vars
<1>1. ScriptInit => Init
  BY DEF ScriptInit
<1>2. [ScriptNext]_allVars => [Next]_vars
  BY DEF ScriptNext, allVars, AskPath, GiveUp, Call, CallBroken, CallReturns, Server, JobEnds
<1> QED
  BY <1>1, <1>2, PTL DEF ScriptSpec

--------------------------------------------------------------------------------
(* An upstream that has said "synced" has the image; the script reads the  *)
(* body of a call that is over, and nothing changes it any more.           *)
VerdictInv ==
    /\ body = "synced" => present
    /\ exit = "synced" => pc = "answered" /\ body = "synced"
    /\ exit = "notSynced" => pc = "answered" /\ body # "synced"

\* the endpoint answers once
LEMMA AnsweredIsOver == pc = "answered" /\ Next => pc' = "answered"
BY DEF Next, Refuse, Admit, Local, Dispatch, AfterDoFailed, AfterReadFailed, AfterRead,
       waitForRetry, Network, DoReturns, DoFails, BodyRead, BodyFails, ParentEnds, Expire,
       Tick, Blocked

\* what IsSuccess accepts is what the upstream says of an image that is there
LEMMA SuccessIsSynced == \A b : IsSuccess(Relayed(b)) <=> b = "synced"
<1> TAKE b
<1>1. CASE b = "synced"
  BY <1>1 DEF IsSuccess, Relayed
<1>2. CASE b # "synced"
  BY <1>2 DEF IsSuccess, Relayed
<1> QED
  BY <1>1, <1>2

LEMMA NextVerdict == VerdictInv /\ [ScriptNext]_allVars => VerdictInv'
<1> SUFFICES ASSUME VerdictInv, [ScriptNext]_allVars PROVE VerdictInv'
  OBVIOUS
<1>1. CASE AskPath \/ Call \/ UNCHANGED allVars
  BY <1>1 DEF AskPath, Call, VerdictInv, allVars, vars, scriptVars, upstream
<1>2. CASE GiveUp \/ CallBroken
  BY <1>2 DEF GiveUp, CallBroken, Exit, VerdictInv, vars, upstream
<1>3. CASE CallReturns
  <2>1. /\ pc = "answered" /\ pc' = pc /\ body' = body /\ present' = present
        /\ exit' = IF reply # "OK" THEN "refused"
                   ELSE IF IsSuccess(Relayed(body)) THEN "synced" ELSE "notSynced"
    BY <1>3 DEF CallReturns, Exit, vars, upstream
  <2> QED
    BY <2>1, SuccessIsSynced DEF VerdictInv
<1>4. CASE Server(Next)
  <2>1. Next /\ Says /\ exit' = exit /\ present' = present
    BY <1>4 DEF Server, scriptVars
  <2>2. body' = "synced" => present'
    BY <2>1 DEF Says, VerdictInv
  <2>3. pc = "answered" => pc' = "answered" /\ body' = body
    BY <2>1, AnsweredIsOver DEF Says
  <2> QED
    BY <2>1, <2>2, <2>3 DEF VerdictInv
<1>5. CASE JobEnds
  <2>1. present' = present \/ present' = TRUE
    BY <1>5, Zenon DEF JobEnds
  <2>2. present => present'
    BY <2>1, Zenon
  <2>3. pc' = pc /\ exit' = exit /\ body' = body
    BY <1>5 DEF JobEnds, vars, scriptVars
  <2> QED
    BY <2>2, <2>3, Zenon DEF VerdictInv
<1> QED
  BY <1>1, <1>2, <1>3, <1>4, <1>5 DEF ScriptNext

(* Exit code 0 of the sync subcommand means the image is there, for any    *)
(* number of attempts and any timeouts.                                    *)
THEOREM VerdictHolds == ScriptSpec => []SyncVerdictIsTrue
<1>1. ScriptInit => VerdictInv
  BY DEF ScriptInit, VerdictInv
<1>2. VerdictInv => SyncVerdictIsTrue
  BY DEF VerdictInv, SyncVerdictIsTrue
<1> QED
  BY <1>1, <1>2, NextVerdict, PTL DEF ScriptSpec

=============================================================================
