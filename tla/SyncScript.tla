----------------------------- MODULE SyncScript -----------------------------
(***************************************************************************)
(* sync_image_and_create_tool.sh, its sync subcommand: one call of the     *)
(* endpoint of module ImageSync, whose answer the script reads.  The       *)
(* server relays what the upstream says with status 200, a copy that       *)
(* failed included, and reads a field the upstream left out as zero, so    *)
(* the verdict is the script's.                                            *)
(***************************************************************************)
EXTENDS ImageSync

VARIABLES
    at,       \* where the script is
    input,    \* the image path given last
    exit,     \* why it ended: the exit code is 0 for "synced" only
    body,     \* the JSON of the upstream's last complete 2xx response
    jobs,     \* copies the upstream is busy with
    present   \* whether the image is in the target registry

scriptVars == <<at, input, exit>>
upstream == <<body, jobs, present>>
allVars == <<vars, scriptVars, upstream>>

Inputs == {"blank", "malformed", "wellFormed"}

(* What the upstream may answer: it is done, it failed, it is not done     *)
(* yet, it is done but does not say where the image is, or {}.             *)
Bodies == {"synced", "failed", "pending", "unnamed", "empty"}

\* the fields of these once SyncImage has relayed them
Relayed(b) ==
    [code   |-> IF b = "failed" THEN 1 ELSE 0,
     status |-> IF b \in {"synced", "unnamed"} THEN "success"
                ELSE IF b = "empty" THEN "" ELSE b,
     image  |-> IF b = "synced" THEN "image" ELSE ""]

ScriptInit ==
    /\ Init
    /\ at = "resolving"
    /\ input \in Inputs
    /\ exit = "none"
    /\ body = "none"
    /\ jobs = 0
    /\ present = FALSE

Exit(why) == at' = "exited" /\ exit' = why

--------------------------------------------------------------------------------
(* cmd_sync.                                                               *)

\* a path that does not have its three parts is asked for again
AskPath ==
    /\ at = "resolving"
    /\ input # "wellFormed"
    /\ input' \in Inputs
    /\ UNCHANGED <<vars, at, exit, upstream>>

\* no curl, no API key, wrong arguments, or nobody to ask
GiveUp ==
    /\ at = "resolving"
    /\ Exit("notAsked")
    /\ UNCHANGED <<vars, input, upstream>>

Call ==
    /\ at = "resolving"
    /\ input = "wellFormed"
    /\ at' = "calling"
    /\ UNCHANGED <<vars, input, exit, upstream>>

(* The server cannot be reached, dies, or answers with its own timeout;    *)
(* its handler may go on for a while.                                      *)
CallBroken ==
    /\ at = "calling"
    /\ Exit("broken")
    /\ UNCHANGED <<vars, input, upstream>>

\* mutant of IsSuccess: the status code of the call and the code say it all
IsSuccess_CodeOnly(r) == r.code = 0

\* the checks the answer has to pass, one after the other
IsSuccess(r) == r.code = 0 /\ r.status = "success" /\ r.image # ""

CallReturns ==
    /\ at = "calling"
    /\ pc = "answered"
    /\ Exit(IF reply # "OK" THEN "refused"
            ELSE IF IsSuccess(Relayed(body)) THEN "synced" ELSE "notSynced")
    /\ UNCHANGED <<vars, input, upstream>>

--------------------------------------------------------------------------------
(* The upstream.                                                           *)

\* a request that was sent may arrive
Arrives == jobs' \in IF sent' > sent THEN {jobs, jobs + 1} ELSE {jobs}

\* it says "synced" of an image that is there only
Says ==
    IF pc = "awaiting" /\ pc' = "reading" /\ answer' = "2xx"
    THEN body' \in {b \in Bodies : b = "synced" => present}
    ELSE UNCHANGED body

\* a copy ends, whoever still waits for it
JobEnds ==
    /\ jobs > 0
    /\ jobs' = jobs - 1
    /\ present' \in {present, TRUE}
    /\ UNCHANGED <<vars, scriptVars, body>>

(* The server's own steps, once it has been called; a script that gave up  *)
(* before its curl has not called it.                                      *)
Server(step) ==
    /\ at # "resolving" /\ exit # "notAsked"
    /\ step
    /\ Arrives /\ Says
    /\ UNCHANGED <<scriptVars, present>>

ScriptNext ==
    \/ AskPath \/ GiveUp \/ Call \/ CallBroken \/ CallReturns
    \/ Server(Next)
    \/ JobEnds

(* The fairness of ImageSync, with a server that takes the call and an     *)
(* answer that arrives; nothing is assumed of the upstream.                *)
ScriptSpec ==
    /\ ScriptInit
    /\ [][ScriptNext]_allVars
    /\ WF_allVars(Server(Refuse \/ Admit)) /\ WF_allVars(Server(Local))
    /\ WF_allVars(Server(Due)) /\ WF_allVars(Server(Expire)) /\ WF_allVars(Server(Tick))
    /\ WF_allVars(CallReturns)

--------------------------------------------------------------------------------
(* Properties.                                                             *)

(* Exit code 0 means that the image is in the target registry, however     *)
(* many attempts were made and whatever the upstream leaves out; and an    *)
(* answer that says so is never reported as a failure.                     *)
SyncVerdictIsTrue ==
    /\ exit = "synced" => present
    /\ exit = "notSynced" => body # "synced"

(* A script that has called ends, though curl has no time limit, and the   *)
(* server's handler does, though the script may have gone before.          *)
SyncScriptExits == at = "calling" ~> at = "exited" /\ pc = "answered"

=============================================================================
