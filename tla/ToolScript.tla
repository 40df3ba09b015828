------------------------------ MODULE ToolScript ------------------------------
(***************************************************************************)
(* sync_image_and_create_tool.sh, its tool subcommand: create a tool, then *)
(* watch it until it is ACTIVE or FAILED or the time is up.  Several users *)
(* run the script at once against one server, so this module composes the  *)
(* script with SandboxTool: a script's create call is the request of the   *)
(* same name, its status calls are made in the query slot of that name;    *)
(* the other query slots are other users of the status endpoint.           *)
(***************************************************************************)
EXTENDS SandboxTool

CONSTANTS
    PollInterval,  \* TOOL_STATUS_POLL_INTERVAL, seconds
    PollTimeout,   \* TOOL_STATUS_POLL_TIMEOUT, seconds
    MaxLag         \* bound: seconds one status call may take

ASSUME ToolScriptAssumption ==
    /\ Requests \subseteq Queries
    /\ PollInterval \in Nat \ {0}
    /\ PollTimeout \in Nat \ {0}
    /\ MaxLag \in Nat
    /\ None \notin {"active", "failed"}

VARIABLES
    at,       \* at[c]: where the script is
    tool,     \* tool[c]: the tool it watches
    elapsed,  \* elapsed[c]: seconds of watching, as last computed
    polls,    \* polls[c]: status calls made (observation only)
    exit      \* exit[c]: why it ended

scriptVars == <<at, tool, elapsed, polls, exit>>
allVars == <<vars, scriptVars>>

\* the script's exit code is 0 for this one only
Succeeded(c) == exit[c] = "active"

ScriptInit ==
    /\ Init
    /\ at = [c \in Requests |-> "tool"]
    /\ tool = [c \in Requests |-> None]
    /\ elapsed = [c \in Requests |-> 0]
    /\ polls = [c \in Requests |-> 0]
    /\ exit = [c \in Requests |-> None]

Exit(c, why) ==
    /\ at' = [at EXCEPT ![c] = "exited"]
    /\ exit' = [exit EXCEPT ![c] = why]

--------------------------------------------------------------------------------
(* cmd_tool.                                                               *)

\* the POST reaches the server
PostTool(c) ==
    /\ at[c] = "tool"
    /\ Receive(c)
    /\ at' = [at EXCEPT ![c] = "posted"]
    /\ UNCHANGED <<tool, elapsed, polls, exit>>

\* or it does not
PostFails(c) ==
    /\ at[c] = "tool"
    /\ Exit(c, "notCreated")
    /\ UNCHANGED <<vars, tool, elapsed, polls>>

(* accepted:true and a toolId start the watch with its own clock; anything *)
(* else ends the script, which never posts twice.                          *)
PostAnswered(c) ==
    /\ at[c] = "posted"
    /\ pc[c] = "answered"
    /\ \/ /\ reply[c].accepted
          /\ tool' = [tool EXCEPT ![c] = reply[c].tool]
          /\ at' = [at EXCEPT ![c] = "polling"]
          /\ UNCHANGED exit
       \/ /\ ~reply[c].accepted
          /\ Exit(c, "notCreated")
          /\ UNCHANGED tool
    /\ UNCHANGED <<vars, elapsed, polls>>

\* the server died, answered with its own timeout, or the user broke off
PostBroken(c) ==
    /\ at[c] = "posted"
    /\ pc[c] = "lost" \/ ctx[c] # "live"
    /\ Exit(c, "notCreated")
    /\ UNCHANGED <<vars, tool, elapsed, polls>>

--------------------------------------------------------------------------------
(* cmd_watch.                                                              *)

\* one GET; the server takes it, refuses it, or cannot be reached
Poll(c) ==
    /\ at[c] = "polling"
    /\ elapsed[c] < PollTimeout
    /\ polls' = [polls EXCEPT ![c] = @ + 1]
    /\ \/ /\ Ask(c, tool[c]) \/ AskRefused(c, "UNAUTHORIZED")
          /\ at' = [at EXCEPT ![c] = "asking"]
       \/ /\ at' = [at EXCEPT ![c] = "sleeping"]
          /\ UNCHANGED vars
    /\ UNCHANGED <<tool, elapsed, exit>>

\* mutant of PollAnswered: whatever is not an error or FAILED counts as done
PollAnswered_AnyStatusIsDone(c) ==
    /\ at[c] = "asking"
    /\ Collect(c)
    /\ LET s == told[c].status IN
       \/ s \in QueryErrors /\ at' = [at EXCEPT ![c] = "sleeping"] /\ UNCHANGED exit
       \/ s = "FAILED" /\ Exit(c, "failed")
       \/ s \in {"ACTIVE", "CREATING"} /\ Exit(c, "active")
    /\ UNCHANGED <<tool, elapsed, polls>>

\* curl's exit code first (401 alone stops the loop), then the status
PollAnswered(c) ==
    /\ at[c] = "asking"
    /\ Collect(c)
    /\ LET s == told[c].status IN
       \/ s = "UNAUTHORIZED" /\ Exit(c, "unauthorized")
       \/ s \in QueryErrors \ {"UNAUTHORIZED"} /\ at' = [at EXCEPT ![c] = "sleeping"]
                                             /\ UNCHANGED exit
       \/ s = "ACTIVE" /\ Exit(c, "active")
       \/ s = "FAILED" /\ Exit(c, "failed")
       \/ s = "CREATING" /\ at' = [at EXCEPT ![c] = "sleeping"] /\ UNCHANGED exit
    /\ UNCHANGED <<tool, elapsed, polls>>

\* mutant of Wake: only the calls are counted, not the sleeps
Wake_CountsCallsOnly(c) ==
    /\ at[c] = "sleeping"
    /\ \E lag \in 0 .. MaxLag : elapsed' = [elapsed EXCEPT ![c] = @ + lag]
    /\ at' = [at EXCEPT ![c] = "polling"]
    /\ UNCHANGED <<vars, tool, polls, exit>>

(* The sleep ends and the clock is read: it shows the sleep and whatever   *)
(* the call took.                                                          *)
Wake(c) ==
    /\ at[c] = "sleeping"
    /\ \E lag \in 0 .. MaxLag :
          elapsed' = [elapsed EXCEPT ![c] = @ + PollInterval + lag]
    /\ at' = [at EXCEPT ![c] = "polling"]
    /\ UNCHANGED <<vars, tool, polls, exit>>

TimeUp(c) ==
    /\ at[c] = "polling"
    /\ elapsed[c] >= PollTimeout
    /\ Exit(c, "timeout")
    /\ UNCHANGED <<vars, tool, elapsed, polls>>

Script(c) ==
    \/ PostTool(c) \/ PostFails(c) \/ PostAnswered(c) \/ PostBroken(c)
    \/ Poll(c) \/ PollAnswered(c) \/ Wake(c) \/ TimeUp(c)

ScriptNext ==
    \/ Service /\ UNCHANGED scriptVars
    \/ \E c \in Requests : Script(c)
    \/ \E q \in Queries \ Requests : StatusCaller(q) /\ UNCHANGED scriptVars

(* The server's goroutines and the scripts keep running; curl has no       *)
(* timeout of its own, so the scripts depend on the server's.              *)
ScriptSpec ==
    /\ ScriptInit
    /\ [][ScriptNext]_allVars
    /\ \A r \in Requests : WF_allVars(Handler(r) /\ UNCHANGED scriptVars)
    /\ \A q \in Queries : WF_allVars(QueryHandler(q) /\ UNCHANGED scriptVars)
    /\ \A c \in Requests : WF_allVars(Script(c))

--------------------------------------------------------------------------------
(* Properties.                                                             *)

(* Exit code 0 means that the tool this script asked for, or the one its   *)
(* client token stands for, is ACTIVE; "failed" that it has FAILED.        *)
VerdictIsTrue ==
    \A c \in Requests : exit[c] \in {"active", "failed"} =>
        /\ status[tool[c]] = (IF Succeeded(c) THEN "ACTIVE" ELSE "FAILED")
        /\ LET maker == tools[tool[c]].req IN maker = c \/ SameToken(maker, c)

(* Two users who send different creations never watch the same tool.       *)
NobodyWatchesAnothersTool ==
    \A c, d \in Requests :
        c # d /\ ~SameToken(c, d) /\ tool[c] # None => tool[c] # tool[d]

(* The number of status calls is bounded by the timeout and the interval,  *)
(* however fast the server answers or fails.                               *)
PollsAreBounded ==
    \A c \in Requests : polls[c] > 0 => (polls[c] - 1) * PollInterval < PollTimeout

(* A script that has started ends.                                         *)
EveryScriptExits == \A c \in Requests : at[c] # "tool" ~> at[c] = "exited"

================================================================================
