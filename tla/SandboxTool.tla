------------------------------ MODULE SandboxTool ------------------------------
(***************************************************************************)
(* The sandbox-tool half of cube_sandbox_image_server: the handlers of     *)
(*   POST /api/v1/sandbox/tools         (CreateSandboxTool) and            *)
(*   GET  /api/v1/sandbox/tools/status  (GetSandboxToolStatus),            *)
(* the image registry the first one consults and the cloud control plane   *)
(* (AGS) both of them call.                                                *)
(*                                                                         *)
(* One create request walks through                                        *)
(*   unsent -> resolving -> creating -> answered      (or lost in a crash) *)
(* and every arrow is a point where other requests, the registry, AGS, the *)
(* caller and the process itself may move.  The server keeps no state of   *)
(* its own between requests: what two requests share is the registry and   *)
(* AGS.                                                                    *)
(***************************************************************************)
EXTENDS Naturals, FiniteSets

CONSTANTS
    Requests,    \* create requests that may reach the server
    Queries,     \* callers of the status endpoint, one call at a time each
    Images,      \* image references
    Names,       \* tool names
    Tokens,      \* client tokens
    ToolIds,     \* identifiers AGS may give to a tool
    Payloads,    \* what a caller may send, a subset of PayloadType
    MaxPushes,   \* bound: re-pushes of an image while the model runs
    MaxCrashes,  \* bound: restarts of the server process
    None,        \* no token, no tool, no version, no answer, no reply
    OwnCommand   \* the start command given in the request itself

Defects == {"key", "json", "image", "field"}

(* What matters of a request: its name, token and image, whether it brings *)
(* its own command, and what is wrong with it: a bad API key, a body that  *)
(* does not parse, a blank image, or a field the request builder refuses.  *)
PayloadType == [name : Names, token : Tokens \cup {None}, image : Images,
                explicit : BOOLEAN, defects : SUBSET Defects]

Versions == 0 .. MaxPushes

VARIABLES
    payload,   \* payload[r]: what the caller of r sends
    pc,        \* pc[r]: where the handler of r is
    ctx,       \* ctx[r]: state of the request context of r
    since,     \* since[r]: registry version when r arrived (observation only)
    resolved,  \* resolved[r]: version whose config the registry serves to r
    answer,    \* answer[r]: AGS's answer to r's create call, in transit
    reply,     \* reply[r]: the response the handler of r wrote
    registry,  \* registry[i]: version the tag of image i points at
    inbox,     \* create calls on their way to AGS
    tools,     \* tools[t]: the create call AGS made tool t from, or None
    status,    \* status[t]: provisioning state of t
    asked,     \* asked[q]: tool the status call q is about, None when idle
    listing,   \* listing[q]: AGS's tool list for q, in transit
    told,      \* told[q]: the reply to q, until its caller reads it
    crashes    \* restarts so far

requestVars == <<payload, pc, ctx, since, resolved, answer, reply>>
cloudVars   == <<inbox, tools, status>>
queryVars   == <<asked, listing, told>>
vars == <<requestVars, registry, cloudVars, queryVars, crashes>>

--------------------------------------------------------------------------------
(* Replies of the create endpoint.                                         *)

\* refused by the server itself, before AGS is called
LocalCodes == {"UNAUTHORIZED", "BAD_REQUEST", "INVALID_ARGUMENT",
               "IMAGE_COMMAND_RESOLVE_FAILED"}
\* error codes AGS itself answers with
CloudCodes == {"NAME_CONFLICT", "REFUSED"}
\* the create call ended and nobody knows what AGS made of it
AmbiguousCodes == {"TENCENTCLOUD_TIMEOUT", "REQUEST_CANCELED", "NETWORK_ERROR",
                   "CREATE_SANDBOX_TOOL_ERROR", "INVALID_CLOUD_RESPONSE"}

ReplyType == [accepted : {FALSE}, tool : {None},
              code : LocalCodes \cup CloudCodes \cup AmbiguousCodes]
             \cup [accepted : {TRUE}, tool : ToolIds, code : {"CREATING"}]

rejectedResponse(code) == [accepted |-> FALSE, tool |-> None, code |-> code]
acceptedResponse(t)    == [accepted |-> TRUE, tool |-> t, code |-> "CREATING"]

\* mutant of CreateCall: the token is not copied into the AGS request
CreateCall_DropsToken(r) ==
    [req |-> r, name |-> payload[r].name, token |-> None,
     command |-> IF payload[r].explicit THEN OwnCommand ELSE resolved[r]]

(* The AGS call a request turns into: the name and the token go through    *)
(* unchanged, an empty command is replaced by the one just resolved.       *)
CreateCall(r) ==
    [req     |-> r,
     name    |-> payload[r].name,
     token   |-> payload[r].token,
     command |-> IF payload[r].explicit THEN OwnCommand ELSE resolved[r]]

CallType == [req : Requests, name : Names, token : Tokens \cup {None},
             command : Versions \cup {OwnCommand}]

Provisioned == {"ACTIVE", "FAILED"}
ToolStatus  == Provisioned \cup {"ABSENT", "CREATING"}

(* Replies of the status endpoint.                                         *)
QueryRefusals == {"UNAUTHORIZED", "BAD_REQUEST", "INVALID_ARGUMENT"}
QueryErrors == QueryRefusals \cup
               {"TENCENTCLOUD_TIMEOUT", "STATUS_QUERY_FAILED", "INVALID_CLOUD_RESPONSE",
                "TOOL_NOT_FOUND", "CONNECTION_LOST"}
ToldType == [tool : ToolIds \cup {None},
             status : (ToolStatus \ {"ABSENT"}) \cup QueryErrors]

\* entries of AGS's tool list: a status, a blank one, or no entry at all
Entries == ToolStatus \cup {"BLANK"}

(* Bounds are numbers, and None and OwnCommand are told apart from the     *)
(* values they stand beside.                                               *)
ASSUME SandboxToolAssumption ==
    /\ Payloads \subseteq PayloadType
    /\ MaxPushes \in Nat
    /\ MaxCrashes \in Nat
    /\ None \notin ToolIds
    /\ None \notin CloudCodes
    /\ None \notin Versions
    /\ None \notin CallType
    /\ None \notin ReplyType
    /\ None \notin ToldType
    /\ None \notin [ToolIds -> Entries]
    /\ OwnCommand \notin Versions
    /\ ToolIds \cap CloudCodes = {}

--------------------------------------------------------------------------------
Init ==
    /\ payload \in [Requests -> Payloads]
    /\ pc = [r \in Requests |-> "unsent"]
    /\ ctx = [r \in Requests |-> "live"]
    /\ since = [r \in Requests |-> None]
    /\ resolved = [r \in Requests |-> None]
    /\ answer = [r \in Requests |-> None]
    /\ reply = [r \in Requests |-> None]
    /\ registry = [i \in Images |-> 0]
    /\ inbox = {}
    /\ tools = [t \in ToolIds |-> None]
    /\ status = [t \in ToolIds |-> "ABSENT"]
    /\ asked = [q \in Queries |-> None]
    /\ listing = [q \in Queries |-> None]
    /\ told = [q \in Queries |-> None]
    /\ crashes = 0

--------------------------------------------------------------------------------
(* The create handler.                                                     *)

Answer(r, response) ==
    /\ reply' = [reply EXCEPT ![r] = response]
    /\ pc' = [pc EXCEPT ![r] = "answered"]

Authorized(r) == "key" \notin payload[r].defects    \* ApiKeyAuth
Parses(r)     == "json" \notin payload[r].defects   \* httpx.Parse
HasImage(r)   == "image" \notin payload[r].defects  \* customConfiguration.image
Builds(r)     == "field" \notin payload[r].defects  \* buildCreateSandboxToolRequest

\* the checks in front of the registry call, in the order the code makes them
ScreenCode(r) ==
    CASE ~Authorized(r) -> "UNAUTHORIZED"
      [] Authorized(r) /\ ~Parses(r) -> "BAD_REQUEST"
      [] Authorized(r) /\ Parses(r) /\ ~HasImage(r) -> "INVALID_ARGUMENT"
      [] OTHER -> "PASS"

(* The middleware, httpx.Parse and the blank-image check: all before the   *)
(* first outside call.                                                     *)
Receive(r) ==
    /\ pc[r] = "unsent"
    /\ since' = [since EXCEPT ![r] = registry[payload[r].image]]
    /\ \/ /\ ScreenCode(r) # "PASS"
          /\ Answer(r, rejectedResponse(ScreenCode(r)))
       \/ /\ ScreenCode(r) = "PASS"
          /\ pc' = [pc EXCEPT ![r] = "resolving"]
          /\ UNCHANGED reply
    /\ UNCHANGED <<payload, ctx, resolved, answer, registry, cloudVars,
                   queryVars, crashes>>

\* mutant of ServeManifest: a version served to another request is reused
ServeManifest_Cached(r) ==
    /\ pc[r] = "resolving"
    /\ resolved[r] = None
    /\ \E v \in {registry[payload[r].image]} \cup {resolved[s] : s \in Requests} :
          v # None /\ resolved' = [resolved EXCEPT ![r] = v]
    /\ UNCHANGED <<payload, pc, ctx, since, answer, reply, registry, cloudVars,
                   queryVars, crashes>>

(* The registry resolves the tag to a manifest digest; the image config is *)
(* then read by digest, so the version is fixed here.                      *)
ServeManifest(r) ==
    /\ pc[r] = "resolving"
    /\ resolved[r] = None
    /\ resolved' = [resolved EXCEPT ![r] = registry[payload[r].image]]
    /\ UNCHANGED <<payload, pc, ctx, since, answer, reply, registry, cloudVars,
                   queryVars, crashes>>

\* mutant of ResolveDone: the call is sent first, the fields are checked after
ResolveDone_SendsUnchecked(r) ==
    /\ pc[r] = "resolving"
    /\ resolved[r] # None
    /\ IF ~Builds(r)
       THEN Answer(r, rejectedResponse("INVALID_ARGUMENT"))
       ELSE pc' = [pc EXCEPT ![r] = "creating"] /\ UNCHANGED reply
    /\ inbox' = IF ctx[r] = "live" THEN inbox \cup {CreateCall(r)} ELSE inbox
    /\ UNCHANGED <<payload, ctx, since, resolved, answer, registry, tools, status,
                   queryVars, crashes>>

\* mutant of ResolveDone: the call is made under a context of its own
ResolveDone_DetachedContext(r) ==
    /\ pc[r] = "resolving"
    /\ resolved[r] # None
    /\ Builds(r)
    /\ pc' = [pc EXCEPT ![r] = "creating"]
    /\ inbox' = inbox \cup {CreateCall(r)}
    /\ UNCHANGED <<payload, ctx, since, resolved, answer, reply, registry, tools,
                   status, queryVars, crashes>>

(* ResolveCommand returns a command (it is asked for one even when the     *)
(* request brings its own); the request is then built, and only a request  *)
(* that builds is sent.  A call made under a dead context never leaves.    *)
ResolveDone(r) ==
    /\ pc[r] = "resolving"
    /\ resolved[r] # None
    /\ \/ /\ ~Builds(r)
          /\ Answer(r, rejectedResponse("INVALID_ARGUMENT"))
          /\ UNCHANGED inbox
       \/ /\ Builds(r)
          /\ pc' = [pc EXCEPT ![r] = "creating"]
          /\ inbox' = IF ctx[r] = "live" THEN inbox \cup {CreateCall(r)} ELSE inbox
          /\ UNCHANGED reply
    /\ UNCHANGED <<payload, ctx, since, resolved, answer, registry, tools, status,
                   queryVars, crashes>>

\* mutant of ResolveFails: the registry call has no timeout of its own
ResolveFails_NoTimeout(r) ==
    /\ pc[r] = "resolving"
    /\ ctx[r] # "live"
    /\ Answer(r, rejectedResponse("IMAGE_COMMAND_RESOLVE_FAILED"))
    /\ UNCHANGED <<payload, ctx, since, resolved, answer, registry, cloudVars,
                   queryVars, crashes>>

(* Registry unreachable, denied, too slow, image without a usable command, *)
(* or the caller gone: one rejection for all of them.                      *)
ResolveFails(r) ==
    /\ pc[r] = "resolving"
    /\ Answer(r, rejectedResponse("IMAGE_COMMAND_RESOLVE_FAILED"))
    /\ UNCHANGED <<payload, ctx, since, resolved, answer, registry, cloudVars,
                   queryVars, crashes>>

\* mutant of CreateReturns: calls for the same tool name share one answer
CreateReturns_SharedByName(r) ==
    /\ pc[r] = "creating"
    /\ \E s \in Requests :
          /\ payload[s].name = payload[r].name
          /\ answer[s] \in ToolIds
          /\ Answer(r, acceptedResponse(answer[s]))
    /\ UNCHANGED <<payload, ctx, since, resolved, answer, registry, cloudVars,
                   queryVars, crashes>>

\* mutant of CreateReturns: the error of the call is not looked at
CreateReturns_IgnoresError(r) ==
    /\ pc[r] = "creating"
    /\ answer[r] # None
    /\ Answer(r, acceptedResponse(answer[r]))
    /\ UNCHANGED <<payload, ctx, since, resolved, answer, registry, cloudVars,
                   queryVars, crashes>>

\* AGS's answer arrives: a tool id, or an error with a code of its own
CreateReturns(r) ==
    /\ pc[r] = "creating"
    /\ answer[r] # None
    /\ IF answer[r] \in ToolIds
       THEN Answer(r, acceptedResponse(answer[r]))
       ELSE Answer(r, rejectedResponse(answer[r]))
    /\ UNCHANGED <<payload, ctx, since, resolved, answer, registry, cloudVars,
                   queryVars, crashes>>

\* the tool was created but the answer has no usable tool id in it
CreateReturnsNoId(r) ==
    /\ pc[r] = "creating"
    /\ answer[r] \in ToolIds
    /\ Answer(r, rejectedResponse("INVALID_CLOUD_RESPONSE"))
    /\ UNCHANGED <<payload, ctx, since, resolved, answer, registry, cloudVars,
                   queryVars, crashes>>

\* what createErrorResponse makes of a call that ended without an answer
FailureCodes(r) ==
    {"TENCENTCLOUD_TIMEOUT", "NETWORK_ERROR", "CREATE_SANDBOX_TOOL_ERROR"}
    \cup (IF ctx[r] = "canceled" THEN {"REQUEST_CANCELED"} ELSE {})

\* mutant of CreateFails: the call is made again when its answer is lost
CreateFails_Retries(r) ==
    /\ pc[r] = "creating"
    /\ \/ \E code \in FailureCodes(r) :
             Answer(r, rejectedResponse(code)) /\ UNCHANGED <<inbox, answer>>
       \/ /\ answer' = [answer EXCEPT ![r] = None]
          /\ inbox' = inbox \cup {CreateCall(r)}
          /\ UNCHANGED <<pc, reply>>
    /\ UNCHANGED <<payload, ctx, since, resolved, registry, tools, status,
                   queryVars, crashes>>

\* mutant of CreateFails: the call has no timeout of its own
CreateFails_NoTimeout(r) ==
    /\ pc[r] = "creating"
    /\ ctx[r] # "live"
    /\ \E code \in FailureCodes(r) : Answer(r, rejectedResponse(code))
    /\ UNCHANGED <<payload, ctx, since, resolved, answer, registry, cloudVars,
                   queryVars, crashes>>

(* The call is over for the server: its own timeout, the request context,  *)
(* or the network.  It is not made again, and what is in the inbox stays   *)
(* there: AGS may still act on it.                                         *)
CreateFails(r) ==
    /\ pc[r] = "creating"
    /\ \E code \in FailureCodes(r) : Answer(r, rejectedResponse(code))
    /\ UNCHANGED <<payload, ctx, since, resolved, answer, registry, cloudVars,
                   queryVars, crashes>>

\* the caller disconnects, or the HTTP server's own request timeout expires
EndContext(r) ==
    /\ pc[r] \in {"resolving", "creating"}
    /\ ctx[r] = "live"
    /\ \E cause \in {"canceled", "deadline"} : ctx' = [ctx EXCEPT ![r] = cause]
    /\ UNCHANGED <<payload, pc, since, resolved, answer, reply, registry, cloudVars,
                   queryVars, crashes>>

--------------------------------------------------------------------------------
(* The registry and the cloud, as the code uses them.                      *)

Push(i) ==
    /\ registry[i] < MaxPushes
    /\ registry' = [registry EXCEPT ![i] = @ + 1]
    /\ UNCHANGED <<requestVars, cloudVars, queryVars, crashes>>

Existing == {t \in ToolIds : tools[t] # None}

\* the tool an earlier call with the same client token created
TokenTwins(call) ==
    {t \in Existing : call.token # None /\ tools[t].token = call.token}

NameTaken(call) == \E t \in Existing : tools[t].name = call.name

(* AGS takes a create call: a known token returns its tool, a taken name   *)
(* is refused, anything else becomes a new tool in state CREATING.         *)
CloudCreate(call) ==
    /\ call \in inbox
    /\ inbox' = inbox \ {call}
    /\ \/ \E t \in TokenTwins(call) :
             /\ answer' = [answer EXCEPT ![call.req] = t]
             /\ UNCHANGED <<tools, status>>
       \/ /\ TokenTwins(call) = {}
          /\ NameTaken(call)
          /\ answer' = [answer EXCEPT ![call.req] = "NAME_CONFLICT"]
          /\ UNCHANGED <<tools, status>>
       \/ /\ TokenTwins(call) = {}
          /\ ~NameTaken(call)
          /\ \E t \in ToolIds \ Existing :
                /\ tools' = [tools EXCEPT ![t] = call]
                /\ status' = [status EXCEPT ![t] = "CREATING"]
                /\ answer' = [answer EXCEPT ![call.req] = t]
    /\ UNCHANGED <<payload, pc, ctx, since, resolved, reply, registry, queryVars,
                   crashes>>

\* AGS refuses for a reason of its own: quota, permissions, a bad parameter
CloudRefuse(call) ==
    /\ call \in inbox
    /\ inbox' = inbox \ {call}
    /\ answer' = [answer EXCEPT ![call.req] = "REFUSED"]
    /\ UNCHANGED <<payload, pc, ctx, since, resolved, reply, registry, tools, status,
                   queryVars, crashes>>

\* the call never reaches AGS
LoseCall(call) ==
    /\ call \in inbox
    /\ inbox' = inbox \ {call}
    /\ UNCHANGED <<requestVars, registry, tools, status, queryVars, crashes>>

\* AGS finishes building the tool, or gives up on it
Provision(t) ==
    /\ status[t] = "CREATING"
    /\ \E s \in Provisioned : status' = [status EXCEPT ![t] = s]
    /\ UNCHANGED <<requestVars, registry, inbox, tools, queryVars, crashes>>

--------------------------------------------------------------------------------
(* The status handler.  It makes one AGS call and keeps nothing.           *)

Tell(q, t, s) == told' = [told EXCEPT ![q] = [tool |-> t, status |-> s]]

Idle(q) == asked[q] = None /\ told[q] = None

\* the AGS call is made for a non-blank id
Ask(q, t) ==
    /\ Idle(q)
    /\ asked' = [asked EXCEPT ![q] = t]
    /\ UNCHANGED <<requestVars, registry, cloudVars, listing, told, crashes>>

\* refused before the call: bad key, no id, or a blank one
AskRefused(q, code) ==
    /\ Idle(q)
    /\ Tell(q, None, code)
    /\ UNCHANGED <<requestVars, registry, cloudVars, asked, listing, crashes>>

(* AGS lists tools: each entry shows the tool's state at this moment, or a *)
(* blank status, or is missing; entries of other tools may be present.     *)
CloudDescribe(q) ==
    /\ asked[q] # None
    /\ listing[q] = None
    /\ \E l \in [ToolIds -> Entries] :
          /\ \A t \in ToolIds : l[t] \in {status[t], "BLANK", "ABSENT"}
          /\ \A t \in ToolIds : status[t] = "ABSENT" => l[t] = "ABSENT"
          /\ listing' = [listing EXCEPT ![q] = l]
    /\ UNCHANGED <<requestVars, registry, cloudVars, asked, told, crashes>>

\* mutant of findSandboxTool: the first tool of the list
findSandboxTool_First(q) ==
    LET found == {t \in ToolIds : listing[q][t] # "ABSENT"} IN
    IF found = {} THEN "ABSENT" ELSE listing[q][CHOOSE t \in found : TRUE]

\* the entry of the tool asked about
findSandboxTool(q) == listing[q][asked[q]]

EndQuery(q) ==
    /\ asked' = [asked EXCEPT ![q] = None]
    /\ listing' = [listing EXCEPT ![q] = None]

\* mutant of DescribeReturns: the handler polls while the tool is CREATING
DescribeReturns_Polls(q) ==
    /\ listing[q] # None
    /\ LET entry == findSandboxTool(q) IN
       IF entry = "CREATING"
       THEN listing' = [listing EXCEPT ![q] = None] /\ UNCHANGED <<asked, told>>
       ELSE /\ entry \in Provisioned
            /\ Tell(q, asked[q], entry)
            /\ EndQuery(q)
    /\ UNCHANGED <<requestVars, registry, cloudVars, crashes>>

DescribeReturns(q) ==
    /\ listing[q] # None
    /\ LET entry == findSandboxTool(q) IN
       Tell(q, asked[q], CASE entry = "ABSENT" -> "TOOL_NOT_FOUND"
                           [] entry = "BLANK"  -> "INVALID_CLOUD_RESPONSE"
                           [] OTHER            -> entry)
    /\ EndQuery(q)
    /\ UNCHANGED <<requestVars, registry, cloudVars, crashes>>

\* timeout, any other error, or an empty answer
DescribeFails(q) ==
    /\ asked[q] # None
    /\ \E code \in {"TENCENTCLOUD_TIMEOUT", "STATUS_QUERY_FAILED",
                    "INVALID_CLOUD_RESPONSE"} : Tell(q, asked[q], code)
    /\ EndQuery(q)
    /\ UNCHANGED <<requestVars, registry, cloudVars, crashes>>

\* the caller has read the reply
Collect(q) ==
    /\ told[q] # None
    /\ told' = [told EXCEPT ![q] = None]
    /\ UNCHANGED <<requestVars, registry, cloudVars, asked, listing, crashes>>

--------------------------------------------------------------------------------
(* The process dies and is restarted: every handler that was running is    *)
(* gone with its connection, calls already sent to AGS are not.            *)
Crash ==
    /\ crashes < MaxCrashes
    /\ crashes' = crashes + 1
    /\ pc' = [r \in Requests |->
                IF pc[r] \in {"resolving", "creating"} THEN "lost" ELSE pc[r]]
    /\ told' = [q \in Queries |->
                  IF asked[q] # None
                  THEN [tool |-> asked[q], status |-> "CONNECTION_LOST"]
                  ELSE told[q]]
    /\ asked' = [q \in Queries |-> None]
    /\ listing' = [q \in Queries |-> None]
    /\ UNCHANGED <<payload, ctx, since, resolved, answer, reply, registry, cloudVars>>

--------------------------------------------------------------------------------
Handler(r) ==
    \/ ResolveDone(r) \/ ResolveFails(r)
    \/ CreateReturns(r) \/ CreateReturnsNoId(r) \/ CreateFails(r)

QueryHandler(q) == DescribeReturns(q) \/ DescribeFails(q)

Cloud ==
    \/ \E call \in inbox : CloudCreate(call) \/ CloudRefuse(call) \/ LoseCall(call)
    \/ \E t \in ToolIds : Provision(t)
    \/ \E q \in Queries : CloudDescribe(q)

\* everything but the callers' own steps, which ToolScript replaces
Service ==
    \/ \E r \in Requests : Handler(r) \/ ServeManifest(r) \/ EndContext(r)
    \/ \E q \in Queries : QueryHandler(q)
    \/ \E i \in Images : Push(i)
    \/ Cloud
    \/ Crash

\* somebody who asks for the status of any tool at any time
StatusCaller(q) ==
    \/ \E t \in ToolIds : Ask(q, t)
    \/ \E code \in QueryRefusals : AskRefused(q, code)
    \/ Collect(q)

Callers ==
    \/ \E r \in Requests : Receive(r)
    \/ \E q \in Queries : StatusCaller(q)

Next == Service \/ Callers

(* A handler goroutine that can move does: every outside call it makes has *)
(* a timeout, so its failing step is always enabled.  Nothing is assumed   *)
(* of the registry, of AGS or of the callers.                              *)
Fairness ==
    /\ \A r \in Requests : WF_vars(Handler(r))
    /\ \A q \in Queries : WF_vars(QueryHandler(q))

Spec == Init /\ [][Next]_vars /\ Fairness

--------------------------------------------------------------------------------
(* Properties.                                                             *)

\* every variable keeps its type
TypeOK ==
    /\ payload \in [Requests -> Payloads]
    /\ pc \in [Requests -> {"unsent", "resolving", "creating", "answered", "lost"}]
    /\ ctx \in [Requests -> {"live", "canceled", "deadline"}]
    /\ since \in [Requests -> Versions \cup {None}]
    /\ resolved \in [Requests -> Versions \cup {None}]
    /\ answer \in [Requests -> ToolIds \cup CloudCodes \cup {None}]
    /\ reply \in [Requests -> ReplyType \cup {None}]
    /\ registry \in [Images -> Versions]
    /\ inbox \subseteq CallType
    /\ tools \in [ToolIds -> CallType \cup {None}]
    /\ status \in [ToolIds -> ToolStatus]
    /\ asked \in [Queries -> ToolIds \cup {None}]
    /\ listing \in [Queries -> [ToolIds -> Entries] \cup {None}]
    /\ \A q \in Queries : listing[q] # None => asked[q] # None
    /\ told \in [Queries -> ToldType \cup {None}]
    /\ crashes \in 0 .. MaxCrashes

Replied(r) == reply[r] # None
SameToken(r1, r2) ==
    payload[r1].token # None /\ payload[r1].token = payload[r2].token

(* accepted=true always names a tool that exists, made from this very      *)
(* request or from one that carries the same client token.                 *)
AcceptedToolExists ==
    \A r \in Requests : Replied(r) /\ reply[r].accepted =>
        /\ reply[r].tool \in Existing
        /\ LET maker == tools[reply[r].tool].req IN maker = r \/ SameToken(maker, r)

(* A rejection the server or AGS decided is final: no tool comes of that   *)
(* request afterwards, whatever was in flight.  (The ambiguous codes       *)
(* promise nothing of the kind.)                                           *)
RejectionIsFinal ==
    \A r \in Requests :
        Replied(r) /\ reply[r].code \in LocalCodes \cup CloudCodes =>
            /\ \A t \in Existing : tools[t].req # r
            /\ \A call \in inbox : call.req # r

(* Calls that carry the same client token never end up with two tools, and *)
(* the callers that are accepted are all given the same one.               *)
TokenRetryIsSafe ==
    \A r1, r2 \in Requests : SameToken(r1, r2) =>
        /\ Replied(r1) /\ Replied(r2) /\ reply[r1].accepted /\ reply[r2].accepted
              => reply[r1].tool = reply[r2].tool
        /\ \A t1, t2 \in Existing :
              tools[t1].req = r1 /\ tools[t2].req = r2 => t1 = t2

(* NAME_CONFLICT always means somebody else's tool: a request never        *)
(* collides with a tool it made itself, nor with one of its own token.     *)
ConflictIsForeign ==
    \A r \in Requests : Replied(r) /\ reply[r].code = "NAME_CONFLICT" =>
        \E t \in Existing : /\ tools[t].name = payload[r].name
                            /\ tools[t].req # r
                            /\ ~SameToken(tools[t].req, r)

(* The command of a tool is the one its request gave, or else one the      *)
(* registry served after that request arrived: nothing is cached across    *)
(* requests.                                                               *)
CommandIsFresh ==
    \A t \in Existing :
        LET c == tools[t].command  r == tools[t].req IN
        IF payload[r].explicit THEN c = OwnCommand
                               ELSE c \in Versions /\ since[r] <= c

(* The status endpoint reports ACTIVE or FAILED of a tool only when that   *)
(* tool is in that state.                                                  *)
StatusIsTruthful ==
    \A q \in Queries :
        told[q] # None /\ told[q].status \in Provisioned =>
            status[told[q].tool] = told[q].status

(* Every status call is answered.                                          *)
EveryQueryAnswered == \A q \in Queries : asked[q] # None ~> told[q] # None

\* what the server's side of a request has left behind in the cloud
CallsOf(r) == {call \in inbox : call.req = r}
ToolsOf(r) == {t \in Existing : tools[t].req = r}

(* A request is in at most one place: waiting in the inbox with no answer  *)
(* yet, or turned into one tool which is its answer, or neither; and what  *)
(* its caller was told agrees with the answer.  This is what makes the     *)
(* properties above inductive.                                             *)
CallInOrder(call) ==
    /\ call = CreateCall(call.req)
    /\ pc[call.req] \in {"creating", "answered", "lost"}
    /\ resolved[call.req] # None
    /\ answer[call.req] = None

ToolInOrder(t) ==
    /\ tools[t] = CreateCall(tools[t].req)
    /\ pc[tools[t].req] \in {"creating", "answered", "lost"}
    /\ resolved[tools[t].req] # None
    /\ answer[tools[t].req] = t

AnswerInOrder(r) ==
    /\ pc[r] \in {"unsent", "resolving"} => answer[r] = None
    /\ answer[r] \in ToolIds =>
          /\ answer[r] \in Existing
          /\ LET maker == tools[answer[r]].req IN maker = r \/ SameToken(maker, r)

ReplyInOrder(r) ==
    /\ Replied(r) <=> pc[r] = "answered"
    /\ Replied(r) /\ reply[r].accepted =>
          answer[r] \in ToolIds /\ reply[r].tool = answer[r]
    /\ Replied(r) /\ reply[r].code \in CloudCodes => answer[r] = reply[r].code
    /\ Replied(r) /\ reply[r].code \in LocalCodes =>
          CallsOf(r) = {} /\ ToolsOf(r) = {}

(* A request whose caller goes, or whose time is up, while the registry is *)
(* still being asked leaves nothing behind, then or later: the registry's  *)
(* late answer makes no call, AGS gets no tool of it, and nobody is told   *)
(* of one.                                                                 *)
GoneLeaveNothing ==
    \A r \in Requests :
        [](pc[r] = "resolving" /\ ctx[r] # "live" =>
             [](/\ CallsOf(r) = {} /\ ToolsOf(r) = {}
                /\ Replied(r) => /\ ~reply[r].accepted
                                 /\ reply[r].code \notin CloudCodes))

Ledger ==
    /\ \A call \in inbox : CallInOrder(call)
    /\ \A t \in Existing : ToolInOrder(t)
    /\ \A r \in Requests : AnswerInOrder(r) /\ ReplyInOrder(r)

--------------------------------------------------------------------------------
(* The create endpoint keeps the promise of module ToolPromise.            *)

\* how a response is to be read by the caller that got it
Outcome(r) ==
    CASE reply[r].accepted -> "accepted"
      [] reply[r].code \in LocalCodes \cup CloudCodes -> "refused"
      [] OTHER -> "unknown"

PhaseOf(r) ==
    CASE pc[r] = "unsent" -> "idle"
      [] pc[r] \in {"resolving", "creating"} -> "open"
      [] pc[r] = "lost" -> "unknown"
      [] OTHER -> Outcome(r)

Promise == INSTANCE ToolPromise WITH
    token <- [r \in Requests |-> payload[r].token],
    phase <- [r \in Requests |-> PhaseOf(r)],
    made  <- {tools[t].req : t \in Existing}

(* Every behaviour of the server, the registry and AGS is one the promise  *)
(* allows.                                                                 *)
KeepsPromise == Promise!SafeSpec

(* ... and it ends every request, as the promise does.                     *)
KeepsPromiseLive == Promise!Spec

================================================================================
