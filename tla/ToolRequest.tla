----------------------------- MODULE ToolRequest -----------------------------
(***************************************************************************)
(* What the create endpoint makes of one request body: the default start   *)
(* command is resolved, then buildCreateSandboxToolRequest defaults, trims *)
(* and checks the body field by field, and either refuses it or sends the  *)
(* result to AGS.                                                          *)
(*                                                                         *)
(* The request under construction has the fields of the body.  Each stage  *)
(* is one function of the builder and replaces the fields it reads by what *)
(* it sends; a list is walked element by element.  Where the code leaves a *)
(* pointer nil the list or text is empty here.                             *)
(***************************************************************************)
EXTENDS RegistryCommand, Integers

CONSTANTS
    Inputs,        \* bodies with the config of their image: what is tried
    ToolNames,     \* texts that match toolNamePattern
    Over200,       \* texts of more than 200 characters
    Over64,        \* texts of more than 64 characters
    Timeouts,      \* texts that are Go durations in (0, 24h]
    Absolute,      \* texts that begin with a slash
    Addresses,     \* texts that are IP addresses
    UpperCase,     \* UpperCase[t]: t in capitals
    LowerCase      \* LowerCase[t]: t in small letters

\* internal/config/defaults.go, the long ones shortened
Default ==
    [description |-> "custom sandbox tool", defaultTimeout |-> "5m",
     roleArn |-> "roleName/aime-ags", mode |-> "VPC",
     subnetId |-> "subnet-21t3qpcr", securityGroupId |-> "sg-nkwdhmgy",
     mountName |-> "aime-agent-harness", endpoint |-> "cos-endpoint",
     bucketName |-> "aime-agent-cos", bucketPath |-> "/", mountPath |-> "/mnt/cos",
     registryType |-> "enterprise", cpu |-> "0.5", memory |-> "1Gi",
     probePath |-> "/health", probeScheme |-> "HTTP"]

DefaultPort == [name |-> Plain("envd"), protocol |-> Plain("TCP"), port |-> 49983]
DefaultProbePort == 49999

(* readyTimeoutMs, probeTimeoutMs, probePeriodMs, successThreshold and     *)
(* failureThreshold, in this order.                                        *)
DefaultProbeNumbers == <<30000, 1000, 300, 1, 100>>

Bool == {"omitted", "true", "false"}
PortType == [name : Raw, protocol : Raw, port : Int]
PairType == [name : Raw, value : Raw]
MountType == [name : Raw, endpoint : Raw, bucketName : Raw, bucketPath : Raw,
              mountPath : Raw, readOnly : Bool]

RequestType ==
    [toolName : Raw, description : Raw, clientToken : Raw, defaultTimeout : Raw,
     roleArn : Raw, persistent : Bool,
     mode : Raw, subnetIds : Seq(Raw), securityGroupIds : Seq(Raw),
     image : Raw, registryType : Raw, env : Seq(PairType), ports : Seq(PortType),
     command : Seq(Raw), args : Seq(Raw),
     probePath : Raw, probePort : Int, probeScheme : Raw, probeNumbers : [1 .. 5 -> Int],
     servers : Seq(Raw), searches : Seq(Raw), options : Seq(Raw),
     cpu : Raw, memory : Raw, tags : Seq(PairType), mounts : Seq(MountType)]

ASSUME ToolRequestAssumption ==
    /\ Inputs \subseteq [body : RequestType, config : ImageConfig]
    /\ {Default[f] : f \in DOMAIN Default} \cup {"envd", "TCP", "PUBLIC", "SANDBOX",
            "HTTPS", "personal", "/"} \subseteq Text
    /\ {UpperCase, LowerCase} \subseteq [Text \cup {""} -> Text \cup {""}]
    /\ UpperCase[""] = "" /\ LowerCase[""] = ""

(* What internal/config/defaults.go, toolNamePattern, which asks for one   *)
(* character at least, strings.ToUpper and strings.ToLower say of the      *)
(* texts the builder itself knows.                                         *)
ASSUME DefaultsAssumption ==
    /\ {Default.description, ""} \cap Over200 = {}
    /\ Default.defaultTimeout \in Timeouts
    /\ {Default.probePath, Default.bucketPath, Default.mountPath} \subseteq Absolute
    /\ "" \notin Absolute \cup ToolNames
    /\ \A t \in {"VPC", "PUBLIC", "SANDBOX", "TCP", "HTTP", "HTTPS"} : UpperCase[t] = t
    /\ \A t \in {"enterprise", "personal"} : LowerCase[t] = t

VARIABLES
    body,     \* the request body
    config,   \* the config of the image it names
    stage,    \* the function of the builder that runs
    index,    \* the list element it looks at
    seen,     \* the names, paths, keys and numbers it has met in this list
    req,      \* the request under construction
    verdict,  \* "open", "sent" or "refused"
    round     \* how often a body was submitted (observation only)

vars == <<body, config, stage, index, seen, req, verdict, round>>

Init ==
    /\ \E input \in Inputs : body = input.body /\ config = input.config
    /\ stage = "image"
    /\ index = 1
    /\ seen = {}
    /\ req = body
    /\ verdict = "open"
    /\ round = 1

--------------------------------------------------------------------------------
(* What the functions of the builder share.                                *)

\* the order in which CreateSandboxTool and the builder get to them
After == [image |-> "resolve", resolve |-> "head", head |-> "network",
          network |-> "container", container |-> "env", env |-> "ports",
          ports |-> "command", command |-> "probe", probe |-> "dns", dns |-> "tags",
          tags |-> "mounts", mounts |-> "sent"]

\* trimmed, and the default if nothing is left
OrDefault(x, d) == IF IsBlank(x) THEN Plain(d) ELSE TrimSpace(x)

\* storage fields: only "" takes the default, blanks stay an error
storageValueOrDefault(x, d) == IF x = Omitted THEN Plain(d) ELSE TrimSpace(x)

boolValueOrDefault(b) == IF b = "omitted" THEN "false" ELSE b

ListOrDefault(s, d) == IF s = <<>> THEN <<Plain(d)>> ELSE s

Upper(x) == Plain(UpperCase[x.text])
Lower(x) == Plain(LowerCase[x.text])

\* mutant of validatePort: zero passes
validatePort_Zero(port) == port \in 0 .. 65535

validatePort(port) == port \in 1 .. 65535

Refuse ==
    /\ verdict' = "refused"
    /\ UNCHANGED <<body, config, stage, index, seen, req, round>>

\* mutant of Proceed: one map for all lists
Proceed_KeepsSeen(new) ==
    /\ stage' = After[stage]
    /\ verdict' = IF stage = "mounts" THEN "sent" ELSE "open"
    /\ index' = 1
    /\ req' = new
    /\ UNCHANGED <<body, config, seen, round>>

\* mutant of Proceed: the loop variable is not reset
Proceed_KeepsIndex(new) ==
    /\ stage' = After[stage]
    /\ verdict' = IF stage = "mounts" THEN "sent" ELSE "open"
    /\ seen' = {}
    /\ req' = new
    /\ UNCHANGED <<body, config, index, round>>

Proceed(new) ==
    /\ stage' = After[stage]
    /\ verdict' = IF stage = "mounts" THEN "sent" ELSE "open"
    /\ index' = 1
    /\ seen' = {}
    /\ req' = new
    /\ UNCHANGED <<body, config, round>>

At(s) == stage = s /\ verdict = "open"

Check(ok, new) == (ok /\ Proceed(new)) \/ (~ok /\ Refuse)

(* One turn of the loop over a list: the element is replaced by what is    *)
(* sent if it is in order and none of its keys was met before.             *)
Walk(list, element, ok, keys) ==
    /\ At(list)
    /\ \/ index > Len(req[list]) /\ Proceed(req)
       \/ /\ index <= Len(req[list])
          /\ ok /\ seen \cap keys = {}
          /\ req' = [req EXCEPT ![list][index] = element]
          /\ seen' = seen \cup keys
          /\ index' = index + 1
          /\ UNCHANGED <<body, config, stage, verdict, round>>
       \/ /\ index <= Len(req[list])
          /\ ~(ok /\ seen \cap keys = {})
          /\ Refuse

--------------------------------------------------------------------------------
(* CreateSandboxTool, up to the builder.                                   *)

RequireImage == At("image") /\ Check(~IsBlank(req.image), req)

\* the registry is asked whatever the body says; any error refuses the body
ResolveFails == At("resolve") /\ Refuse

Resolve ==
    /\ At("resolve")
    /\ LET command == ResolveCommand(config) IN
       Check(command # <<>>,
             IF req.command = <<>> THEN [req EXCEPT !.command = command] ELSE req)

--------------------------------------------------------------------------------
(* buildCreateSandboxToolRequest.                                          *)

buildHead ==
    /\ At("head")
    /\ LET new == [req EXCEPT !.toolName = TrimSpace(@),
                              !.description = OrDefault(@, Default.description),
                              !.clientToken = TrimSpace(@),
                              !.defaultTimeout = OrDefault(@, Default.defaultTimeout),
                              !.roleArn = OrDefault(@, Default.roleArn),
                              !.persistent = boolValueOrDefault(@)] IN
       Check(/\ new.toolName.text \in ToolNames
             /\ new.description.text \notin Over200
             /\ new.clientToken.text \notin Over64
             /\ new.defaultTimeout.text \in Timeouts, new)

buildNetworkConfiguration ==
    /\ At("network")
    /\ LET mode    == OrDefault(Upper(TrimSpace(req.mode)), Default.mode)
           subnets == ListOrDefault(req.subnetIds, Default.subnetId)
           groups  == ListOrDefault(req.securityGroupIds, Default.securityGroupId) IN
       \/ /\ mode.text = "VPC"
          /\ Check(NoneBlank(subnets) /\ NoneBlank(groups),
                   [req EXCEPT !.mode = mode, !.subnetIds = TrimAll(subnets),
                               !.securityGroupIds = TrimAll(groups)])
       \/ /\ mode.text # "VPC"
          /\ Check(/\ mode.text \in {"PUBLIC", "SANDBOX"}
                   /\ req.subnetIds = <<>> /\ req.securityGroupIds = <<>>,
                   [req EXCEPT !.mode = mode])

(* buildCustomConfiguration: the image and its registry; the resources,    *)
(* which cannot be wrong, are filled in here too.                          *)
buildContainer ==
    /\ At("container")
    /\ LET new == [req EXCEPT !.image = TrimSpace(@),
                              !.registryType = OrDefault(Lower(TrimSpace(@)), Default.registryType),
                              !.cpu = OrDefault(@, Default.cpu),
                              !.memory = OrDefault(@, Default.memory)] IN
       Check(~IsBlank(new.image) /\ new.registryType.text \in {"enterprise", "personal"}, new)

\* mutant of buildPairs: a name is looked up as given, and sent trimmed
buildPairs_LooksUpRaw(list) ==
    LET given == req[list][index].name IN
    Walk(list, [req[list][index] EXCEPT !.name = TrimSpace(given)], ~IsBlank(given),
         {<<"name", given>>})

\* buildEnvironment and buildTags: the value is sent as it is
buildPairs(list) ==
    LET name == TrimSpace(req[list][index].name) IN
    Walk(list, [req[list][index] EXCEPT !.name = name], ~IsBlank(name), {<<"name", name>>})

\* mutant of buildPorts: only the names have to differ
buildPorts_NamesOnly ==
    LET new == [req.ports[index] EXCEPT !.name = TrimSpace(@), !.protocol = Upper(TrimSpace(@))] IN
    /\ req.ports # <<>>
    /\ Walk("ports", new, ~IsBlank(new.name) /\ validatePort(new.port), {<<"name", new.name>>})

buildPorts ==
    LET p == req.ports[index]
        new == [p EXCEPT !.name = TrimSpace(@), !.protocol = Upper(TrimSpace(@))] IN
    \/ /\ req.ports # <<>>
       /\ Walk("ports", new,
               ~IsBlank(new.name) /\ new.protocol.text = "TCP" /\ validatePort(p.port),
               {<<"name", new.name>>, <<"port", p.port>>})
    \/ /\ At("ports") /\ req.ports = <<>>
       /\ req' = [req EXCEPT !.ports = <<DefaultPort>>]
       /\ UNCHANGED <<body, config, stage, index, seen, verdict, round>>

\* nonEmptyStringPointers: no element may be blank; all are sent trimmed
buildCommand ==
    /\ At("command")
    /\ Check(req.command # <<>> /\ NoneBlank(req.command),
             [req EXCEPT !.command = TrimAll(@)])

\* zero takes the default, and less than zero is refused by buildProbe
positiveOrDefault(n, d) == IF n = 0 THEN d ELSE n

buildProbe ==
    /\ At("probe")
    /\ LET new == [req EXCEPT !.probePath = OrDefault(@, Default.probePath),
                              !.probePort = IF @ = 0 THEN DefaultProbePort ELSE @,
                              !.probeScheme = OrDefault(Upper(TrimSpace(@)), Default.probeScheme),
                              !.probeNumbers = [i \in 1 .. 5 |->
                                  positiveOrDefault(@[i], DefaultProbeNumbers[i])]] IN
       Check(/\ new.probePath.text \in Absolute
             /\ validatePort(new.probePort)
             /\ new.probeScheme.text \in {"HTTP", "HTTPS"}
             /\ \A i \in 1 .. 5 : new.probeNumbers[i] > 0, new)

buildDNS ==
    /\ At("dns")
    /\ Check(/\ NoneBlank(req.servers) /\ NoneBlank(req.searches) /\ NoneBlank(req.options)
             /\ \A i \in DOMAIN req.servers : req.servers[i].text \in Addresses,
             [req EXCEPT !.servers = TrimAll(@), !.searches = TrimAll(@),
                         !.options = TrimAll(@)])

buildStorageMounts ==
    LET m == req.mounts[index]
        new == [name       |-> storageValueOrDefault(m.name, Default.mountName),
                endpoint   |-> storageValueOrDefault(m.endpoint, Default.endpoint),
                bucketName |-> storageValueOrDefault(m.bucketName, Default.bucketName),
                bucketPath |-> storageValueOrDefault(m.bucketPath, Default.bucketPath),
                mountPath  |-> storageValueOrDefault(m.mountPath, Default.mountPath),
                readOnly   |-> boolValueOrDefault(m.readOnly)] IN
    Walk("mounts", new,
         /\ ~IsBlank(new.name) /\ ~IsBlank(new.endpoint) /\ ~IsBlank(new.bucketName)
         /\ new.bucketPath.text \in Absolute /\ new.mountPath.text \in Absolute,
         {<<"name", new.name>>, <<"path", new.mountPath>>})

Build ==
    \/ RequireImage \/ Resolve \/ ResolveFails
    \/ buildHead \/ buildNetworkConfiguration \/ buildContainer
    \/ buildPairs("env") \/ buildPorts \/ buildCommand \/ buildProbe \/ buildDNS
    \/ buildPairs("tags") \/ buildStorageMounts

(* A caller submits once more what was sent to AGS, spelled out in full.   *)
SubmitSent ==
    /\ verdict = "sent" /\ round = 1
    /\ round' = 2
    /\ body' = req
    /\ stage' = "image"
    /\ verdict' = "open"
    /\ UNCHANGED <<config, index, seen, req>>

Next == Build \/ SubmitSent
Spec == Init /\ [][Next]_vars

--------------------------------------------------------------------------------
(* Properties.                                                             *)

\* every variable keeps its type, and the loop variable its range
TypeOK ==
    /\ body \in RequestType /\ req \in RequestType /\ config \in ImageConfig
    /\ stage \in DOMAIN After \cup {"sent"}
    /\ index \in Nat \ {0}
    /\ stage \in {"env", "ports", "tags", "mounts"} => index <= Len(req[stage]) + 1
    /\ verdict \in {"open", "sent", "refused"}
    /\ verdict = "sent" <=> stage = "sent"
    /\ round \in {1, 2}

Distinct(list, f(_)) == \A i, j \in DOMAIN list : f(list[i]) = f(list[j]) => i = j

Name(e) == e.name
PortNumber(p) == p.port
MountPath(m) == m.mountPath

(* No two entries of a list that is sent share a name, a key, a port or a  *)
(* mount path: the loops compare what they send, not what they were given. *)
SentIsUnique ==
    verdict = "sent" =>
        /\ Distinct(req.env, Name) /\ Distinct(req.tags, Name)
        /\ Distinct(req.ports, Name) /\ Distinct(req.ports, PortNumber)
        /\ Distinct(req.mounts, Name) /\ Distinct(req.mounts, MountPath)

\* the name and the path of a mount, defaults included
MountName(m) == IF m.name = Omitted THEN Default.mountName ELSE m.name.text
MountedAt(m) == IF m.mountPath = Omitted THEN Default.mountPath ELSE m.mountPath.text

TrimmedName(e) == e.name.text

(* The rules of README.md and cube_sandbox_image_server.api for a body, in *)
(* no order and with no loop.  Blank counts as left out, not in a mount.   *)
InOrder(b) ==
    /\ b.toolName.text \in ToolNames
    /\ b.description.text \notin Over200 /\ b.clientToken.text \notin Over64
    /\ b.defaultTimeout.text \in Timeouts \cup {""}
    /\ \/ UpperCase[b.mode.text] \in {"", "VPC"}
          /\ NoneBlank(b.subnetIds) /\ NoneBlank(b.securityGroupIds)
       \/ UpperCase[b.mode.text] \in {"PUBLIC", "SANDBOX"}
          /\ b.subnetIds = <<>> /\ b.securityGroupIds = <<>>
    /\ ~IsBlank(b.image) /\ LowerCase[b.registryType.text] \in {"", "enterprise", "personal"}
    /\ \A list \in {b.env, b.tags, b.ports} :
          Distinct(list, TrimmedName) /\ \A i \in DOMAIN list : ~IsBlank(list[i].name)
    /\ Distinct(b.ports, PortNumber)
    /\ \A i \in DOMAIN b.ports : /\ UpperCase[b.ports[i].protocol.text] = "TCP"
                                 /\ b.ports[i].port \in 1 .. 65535
    /\ \A list \in {b.command, b.servers, b.searches, b.options} : NoneBlank(list)
    /\ \A i \in DOMAIN b.servers : b.servers[i].text \in Addresses
    /\ b.probePath.text \in Absolute \cup {""} /\ b.probePort \in 0 .. 65535
    /\ UpperCase[b.probeScheme.text] \in {"", "HTTP", "HTTPS"}
    /\ \A i \in 1 .. 5 : b.probeNumbers[i] >= 0
    /\ Distinct(b.mounts, MountName) /\ Distinct(b.mounts, MountedAt)
    /\ \A i \in DOMAIN b.mounts : LET m == b.mounts[i] IN
          /\ Padded("") \notin {m.name, m.endpoint, m.bucketName, m.bucketPath, m.mountPath}
          /\ {m.bucketPath.text, m.mountPath.text} \subseteq Absolute \cup {""}

(* The builder's answer is the rules': it sends every body that is in      *)
(* order and no other, wherever in the lists a defect sits.                *)
RefusedForCause ==
    /\ verdict = "sent" => InOrder(body)
    /\ verdict = "refused" /\ stage # "resolve" => ~InOrder(body)

(* What is sent obeys the rules itself and leaves nothing to be defaulted: *)
(* the defaults pass the checks they come before or after.                 *)
SentIsComplete ==
    verdict = "sent" =>
        /\ InOrder(req)
        /\ Omitted \notin {req.toolName, req.defaultTimeout, req.roleArn, req.mode, req.image,
                            req.registryType, req.probePath, req.probeScheme, req.cpu, req.memory}
        /\ req.command # <<>> /\ req.ports # <<>> /\ req.probePort # 0
        /\ (req.mode.text = "VPC") = (req.subnetIds # <<>> /\ req.securityGroupIds # <<>>)

(* Sending a second time what was sent the first time changes nothing: no  *)
(* field is checked in one form and sent in another.                       *)
SentIsStable ==
    round = 2 => /\ verdict = "sent" => req = body
                 /\ verdict = "refused" => stage = "resolve"

(* The builder never refuses a start command that came from the image:     *)
(* the resolver lets through only what passes the builder's check.         *)
ImageCommandIsNotRefused ==
    verdict = "refused" /\ stage = "command" => body.command # <<>>

(* README.md: without a command in the body the image's Entrypoint is used *)
(* (one that names a program, to be fair), and Cmd if that is empty.       *)
EntrypointIsUsed ==
    verdict = "sent" /\ body.command = <<>> /\ config.entrypoint # <<>> =>
        IsBlank(config.entrypoint[1]) \/ req.command = TrimAll(config.entrypoint)

=============================================================================
