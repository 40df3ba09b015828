-------------------------- MODULE ToolRequestProofs --------------------------
(* Theorems about ToolRequest, for every body, every image config and      *)
(* every classification of the texts in them.                              *)
EXTENDS ToolRequest, TLAPS

(* The defaults are texts.                                                 *)
LEMMA DefaultsAreTexts == \A f \in DOMAIN Default : Default[f] \in Text
BY ToolRequestAssumption

(* What the builder's small helpers return is text again.                  *)
LEMMA TrimIsText == \A x \in Raw : TrimSpace(x) \in Raw
BY DEF Raw, TrimSpace, Plain

LEMMA CaseIsText == \A x \in Raw : Upper(x) \in Raw /\ Lower(x) \in Raw
BY ToolRequestAssumption DEF Raw, Upper, Lower, Plain

LEMMA PlainIsText == \A d \in Text : Plain(d) \in Raw
BY DEF Raw, Plain

LEMMA DefaultedIsText ==
    \A x \in Raw : \A d \in Text :
        /\ OrDefault(x, d) \in Raw
        /\ storageValueOrDefault(x, d) \in Raw
BY DEF Raw, TrimSpace, OrDefault, storageValueOrDefault, Plain

(* Trimming and defaulting a list of texts gives one.                      *)
LEMMA ListsAreTexts ==
    ASSUME NEW s \in Seq(Raw)
    PROVE  /\ TrimAll(s) \in Seq(Raw)
           /\ \A d \in Text : ListOrDefault(s, d) \in Seq(Raw)
<1>1. TrimAll(s) = [i \in 1 .. Len(s) |-> TrimSpace(s[i])]
  BY DEF TrimAll
<1>2. \A i \in 1 .. Len(s) : TrimSpace(s[i]) \in Raw
  BY TrimIsText
<1>3. TrimAll(s) \in Seq(Raw)
  BY <1>1, <1>2
<1> QED BY <1>3, PlainIsText DEF ListOrDefault

(* The resolver returns a command without blank elements.                  *)
LEMMA ResolvedIsUsable ==
    ASSUME NEW c \in ImageConfig
    PROVE  ResolveCommand(c) \in Seq(Raw) /\ NoneBlank(ResolveCommand(c))
BY DEF ImageConfig, ResolveCommand, validCommand, NoneBlank

--------------------------------------------------------------------------------
(* Types.                                                                  *)

LEMMA InitTypeOK == Init => TypeOK
<1> SUFFICES ASSUME Init PROVE TypeOK
  OBVIOUS
<1>1. PICK input \in Inputs : body = input.body /\ config = input.config
  BY DEF Init
<1>2. body \in RequestType /\ config \in ImageConfig
  BY <1>1, ToolRequestAssumption
<1> QED BY <1>2 DEF Init, TypeOK, After

LEMMA RefuseType == TypeOK /\ Refuse /\ stage # "sent" => TypeOK'
BY DEF TypeOK, Refuse

(* The lists that are walked are lists.                                    *)
LEMMA ListsAreTyped ==
    ASSUME NEW r \in RequestType, NEW list \in {"env", "ports", "tags", "mounts"}
    PROVE  list \in DOMAIN r /\ Len(r[list]) \in Nat /\ DOMAIN r[list] = 1 .. Len(r[list])
<1>1. /\ r.env \in Seq(PairType) /\ r.tags \in Seq(PairType)
      /\ r.ports \in Seq(PortType) /\ r.mounts \in Seq(MountType)
      /\ {"env", "ports", "tags", "mounts"} \subseteq DOMAIN r
  BY DEF RequestType
<1> QED BY <1>1

(* Whatever a stage hands on, the next one starts at its first element.    *)
LEMMA ProceedType ==
    ASSUME TypeOK, stage # "sent", NEW new \in RequestType, Proceed(new)
    PROVE  TypeOK'
<1>1. stage' \in DOMAIN After \cup {"sent"} /\ (verdict' = "sent" <=> stage' = "sent")
  BY DEF TypeOK, Proceed, After
<1>2. \A list \in {"env", "ports", "tags", "mounts"} : Len(new[list]) \in Nat
  BY ListsAreTyped
<1> QED BY <1>1, <1>2 DEF TypeOK, Proceed

(* An element of the right type keeps the request in its type.             *)
LEMMA WalkType ==
    ASSUME TypeOK, NEW list \in {"env", "ports", "tags", "mounts"},
           NEW element, NEW ok, NEW keys, Walk(list, element, ok, keys),
           index <= Len(req[list]) => [req EXCEPT ![list][index] = element] \in RequestType
    PROVE  TypeOK'
<1>1. CASE index > Len(req[list]) /\ Proceed(req)
  BY <1>1, ProceedType DEF TypeOK, Walk, At
<1>2. CASE Refuse
  BY <1>2, RefuseType DEF Walk, At
<1>3. CASE /\ index <= Len(req[list])
           /\ req' = [req EXCEPT ![list][index] = element]
           /\ index' = index + 1
           /\ UNCHANGED <<body, config, stage, verdict, round>>
  <2>1. list \in DOMAIN req /\ Len(req[list]) \in Nat
    BY ListsAreTyped DEF TypeOK
  <2>2. req'[list] = [req[list] EXCEPT ![index] = element]
    BY <1>3, <2>1
  <2>3. Len(req'[list]) = Len(req[list])
    BY <1>3, <2>2 DEF TypeOK, RequestType
  <2> QED BY <1>3, <2>1, <2>3 DEF TypeOK, Walk, At
<1> QED BY <1>1, <1>2, <1>3 DEF Walk

LEMMA buildHeadType == TypeOK /\ buildHead => TypeOK'
<1> SUFFICES ASSUME TypeOK, buildHead PROVE TypeOK'
  OBVIOUS
<1> DEFINE new == [req EXCEPT !.toolName = TrimSpace(@),
                              !.description = OrDefault(@, Default.description),
                              !.clientToken = TrimSpace(@),
                              !.defaultTimeout = OrDefault(@, Default.defaultTimeout),
                              !.roleArn = OrDefault(@, Default.roleArn),
                              !.persistent = boolValueOrDefault(@)]
<1>1. /\ Default.description \in Text /\ Default.defaultTimeout \in Text /\ Default.roleArn \in Text
  BY DefaultsAreTexts DEF Default
<1>2. req \in RequestType
  BY DEF TypeOK
<1>3. /\ TrimSpace(req.toolName) \in Raw /\ TrimSpace(req.clientToken) \in Raw
      /\ OrDefault(req.description, Default.description) \in Raw
      /\ OrDefault(req.defaultTimeout, Default.defaultTimeout) \in Raw
      /\ OrDefault(req.roleArn, Default.roleArn) \in Raw
      /\ boolValueOrDefault(req.persistent) \in Bool
  BY <1>1, <1>2, TrimIsText, DefaultedIsText DEF RequestType, boolValueOrDefault, Bool
<1>4. new \in RequestType
  BY <1>2, <1>3 DEF RequestType
<1> QED BY <1>4, ProceedType, RefuseType DEF buildHead, Check, At

LEMMA EarlyStagesType == TypeOK /\ (RequireImage \/ Resolve \/ ResolveFails) => TypeOK'
<1> SUFFICES ASSUME TypeOK, RequireImage \/ Resolve \/ ResolveFails PROVE TypeOK'
  OBVIOUS
<1>1. req \in RequestType /\ [req EXCEPT !.command = ResolveCommand(config)] \in RequestType
  BY ResolvedIsUsable DEF TypeOK, RequestType
<1> QED BY <1>1, ProceedType, RefuseType DEF RequireImage, Resolve, ResolveFails, Check, At

LEMMA buildNetworkType == TypeOK /\ buildNetworkConfiguration => TypeOK'
<1> SUFFICES ASSUME TypeOK, buildNetworkConfiguration PROVE TypeOK'
  OBVIOUS
<1> DEFINE mode == OrDefault(Upper(TrimSpace(req.mode)), Default.mode)
           subnets == TrimAll(ListOrDefault(req.subnetIds, Default.subnetId))
           groups == TrimAll(ListOrDefault(req.securityGroupIds, Default.securityGroupId))
<1>1. Default.mode \in Text /\ Default.subnetId \in Text /\ Default.securityGroupId \in Text
  BY DefaultsAreTexts DEF Default
<1>2. req \in RequestType
  BY DEF TypeOK
<1>3. mode \in Raw /\ subnets \in Seq(Raw) /\ groups \in Seq(Raw)
  BY <1>1, <1>2, TrimIsText, CaseIsText, DefaultedIsText, ListsAreTexts DEF RequestType
<1>4. /\ [req EXCEPT !.mode = mode] \in RequestType
      /\ [req EXCEPT !.mode = mode, !.subnetIds = subnets, !.securityGroupIds = groups]
            \in RequestType
  BY <1>2, <1>3 DEF RequestType
<1> QED BY <1>4, ProceedType, RefuseType DEF buildNetworkConfiguration, Check, At

LEMMA buildContainerType == TypeOK /\ buildContainer => TypeOK'
<1> SUFFICES ASSUME TypeOK, buildContainer PROVE TypeOK'
  OBVIOUS
<1>1. Default.registryType \in Text /\ Default.cpu \in Text /\ Default.memory \in Text
  BY DefaultsAreTexts DEF Default
<1>2. req \in RequestType
  BY DEF TypeOK
<1>3. /\ TrimSpace(req.image) \in Raw
      /\ OrDefault(Lower(TrimSpace(req.registryType)), Default.registryType) \in Raw
      /\ OrDefault(req.cpu, Default.cpu) \in Raw /\ OrDefault(req.memory, Default.memory) \in Raw
  BY <1>1, <1>2, TrimIsText, CaseIsText, DefaultedIsText DEF RequestType
<1>4. [req EXCEPT !.image = TrimSpace(@),
                  !.registryType = OrDefault(Lower(TrimSpace(@)), Default.registryType),
                  !.cpu = OrDefault(@, Default.cpu),
                  !.memory = OrDefault(@, Default.memory)] \in RequestType
  BY <1>2, <1>3 DEF RequestType
<1> QED BY <1>4, ProceedType, RefuseType DEF buildContainer, Check, At

LEMMA buildPairsType ==
    ASSUME TypeOK, NEW list \in {"env", "tags"}, buildPairs(list)
    PROVE  TypeOK'
<1> DEFINE name == TrimSpace(req[list][index].name)
           element == [req[list][index] EXCEPT !.name = name]
<1>1. ASSUME index <= Len(req[list]), stage = list
      PROVE  [req EXCEPT ![list][index] = element] \in RequestType
  <2>0. req \in RequestType /\ index \in Nat \ {0}
    BY DEF TypeOK
  <2>a. req.env \in Seq(PairType) /\ req.tags \in Seq(PairType)
    BY <2>0 DEF RequestType
  <2>1. req \in RequestType /\ req[list] \in Seq(PairType) /\ index \in 1 .. Len(req[list])
    BY <1>1, <2>0, <2>a
  <2>b. req[list][index] \in PairType
    BY <2>1
  <2>2. element \in PairType
    BY <2>b, TrimIsText DEF PairType
  <2>3. [req[list] EXCEPT ![index] = element] \in Seq(PairType)
    BY <2>1, <2>2
  <2> QED BY <2>1, <2>3 DEF RequestType
<1>2. Walk(list, element, ~IsBlank(name), {<<"name", name>>}) /\ stage = list
  BY DEF buildPairs, Walk, At
<1> HIDE DEF element
<1> QED BY <1>1, <1>2, WalkType

LEMMA buildCommandType == TypeOK /\ buildCommand => TypeOK'
<1> SUFFICES ASSUME TypeOK, buildCommand PROVE TypeOK'
  OBVIOUS
<1>1. [req EXCEPT !.command = TrimAll(@)] \in RequestType
  BY ListsAreTexts DEF TypeOK, RequestType
<1> QED BY <1>1, ProceedType, RefuseType DEF buildCommand, Check, At

LEMMA buildDNSType == TypeOK /\ buildDNS => TypeOK'
<1> SUFFICES ASSUME TypeOK, buildDNS PROVE TypeOK'
  OBVIOUS
<1>1. [req EXCEPT !.servers = TrimAll(@), !.searches = TrimAll(@), !.options = TrimAll(@)]
          \in RequestType
  BY ListsAreTexts DEF TypeOK, RequestType
<1> QED BY <1>1, ProceedType, RefuseType DEF buildDNS, Check, At

LEMMA buildPortsType == TypeOK /\ buildPorts => TypeOK'
<1> SUFFICES ASSUME TypeOK, buildPorts PROVE TypeOK'
  OBVIOUS
<1> DEFINE p == req.ports[index]
           new == [p EXCEPT !.name = TrimSpace(@), !.protocol = Upper(TrimSpace(@))]
           keys == {<<"name", new.name>>, <<"port", p.port>>}
           ok == ~IsBlank(new.name) /\ new.protocol.text = "TCP" /\ validatePort(p.port)
<1>1. req \in RequestType /\ req.ports \in Seq(PortType) /\ index \in Nat \ {0}
  BY DEF TypeOK, RequestType
<1>2. CASE Walk("ports", new, ok, keys)
  <2>1. ASSUME index <= Len(req.ports)
        PROVE  [req EXCEPT !["ports"][index] = new] \in RequestType
    <3>1. p \in PortType
      BY <1>1, <2>1
    <3>2. new \in PortType
      BY <3>1, TrimIsText, CaseIsText DEF PortType
    <3>3. [req.ports EXCEPT ![index] = new] \in Seq(PortType)
      BY <1>1, <2>1, <3>2
    <3> QED BY <1>1, <3>3 DEF RequestType
  <2> HIDE DEF new, keys, ok
  <2> QED BY <1>2, <2>1, WalkType
<1>3. CASE /\ At("ports") /\ req.ports = <<>>
           /\ req' = [req EXCEPT !.ports = <<DefaultPort>>]
           /\ UNCHANGED <<body, config, stage, index, seen, verdict, round>>
  <2>1. stage = "ports" /\ index <= 2
    BY <1>3 DEF TypeOK, At
  <2>2. {"envd", "TCP"} \subseteq Text
    BY ToolRequestAssumption
  <2>3. DefaultPort \in PortType
    BY <2>2, PlainIsText DEF DefaultPort, PortType
  <2>4. <<DefaultPort>> \in Seq(PortType) /\ Len(<<DefaultPort>>) = 1
    BY <2>3
  <2>5. req' \in RequestType /\ req'.ports = <<DefaultPort>>
    BY <1>1, <1>3, <2>4 DEF RequestType
  <2>6. index' <= Len(req'.ports) + 1 /\ stage' = "ports"
    BY <1>3, <2>1, <2>4, <2>5
  <2> QED BY <1>3, <2>5, <2>6 DEF TypeOK
<1> QED BY <1>2, <1>3 DEF buildPorts

LEMMA buildProbeType == TypeOK /\ buildProbe => TypeOK'
<1> SUFFICES ASSUME TypeOK, buildProbe PROVE TypeOK'
  OBVIOUS
<1> DEFINE path == OrDefault(req.probePath, Default.probePath)
           port == IF req.probePort = 0 THEN DefaultProbePort ELSE req.probePort
           scheme == OrDefault(Upper(TrimSpace(req.probeScheme)), Default.probeScheme)
           numbers == [i \in 1 .. 5 |-> positiveOrDefault(req.probeNumbers[i], DefaultProbeNumbers[i])]
<1>1. Default.probePath \in Text /\ Default.probeScheme \in Text
  BY DefaultsAreTexts DEF Default
<1>2. req \in RequestType
  BY DEF TypeOK
<1>3. path \in Raw /\ scheme \in Raw /\ port \in Int
  BY <1>1, <1>2, TrimIsText, CaseIsText, DefaultedIsText DEF RequestType, DefaultProbePort
<1>4. numbers \in [1 .. 5 -> Int]
  <2>1. req.probeNumbers \in [1 .. 5 -> Int]
    BY <1>2 DEF RequestType
  <2>2. \A i \in 1 .. 5 : DefaultProbeNumbers[i] \in Int
    <3> SUFFICES ASSUME NEW i \in 1 .. 5 PROVE DefaultProbeNumbers[i] \in Int
      OBVIOUS
    <3>1. i = 1 \/ i = 2 \/ i = 3 \/ i = 4 \/ i = 5
      OBVIOUS
    <3> QED BY <3>1 DEF DefaultProbeNumbers
  <2> QED BY <2>1, <2>2 DEF positiveOrDefault
<1>5. [req EXCEPT !.probePath = path, !.probePort = port, !.probeScheme = scheme,
                  !.probeNumbers = numbers] \in RequestType
  BY <1>2, <1>3, <1>4 DEF RequestType
<1> QED BY <1>5, ProceedType, RefuseType DEF buildProbe, Check, At

LEMMA buildStorageMountsType == TypeOK /\ buildStorageMounts => TypeOK'
<1> SUFFICES ASSUME TypeOK, buildStorageMounts PROVE TypeOK'
  OBVIOUS
<1> DEFINE m == req.mounts[index]
           new == [name       |-> storageValueOrDefault(m.name, Default.mountName),
                   endpoint   |-> storageValueOrDefault(m.endpoint, Default.endpoint),
                   bucketName |-> storageValueOrDefault(m.bucketName, Default.bucketName),
                   bucketPath |-> storageValueOrDefault(m.bucketPath, Default.bucketPath),
                   mountPath  |-> storageValueOrDefault(m.mountPath, Default.mountPath),
                   readOnly   |-> boolValueOrDefault(m.readOnly)]
<1>1. req \in RequestType /\ req.mounts \in Seq(MountType) /\ index \in Nat \ {0}
  BY DEF TypeOK, RequestType
<1>2. ASSUME index <= Len(req.mounts)
      PROVE  [req EXCEPT !["mounts"][index] = new] \in RequestType
  <2>1. m \in MountType
    BY <1>1, <1>2
  <2>2. /\ Default.mountName \in Text /\ Default.endpoint \in Text /\ Default.bucketName \in Text
        /\ Default.bucketPath \in Text /\ Default.mountPath \in Text
    BY DefaultsAreTexts DEF Default
  <2>3. new \in MountType
    BY <2>1, <2>2, DefaultedIsText DEF MountType, boolValueOrDefault, Bool
  <2>4. [req.mounts EXCEPT ![index] = new] \in Seq(MountType)
    BY <1>1, <1>2, <2>3
  <2> QED BY <1>1, <2>4 DEF RequestType
<1>3. \E ok, keys : Walk("mounts", new, ok, keys)
  BY DEF buildStorageMounts
<1> HIDE DEF new
<1> QED BY <1>2, <1>3, WalkType

LEMMA NextTypeOK == TypeOK /\ [Next]_vars => TypeOK'
<1> SUFFICES ASSUME TypeOK, [Next]_vars PROVE TypeOK'
  OBVIOUS
<1>1. CASE Build
  BY <1>1, EarlyStagesType, buildHeadType, buildNetworkType, buildContainerType,
     buildPairsType, buildPortsType, buildCommandType, buildProbeType, buildDNSType,
     buildStorageMountsType DEF Build
<1>2. CASE SubmitSent
  BY <1>2 DEF TypeOK, SubmitSent, After
<1>3. CASE UNCHANGED vars
  BY <1>3 DEF TypeOK, vars
<1> QED BY <1>1, <1>2, <1>3 DEF Next

(* The request under construction is a request at every step, whatever     *)
(* part of it has been defaulted, trimmed or replaced so far.              *)
THEOREM TypeCorrect == Spec => []TypeOK
BY InitTypeOK, NextTypeOK, PTL DEF Spec

--------------------------------------------------------------------------------
(* Uniqueness.                                                             *)

WalkedLists == {"env", "ports", "tags", "mounts"}

\* what an element is known by in its list's maps
Keys(list, e) ==
    CASE list = "ports"  -> {<<"name", e.name>>, <<"port", e.port>>}
      [] list = "mounts" -> {<<"name", e.name>>, <<"path", e.mountPath>>}
      [] OTHER           -> {<<"name", e.name>>}

\* the stages that follow the walk over a list
Later == [env    |-> {"ports", "command", "probe", "dns", "tags", "mounts", "sent"},
          ports  |-> {"command", "probe", "dns", "tags", "mounts", "sent"},
          tags   |-> {"mounts", "sent"},
          mounts |-> {"sent"}]

\* the first n elements of s share no key
Apart(list, s, n) ==
    \A i, j \in 1 .. n : i # j => Keys(list, s[i]) \cap Keys(list, s[j]) = {}

(* Inductive: the elements walked so far are apart and their keys are in   *)
(* seen; a list that has been walked to its end stays apart.               *)
WalkedApart ==
    \A list \in WalkedLists :
        /\ stage = list => /\ Apart(list, req[list], index - 1)
                           /\ \A i \in 1 .. index - 1 : Keys(list, req[list][i]) \subseteq seen
        /\ stage \in Later[list] => Apart(list, req[list], Len(req[list]))

LEMMA InitApart == Init => WalkedApart
BY DEF Init, WalkedApart, WalkedLists, Later

(* A step to the next stage that leaves the lists alone.                   *)
LEMMA ProceedApart ==
    ASSUME TypeOK, WalkedApart, stage # "sent", NEW new \in RequestType, Proceed(new),
           \A list \in WalkedLists : new[list] = req[list],
           stage \in WalkedLists => Apart(stage, req[stage], Len(req[stage]))
    PROVE  WalkedApart'
<1> SUFFICES ASSUME NEW list \in WalkedLists
             PROVE  /\ stage' = list => /\ Apart(list, req'[list], index' - 1)
                                        /\ \A i \in 1 .. index' - 1 :
                                              Keys(list, req'[list][i]) \subseteq seen'
                    /\ stage' \in Later[list] => Apart(list, req'[list], Len(req'[list]))
  BY DEF WalkedApart, Apart
<1>1. index' = 1 /\ req' = new /\ stage' = After[stage] /\ new[list] = req[list]
  BY DEF Proceed
<1>2. Apart(list, req'[list], index' - 1) /\ \A i \in 1 .. index' - 1 : FALSE
  BY <1>1 DEF Apart
<1>3. stage' \in Later[list] => stage = list \/ stage \in Later[list]
  BY <1>1 DEF TypeOK, After, Later, WalkedLists
<1> QED BY <1>1, <1>2, <1>3 DEF WalkedApart

LEMMA RefuseApart == WalkedApart /\ Refuse => WalkedApart'
BY DEF WalkedApart, Refuse, Apart

(* One turn of a loop: the new element was compared with all before it.    *)
LEMMA WalkApart ==
    ASSUME TypeOK, WalkedApart, NEW list \in WalkedLists, NEW element, NEW ok,
           Walk(list, element, ok, Keys(list, element))
    PROVE  WalkedApart'
<1> DEFINE keys == Keys(list, element)
<1>1. /\ stage = list /\ index \in Nat \ {0} /\ req \in RequestType
      /\ DOMAIN req[list] = 1 .. Len(req[list]) /\ Len(req[list]) \in Nat
  BY ListsAreTyped DEF TypeOK, Walk, At, WalkedLists
<1>2. CASE index > Len(req[list]) /\ Proceed(req)
  <2>1. Apart(list, req[list], Len(req[list]))
    <3>1. Apart(list, req[list], index - 1)
      BY <1>1 DEF WalkedApart
    <3>2. 1 .. Len(req[list]) \subseteq 1 .. index - 1
      BY <1>1, <1>2
    <3> QED BY <3>1, <3>2 DEF Apart
  <2> QED BY <1>1, <1>2, <2>1, ProceedApart DEF WalkedLists
<1>3. CASE Refuse
  BY <1>3, RefuseApart
<1>4. CASE /\ index <= Len(req[list])
           /\ seen \cap keys = {}
           /\ req' = [req EXCEPT ![list][index] = element]
           /\ seen' = seen \cup keys
           /\ index' = index + 1
           /\ UNCHANGED <<body, config, stage, verdict, round>>
  <2>0. list \in DOMAIN req
    BY <1>1, ListsAreTyped DEF WalkedLists
  <2>1. req'[list] = [req[list] EXCEPT ![index] = element]
    BY <1>4, <2>0
  <2>2. \A other \in WalkedLists \ {list} : req'[other] = req[other]
    BY <1>1, <1>4, ListsAreTyped DEF WalkedLists
  <2>3. /\ req'[list][index] = element
        /\ \A i \in 1 .. index - 1 : req'[list][i] = req[list][i]
    BY <1>1, <1>4, <2>1
  <2>4. \A i \in 1 .. index - 1 : /\ Keys(list, req'[list][i]) \subseteq seen
                                  /\ Keys(list, req'[list][i]) \cap keys = {}
    BY <1>1, <1>4, <2>3 DEF WalkedApart
  <2>5. Apart(list, req'[list], index)
    <3> SUFFICES ASSUME NEW i \in 1 .. index, NEW j \in 1 .. index, i # j
                 PROVE  Keys(list, req'[list][i]) \cap Keys(list, req'[list][j]) = {}
      BY DEF Apart
    <3>1. CASE i = index
      BY <1>1, <2>3, <2>4, <3>1
    <3>2. CASE j = index
      BY <1>1, <2>3, <2>4, <3>2
    <3>3. CASE i < index /\ j < index
      <4>1. Apart(list, req[list], index - 1)
        BY <1>1 DEF WalkedApart
      <4>2. i \in 1 .. index - 1 /\ j \in 1 .. index - 1
        BY <1>1, <3>3
      <4> QED BY <2>3, <4>1, <4>2 DEF Apart
    <3> QED BY <1>1, <3>1, <3>2, <3>3
  <2>6. \A i \in 1 .. index : Keys(list, req'[list][i]) \subseteq seen'
    <3> HIDE DEF keys
    <3>1. Keys(list, req'[list][index]) = keys
      BY <2>3 DEF keys
    <3> QED BY <1>1, <1>4, <2>4, <3>1
  <2>7. index' - 1 = index /\ stage' = list /\ list \notin Later[list]
    BY <1>1, <1>4 DEF Later, WalkedLists
  <2> SUFFICES ASSUME NEW other \in WalkedLists
               PROVE  /\ stage' = other => /\ Apart(other, req'[other], index' - 1)
                                           /\ \A i \in 1 .. index' - 1 :
                                                 Keys(other, req'[other][i]) \subseteq seen'
                      /\ stage' \in Later[other] => Apart(other, req'[other], Len(req'[other]))
    BY DEF WalkedApart, Apart
  <2>8. CASE other = list
    BY <2>5, <2>6, <2>7, <2>8
  <2>9. CASE other # list
    BY <1>1, <2>2, <2>7, <2>9 DEF WalkedApart
  <2> QED BY <2>8, <2>9
<1> QED BY <1>2, <1>3, <1>4 DEF Walk

(* The stages that do not walk a list leave all lists as they are.         *)
LEMMA StageApart ==
    ASSUME TypeOK, TypeOK', WalkedApart,
           RequireImage \/ Resolve \/ ResolveFails \/ buildHead \/ buildNetworkConfiguration
             \/ buildContainer \/ buildCommand \/ buildProbe \/ buildDNS
    PROVE  WalkedApart'
<1> DEFINE Kept == \A list \in WalkedLists : req'[list] = req[list]
<1>1. req \in RequestType /\ req' \in RequestType
  BY DEF TypeOK
<1>2. CASE Refuse
  BY <1>2, RefuseApart
<1>3. CASE Proceed(req') /\ stage \notin WalkedLists \cup {"sent"} /\ Kept
  BY <1>1, <1>3, ProceedApart
<1>4. RequireImage => Refuse \/ (stage = "image" /\ Proceed(req') /\ Kept)
  BY DEF RequireImage, Check, At, Proceed
<1>5. Resolve => Refuse \/ (stage = "resolve" /\ Proceed(req') /\ Kept)
  BY <1>1 DEF Resolve, Check, At, Proceed, WalkedLists, RequestType
<1>6. buildHead => Refuse \/ (stage = "head" /\ Proceed(req') /\ Kept)
  BY <1>1 DEF buildHead, Check, At, Proceed, WalkedLists, RequestType
<1>7. buildNetworkConfiguration => Refuse \/ (stage = "network" /\ Proceed(req') /\ Kept)
  BY <1>1 DEF buildNetworkConfiguration, Check, At, Proceed, WalkedLists, RequestType
<1>8. buildContainer => Refuse \/ (stage = "container" /\ Proceed(req') /\ Kept)
  BY <1>1 DEF buildContainer, Check, At, Proceed, WalkedLists, RequestType
<1>9. buildCommand => Refuse \/ (stage = "command" /\ Proceed(req') /\ Kept)
  BY <1>1 DEF buildCommand, Check, At, Proceed, WalkedLists, RequestType
<1>10. buildProbe => Refuse \/ (stage = "probe" /\ Proceed(req') /\ Kept)
  BY <1>1 DEF buildProbe, Check, At, Proceed, WalkedLists, RequestType
<1>11. buildDNS => Refuse \/ (stage = "dns" /\ Proceed(req') /\ Kept)
  BY <1>1 DEF buildDNS, Check, At, Proceed, WalkedLists, RequestType
<1> QED BY <1>2, <1>3, <1>4, <1>5, <1>6, <1>7, <1>8, <1>9, <1>10, <1>11
           DEF ResolveFails, WalkedLists

(* The maps of the four loops hold what Keys says.                         *)
LEMMA ListApart ==
    ASSUME TypeOK, WalkedApart,
           buildPairs("env") \/ buildPairs("tags") \/ buildPorts \/ buildStorageMounts
    PROVE  WalkedApart'
<1>1. CASE buildPairs("env") \/ buildPairs("tags")
  <2>1. PICK list \in {"env", "tags"} : buildPairs(list)
    BY <1>1
  <2> DEFINE e == [req[list][index] EXCEPT !.name = TrimSpace(req[list][index].name)]
  <2>2. CASE stage = list /\ index <= Len(req[list])
    <3>1. req[list] \in Seq(PairType) /\ index \in 1 .. Len(req[list])
      <4>1. req.env \in Seq(PairType) /\ req.tags \in Seq(PairType) /\ index \in Nat \ {0}
        BY DEF TypeOK, RequestType
      <4> QED BY <2>2, <4>1
    <3>2. req[list][index] \in PairType
      BY <3>1
    <3>3. Keys(list, e) = {<<"name", TrimSpace(req[list][index].name)>>}
      BY <3>2 DEF Keys, PairType
    <3> QED BY <2>1, <3>3, WalkApart DEF buildPairs, WalkedLists
  <2>3. CASE ~(stage = list /\ index <= Len(req[list]))
    <3>1. \A ok, keys : Walk(list, e, ok, keys) => Walk(list, e, ok, Keys(list, e))
      BY <2>3 DEF Walk, At
    <3> QED BY <2>1, <3>1, WalkApart DEF buildPairs, WalkedLists
  <2> QED BY <2>2, <2>3
<1>2. CASE buildPorts
  <2> DEFINE p == req.ports[index]
             new == [p EXCEPT !.name = TrimSpace(@), !.protocol = Upper(TrimSpace(@))]
             keys == {<<"name", new.name>>, <<"port", p.port>>}
  <2>1. CASE \E ok : Walk("ports", new, ok, keys)
    <3>1. CASE stage = "ports" /\ index <= Len(req.ports)
      <4>1. req.ports \in Seq(PortType) /\ index \in Nat \ {0}
        BY DEF TypeOK, RequestType
      <4>2. p \in PortType
        BY <3>1, <4>1
      <4>3. Keys("ports", new) = keys
        BY <4>2 DEF Keys, PortType
      <4> HIDE DEF new, keys
      <4> QED BY <2>1, <4>3, WalkApart DEF WalkedLists
    <3>2. CASE ~(stage = "ports" /\ index <= Len(req.ports))
      <4>1. \E ok : Walk("ports", new, ok, Keys("ports", new))
        BY <2>1, <3>2 DEF Walk, At
      <4> HIDE DEF new, keys
      <4> QED BY <4>1, WalkApart DEF WalkedLists
    <3> QED BY <3>1, <3>2
  <2>2. CASE /\ At("ports") /\ req.ports = <<>>
             /\ req' = [req EXCEPT !.ports = <<DefaultPort>>]
             /\ UNCHANGED <<body, config, stage, index, seen, verdict, round>>
    <3>1. index = 1 /\ stage = "ports"
      <4>1. index \in Nat \ {0} /\ Len(req.ports) = 0 /\ stage = "ports"
        BY <2>2 DEF TypeOK, At
      <4>2. index <= Len(req["ports"]) + 1
        BY <4>1 DEF TypeOK
      <4> QED BY <4>1, <4>2
    <3>2. req'.env = req.env /\ req'.tags = req.tags /\ req'.mounts = req.mounts
      BY <2>2 DEF TypeOK, RequestType
    <3>3. stage \notin Later.ports /\ stage # "env" /\ stage # "tags" /\ stage # "mounts"
          /\ stage \notin Later.tags /\ stage \notin Later.mounts /\ stage \in Later.env
      BY <3>1 DEF Later
    <3>4. \A list \in WalkedLists : list = "env" \/ list = "ports" \/ list = "tags" \/ list = "mounts"
      BY DEF WalkedLists
    <3>5. Apart("env", req.env, Len(req.env))
      BY <3>3 DEF WalkedApart, WalkedLists
    <3>6. Apart("ports", req'.ports, index' - 1) /\ 1 .. index' - 1 = {}
      BY <2>2, <3>1 DEF Apart
    <3> QED BY <2>2, <3>1, <3>2, <3>3, <3>4, <3>5, <3>6 DEF WalkedApart
  <2> QED BY <1>2, <2>1, <2>2 DEF buildPorts
<1>3. CASE buildStorageMounts
  <2> DEFINE m == req.mounts[index]
             new == [name       |-> storageValueOrDefault(m.name, Default.mountName),
                     endpoint   |-> storageValueOrDefault(m.endpoint, Default.endpoint),
                     bucketName |-> storageValueOrDefault(m.bucketName, Default.bucketName),
                     bucketPath |-> storageValueOrDefault(m.bucketPath, Default.bucketPath),
                     mountPath  |-> storageValueOrDefault(m.mountPath, Default.mountPath),
                     readOnly   |-> boolValueOrDefault(m.readOnly)]
  <2>1. \E ok : Walk("mounts", new, ok, {<<"name", new.name>>, <<"path", new.mountPath>>})
    BY <1>3 DEF buildStorageMounts
  <2> HIDE DEF new
  <2>2. Keys("mounts", new) = {<<"name", new.name>>, <<"path", new.mountPath>>}
    BY DEF Keys
  <2> QED BY <2>1, <2>2, WalkApart DEF WalkedLists
<1> QED BY <1>1, <1>2, <1>3

LEMMA NextApart == TypeOK /\ TypeOK' /\ WalkedApart /\ [Next]_vars => WalkedApart'
<1> SUFFICES ASSUME TypeOK, TypeOK', WalkedApart, [Next]_vars PROVE WalkedApart'
  OBVIOUS
<1>1. CASE Build
  BY <1>1, StageApart, ListApart DEF Build
<1>2. CASE SubmitSent
  BY <1>2 DEF WalkedApart, WalkedLists, SubmitSent, Later
<1>3. CASE UNCHANGED vars
  BY <1>3 DEF WalkedApart, Apart, vars
<1> QED BY <1>1, <1>2, <1>3 DEF Next

(* Lists whose elements share no key have distinct names, ports and paths. *)
LEMMA ApartIsUnique == TypeOK /\ WalkedApart => SentIsUnique
<1> SUFFICES ASSUME TypeOK, WalkedApart, verdict = "sent" PROVE SentIsUnique
  BY DEF SentIsUnique
<1>1. \A list \in WalkedLists :
        /\ Apart(list, req[list], Len(req[list]))
        /\ DOMAIN req[list] = 1 .. Len(req[list])
  BY ListsAreTyped DEF TypeOK, WalkedApart, WalkedLists, Later
<1>2. ASSUME NEW list \in WalkedLists PROVE Distinct(req[list], Name)
  <2>1. \A e : <<"name", e.name>> \in Keys(list, e)
    BY DEF Keys, WalkedLists
  <2> SUFFICES ASSUME NEW i \in DOMAIN req[list], NEW j \in DOMAIN req[list],
                      req[list][i].name = req[list][j].name, i # j
               PROVE  FALSE
    BY DEF Distinct, Name
  <2>2. Keys(list, req[list][i]) \cap Keys(list, req[list][j]) = {}
    BY <1>1, <1>2 DEF Apart
  <2> QED BY <2>1, <2>2
<1>3. Distinct(req.ports, PortNumber)
  <2>1. \A p : <<"port", p.port>> \in Keys("ports", p)
    BY DEF Keys
  <2>2. Apart("ports", req.ports, Len(req.ports)) /\ DOMAIN req.ports = 1 .. Len(req.ports)
    BY <1>1 DEF WalkedLists
  <2> SUFFICES ASSUME NEW i \in DOMAIN req.ports, NEW j \in DOMAIN req.ports,
                      req.ports[i].port = req.ports[j].port, i # j
               PROVE  FALSE
    BY DEF Distinct, PortNumber
  <2>3. Keys("ports", req.ports[i]) \cap Keys("ports", req.ports[j]) = {}
    BY <2>2 DEF Apart
  <2> QED BY <2>1, <2>3
<1>4. Distinct(req.mounts, MountPath)
  <2>1. \A m : <<"path", m.mountPath>> \in Keys("mounts", m)
    BY DEF Keys
  <2>2. Apart("mounts", req.mounts, Len(req.mounts)) /\ DOMAIN req.mounts = 1 .. Len(req.mounts)
    BY <1>1 DEF WalkedLists
  <2> SUFFICES ASSUME NEW i \in DOMAIN req.mounts, NEW j \in DOMAIN req.mounts,
                      req.mounts[i].mountPath = req.mounts[j].mountPath, i # j
               PROVE  FALSE
    BY DEF Distinct, MountPath
  <2>3. Keys("mounts", req.mounts[i]) \cap Keys("mounts", req.mounts[j]) = {}
    BY <2>2 DEF Apart
  <2> QED BY <2>1, <2>3
<1> QED BY <1>2, <1>3, <1>4 DEF SentIsUnique, WalkedLists

(* Whatever the lists of a body and however their names are padded or left *)
(* to default, no two entries that are sent collide.                       *)
THEOREM UniqueAsSent == Spec => []SentIsUnique
<1>1. Spec => [](TypeOK /\ WalkedApart)
  BY InitTypeOK, NextTypeOK, InitApart, NextApart, PTL DEF Spec
<1> QED BY <1>1, ApartIsUnique, PTL

--------------------------------------------------------------------------------
(* The start command.                                                      *)

BeforeCommand == {"head", "network", "container", "env", "ports", "command"}

(* Inductive: up to the resolver the command is the caller's; from there   *)
(* to the builder's check one from the image is usable.                    *)
CommandIsUsable ==
    /\ stage \in {"image", "resolve"} => req.command = body.command
    /\ stage \in BeforeCommand /\ body.command = <<>> =>
          req.command # <<>> /\ NoneBlank(req.command)

\* in this state the builder's check of the command cannot fail
UsableIsNotRefused == ImageCommandIsNotRefused /\ CommandIsUsable

LEMMA InitUsable == Init => UsableIsNotRefused
BY DEF Init, UsableIsNotRefused, CommandIsUsable, ImageCommandIsNotRefused, BeforeCommand

LEMMA NextUsable == TypeOK /\ TypeOK' /\ UsableIsNotRefused /\ [Next]_vars => UsableIsNotRefused'
<1> SUFFICES ASSUME TypeOK, TypeOK', UsableIsNotRefused, [Next]_vars PROVE UsableIsNotRefused'
  OBVIOUS
<1> USE DEF UsableIsNotRefused, CommandIsUsable, ImageCommandIsNotRefused, BeforeCommand, NoneBlank
<1>1. req \in RequestType /\ req' \in RequestType /\ config \in ImageConfig
  BY DEF TypeOK
<1>2. CASE Resolve
  BY <1>1, <1>2, ResolvedIsUsable DEF Resolve, Check, Proceed, Refuse, At, After, RequestType
<1>3. CASE RequireImage \/ ResolveFails
  BY <1>3 DEF RequireImage, ResolveFails, Check, Proceed, Refuse, At, After
<1>4. CASE buildCommand
  BY <1>4 DEF buildCommand, Check, Proceed, Refuse, At, After
<1>5. CASE buildProbe \/ buildDNS \/ buildPairs("tags") \/ buildStorageMounts
  BY <1>5 DEF buildProbe, buildDNS, buildPairs, buildStorageMounts, Walk, Check, Proceed, Refuse,
              At, After
<1>6. ASSUME stage \in BeforeCommand \ {"command"}, req'.command = req.command,
             Refuse \/ Proceed(req') \/ UNCHANGED <<body, config, stage, verdict, round>>
      PROVE  UsableIsNotRefused'
  BY <1>6 DEF Proceed, Refuse, After
<1>7. CASE buildHead
  BY <1>1, <1>6, <1>7 DEF buildHead, Check, Proceed, Refuse, At, RequestType
<1>8. CASE buildNetworkConfiguration
  BY <1>1, <1>6, <1>8 DEF buildNetworkConfiguration, Check, Proceed, Refuse, At, RequestType
<1>9. CASE buildContainer
  BY <1>1, <1>6, <1>9 DEF buildContainer, Check, Proceed, Refuse, At, RequestType
<1>10. CASE buildPairs("env") \/ buildPorts
  <2>1. PICK list \in {"env", "ports"} :
          stage = list /\ \/ Refuse
                          \/ Proceed(req)
                          \/ /\ \E s : req' = [req EXCEPT ![list] = s]
                             /\ UNCHANGED <<body, config, stage, verdict, round>>
    BY <1>1, <1>10 DEF buildPairs, buildPorts, Walk, At
  <2>2. req'.command = req.command
    BY <1>1, <2>1 DEF Refuse, Proceed, RequestType
  <2>3. Refuse \/ Proceed(req') \/ UNCHANGED <<body, config, stage, verdict, round>>
    BY <2>1 DEF Proceed
  <2> QED BY <1>6, <2>1, <2>2, <2>3
<1>11. CASE SubmitSent
  BY <1>11 DEF SubmitSent
<1>12. CASE UNCHANGED vars
  BY <1>12 DEF vars
<1> QED BY <1>2, <1>3, <1>4, <1>5, <1>7, <1>8, <1>9, <1>10, <1>11, <1>12 DEF Next, Build

(* Whatever Entrypoint and Cmd an image has: a body without a command is   *)
(* refused by the resolver or not for its command at all.                  *)
THEOREM ResolvedCommandBuilds == Spec => []ImageCommandIsNotRefused
<1>1. Spec => [](TypeOK /\ UsableIsNotRefused)
  BY InitTypeOK, NextTypeOK, InitUsable, NextUsable, PTL DEF Spec
<1>2. UsableIsNotRefused => ImageCommandIsNotRefused
  BY DEF UsableIsNotRefused
<1> QED BY <1>1, <1>2, PTL

(* The caller's command, or else the image's.                              *)
ChosenCommand == IF body.command # <<>> THEN body.command ELSE ResolveCommand(config)

(* Inductive: the resolver sees the caller's command, the stages up to the *)
(* command's see the chosen one, and those after it what is sent.          *)
CommandIsChosen ==
    IF stage \in {"image", "resolve"} THEN req.command = body.command
    ELSE IF stage \in BeforeCommand THEN req.command = ChosenCommand
    ELSE req.command = TrimAll(ChosenCommand)

LEMMA NextChosen == TypeOK /\ TypeOK' /\ CommandIsChosen /\ [Next]_vars => CommandIsChosen'
<1> SUFFICES ASSUME TypeOK, TypeOK', CommandIsChosen, [Next]_vars PROVE CommandIsChosen'
  OBVIOUS
<1> USE DEF CommandIsChosen, BeforeCommand
<1>1. req \in RequestType /\ req' \in RequestType
  BY DEF TypeOK
<1>2. ASSUME UNCHANGED <<body, config>> PROVE ChosenCommand' = ChosenCommand
  BY <1>2 DEF ChosenCommand
<1>3. CASE RequireImage \/ ResolveFails
  BY <1>2, <1>3 DEF RequireImage, ResolveFails, Check, Proceed, Refuse, At, After
<1>4. CASE Resolve
  <2>1. CASE Refuse
    BY <1>2, <1>4, <2>1 DEF Resolve, Refuse
  <2>2. CASE Proceed(IF req.command = <<>> THEN [req EXCEPT !.command = ResolveCommand(config)]
                     ELSE req)
    <3>1. stage = "resolve" /\ stage' = "head" /\ UNCHANGED <<body, config>>
      BY <1>4, <2>2 DEF Resolve, Proceed, At, After
    <3>2. req'.command = IF req.command = <<>> THEN ResolveCommand(config) ELSE req.command
      BY <1>1, <2>2 DEF Proceed, RequestType
    <3> QED BY <1>2, <3>1, <3>2 DEF ChosenCommand
  <2> QED BY <1>4, <2>1, <2>2 DEF Resolve, Check
<1>5. CASE buildCommand
  <2>1. CASE Refuse
    BY <1>2, <1>5, <2>1 DEF Refuse
  <2>2. CASE Proceed([req EXCEPT !.command = TrimAll(@)])
    <3>1. stage = "command" /\ stage' = "probe" /\ UNCHANGED <<body, config>>
      BY <1>5, <2>2 DEF buildCommand, Proceed, At, After
    <3>2. req'.command = TrimAll(req.command)
      BY <1>1, <2>2 DEF Proceed, RequestType
    <3> QED BY <1>2, <3>1, <3>2
  <2> QED BY <1>5, <2>1, <2>2 DEF buildCommand, Check
<1>6. ASSUME stage \notin {"image", "resolve", "command"}, stage \in DOMAIN After,
             req'.command = req.command,
             Refuse \/ Proceed(req') \/ UNCHANGED <<body, config, stage, verdict, round>>
      PROVE  CommandIsChosen'
  <2>1. UNCHANGED <<body, config>> /\ (stage' = stage \/ stage' = After[stage])
    BY <1>6 DEF Refuse, Proceed
  <2>2. /\ After[stage] \notin {"image", "resolve"}
        /\ After[stage] \in BeforeCommand <=> stage \in BeforeCommand
    BY <1>6 DEF After
  <2> QED BY <1>2, <1>6, <2>1, <2>2
<1>7. CASE buildHead \/ buildNetworkConfiguration \/ buildContainer \/ buildProbe \/ buildDNS
  <2>1. /\ stage \in {"head", "network", "container", "probe", "dns"}
        /\ Refuse \/ Proceed(req')
    BY <1>7 DEF buildHead, buildNetworkConfiguration, buildContainer, buildProbe, buildDNS,
                Check, Proceed, At
  <2>2. req'.command = req.command
    BY <1>1, <1>7 DEF buildHead, buildNetworkConfiguration, buildContainer, buildProbe, buildDNS,
                Check, Proceed, Refuse, RequestType
  <2> QED BY <1>6, <2>1, <2>2 DEF After
<1>8. CASE buildPairs("env") \/ buildPairs("tags") \/ buildPorts \/ buildStorageMounts
  <2>1. PICK list \in {"env", "ports", "tags", "mounts"} :
           stage = list /\ \/ Refuse
                           \/ Proceed(req)
                           \/ /\ \E s : req' = [req EXCEPT ![list] = s]
                              /\ UNCHANGED <<body, config, stage, verdict, round>>
    BY <1>1, <1>8 DEF buildPairs, buildPorts, buildStorageMounts, Walk, At
  <2>2. req'.command = req.command
    BY <1>1, <2>1 DEF Refuse, Proceed, RequestType
  <2>3. Refuse \/ Proceed(req') \/ UNCHANGED <<body, config, stage, verdict, round>>
    BY <2>1 DEF Proceed
  <2> QED BY <1>6, <2>1, <2>2, <2>3 DEF After
<1>9. CASE SubmitSent
  BY <1>9 DEF SubmitSent
<1>10. CASE UNCHANGED vars
  BY <1>2, <1>10 DEF vars
<1> QED
  BY <1>3, <1>4, <1>5, <1>7, <1>8, <1>9, <1>10 DEF Next, Build

(* AGS is told the caller's command, and only in its absence the image's;  *)
(* none of its elements is dropped or moved on the way.                    *)
THEOREM CommandAsChosen ==
    Spec => [](verdict = "sent" => req.command = TrimAll(ChosenCommand))
<1>1. Init => CommandIsChosen
  BY DEF Init, CommandIsChosen
<1>2. TypeOK /\ CommandIsChosen => (verdict = "sent" => req.command = TrimAll(ChosenCommand))
  BY DEF TypeOK, CommandIsChosen, BeforeCommand
<1> QED BY <1>1, <1>2, InitTypeOK, NextTypeOK, NextChosen, PTL DEF Spec

(* README's rule of the Entrypoint holds of every image whose Entrypoint   *)
(* has no blank element.                                                   *)
THEOREM CleanEntrypointIsUsed == Spec => [](NoneBlank(config.entrypoint) => EntrypointIsUsed)
<1>1. (verdict = "sent" => req.command = TrimAll(ChosenCommand))
         => (NoneBlank(config.entrypoint) => EntrypointIsUsed)
  BY DEF EntrypointIsUsed, ChosenCommand, ResolveCommand, validCommand
<1> QED BY <1>1, CommandAsChosen, PTL

--------------------------------------------------------------------------------
(* The rules.  InOrder says in one formula, without loops and defaults,    *)
(* which bodies are in order.  Its clauses are split here by the stage     *)
(* that answers for them; of each stage it is then shown that it decides   *)
(* its own clauses and leaves a request it would decide the same again.    *)

\* the place of a stage in the builder's order
Rank == [image |-> 1, resolve |-> 2, head |-> 3, network |-> 4, container |-> 5,
         env |-> 6, ports |-> 7, command |-> 8, probe |-> 9, dns |-> 10, tags |-> 11,
         mounts |-> 12, sent |-> 13]

\* the stages that answer for a part of the body
Parts == {"head", "network", "container", "env", "ports", "command", "probe", "dns", "tags",
          "mounts"}

\* the fields a stage replaces are the same in q and r
Same(s, q, r) ==
    /\ s = "head" => /\ q.toolName = r.toolName /\ q.description = r.description
                     /\ q.clientToken = r.clientToken /\ q.defaultTimeout = r.defaultTimeout
                     /\ q.roleArn = r.roleArn /\ q.persistent = r.persistent
    /\ s = "network" => /\ q.mode = r.mode /\ q.subnetIds = r.subnetIds
                        /\ q.securityGroupIds = r.securityGroupIds
    /\ s = "container" => /\ q.image = r.image /\ q.registryType = r.registryType
                          /\ q.cpu = r.cpu /\ q.memory = r.memory
    /\ s \in WalkedLists => q[s] = r[s]
    /\ s = "command" => q.command = r.command
    /\ s = "probe" => /\ q.probePath = r.probePath /\ q.probePort = r.probePort
                      /\ q.probeScheme = r.probeScheme /\ q.probeNumbers = r.probeNumbers
    /\ s = "dns" => q.servers = r.servers /\ q.searches = r.searches /\ q.options = r.options

(* The clauses of InOrder, by the stage that is answerable for them.       *)
HeadInOrder(b) ==
    /\ b.toolName.text \in ToolNames
    /\ b.description.text \notin Over200 /\ b.clientToken.text \notin Over64
    /\ b.defaultTimeout.text \in Timeouts \cup {""}

NetworkInOrder(b) ==
    \/ UpperCase[b.mode.text] \in {"", "VPC"}
       /\ NoneBlank(b.subnetIds) /\ NoneBlank(b.securityGroupIds)
    \/ UpperCase[b.mode.text] \in {"PUBLIC", "SANDBOX"}
       /\ b.subnetIds = <<>> /\ b.securityGroupIds = <<>>

ContainerInOrder(b) ==
    ~IsBlank(b.image) /\ LowerCase[b.registryType.text] \in {"", "enterprise", "personal"}

\* zero stands for the default
AllowedPort(p) == p \in 0 .. 65535

ProbeInOrder(b) ==
    /\ b.probePath.text \in Absolute \cup {""} /\ AllowedPort(b.probePort)
    /\ UpperCase[b.probeScheme.text] \in {"", "HTTP", "HTTPS"}
    /\ \A i \in 1 .. 5 : b.probeNumbers[i] >= 0

DNSInOrder(b) ==
    /\ NoneBlank(b.servers) /\ NoneBlank(b.searches) /\ NoneBlank(b.options)
    /\ \A i \in DOMAIN b.servers : b.servers[i].text \in Addresses

MountInOrder(m) ==
    /\ Padded("") \notin {m.name, m.endpoint, m.bucketName, m.bucketPath, m.mountPath}
    /\ {m.bucketPath.text, m.mountPath.text} \subseteq Absolute \cup {""}

\* one element of a walked list, and two of them
ElementInOrder(list, e) ==
    /\ list # "mounts" => ~IsBlank(e.name)
    /\ list = "ports" => UpperCase[e.protocol.text] = "TCP" /\ validatePort(e.port)
    /\ list = "mounts" => MountInOrder(e)

Clash(list, e, f) ==
    \/ list # "mounts" /\ e.name.text = f.name.text
    \/ list = "ports" /\ e.port = f.port
    \/ list = "mounts" /\ (MountName(e) = MountName(f) \/ MountedAt(e) = MountedAt(f))

ListInOrder(list, s) ==
    /\ \A i \in DOMAIN s : ElementInOrder(list, s[i])
    /\ \A i, j \in DOMAIN s : i # j => ~Clash(list, s[i], s[j])

Obeys(s, b) ==
    /\ s = "head" => HeadInOrder(b)
    /\ s = "network" => NetworkInOrder(b)
    /\ s = "container" => ContainerInOrder(b)
    /\ s \in WalkedLists => ListInOrder(s, b[s])
    /\ s = "command" => NoneBlank(b.command)
    /\ s = "probe" => ProbeInOrder(b)
    /\ s = "dns" => DNSInOrder(b)

Trimmed(x) == TrimSpace(x) = x
Full(x) == Trimmed(x) /\ ~IsBlank(x)
AllTrimmed(list) == \A i \in DOMAIN list : Trimmed(list[i])

\* what a stage makes of an element of the list it walks
Element(list, e) ==
    IF list = "ports" THEN [e EXCEPT !.name = TrimSpace(@), !.protocol = Upper(TrimSpace(@))]
    ELSE IF list = "mounts"
    THEN [name       |-> storageValueOrDefault(e.name, Default.mountName),
          endpoint   |-> storageValueOrDefault(e.endpoint, Default.endpoint),
          bucketName |-> storageValueOrDefault(e.bucketName, Default.bucketName),
          bucketPath |-> storageValueOrDefault(e.bucketPath, Default.bucketPath),
          mountPath  |-> storageValueOrDefault(e.mountPath, Default.mountPath),
          readOnly   |-> boolValueOrDefault(e.readOnly)]
    ELSE [e EXCEPT !.name = TrimSpace(@)]

\* its check of what it made
Fine(list, e) ==
    /\ ~IsBlank(e.name)
    /\ list = "ports" => e.protocol.text = "TCP" /\ validatePort(e.port)
    /\ list = "mounts" => /\ ~IsBlank(e.endpoint) /\ ~IsBlank(e.bucketName)
                          /\ e.bucketPath.text \in Absolute /\ e.mountPath.text \in Absolute

(* What a stage leaves: it would not change this once more.                *)
HeadSpelled(r) ==
    /\ Full(r.toolName) /\ Full(r.description) /\ Trimmed(r.clientToken)
    /\ Full(r.defaultTimeout) /\ Full(r.roleArn) /\ r.persistent # "omitted"

NetworkSpelled(r) ==
    /\ Full(r.mode) /\ r.mode.text \in {"VPC", "PUBLIC", "SANDBOX"}
    /\ AllTrimmed(r.subnetIds) /\ AllTrimmed(r.securityGroupIds)
    /\ r.mode.text = "VPC" => r.subnetIds # <<>> /\ r.securityGroupIds # <<>>

ContainerSpelled(r) ==
    /\ Full(r.image) /\ Full(r.registryType) /\ Full(r.cpu) /\ Full(r.memory)
    /\ r.registryType.text \in {"enterprise", "personal"}

ProbeSpelled(r) ==
    /\ Full(r.probePath) /\ r.probePort # 0
    /\ Full(r.probeScheme) /\ r.probeScheme.text \in {"HTTP", "HTTPS"}
    /\ \A i \in 1 .. 5 : r.probeNumbers[i] # 0

ListSpelled(s, list) == \A i \in DOMAIN list : Element(s, list[i]) = list[i]

Spelled(s, r) ==
    /\ s = "head" => HeadSpelled(r)
    /\ s = "network" => NetworkSpelled(r)
    /\ s = "container" => ContainerSpelled(r)
    /\ s \in WalkedLists => ListSpelled(s, r[s])
    /\ s = "ports" => r.ports # <<>>
    /\ s = "command" => r.command # <<>> /\ AllTrimmed(r.command)
    /\ s = "probe" => ProbeSpelled(r)
    /\ s = "dns" => AllTrimmed(r.servers) /\ AllTrimmed(r.searches) /\ AllTrimmed(r.options)

Settled(s, r) == Obeys(s, r) /\ Spelled(s, r)

\* what a loop starts from
Given(list) == IF list = "ports" /\ body.ports = <<>> THEN <<DefaultPort>> ELSE body[list]

(* Inside a loop: what was walked is what is sent for the elements given,  *)
(* what was not is as given, and seen holds the keys of the former.        *)
Looping(list) ==
    /\ Len(req[list]) = Len(Given(list))
    /\ \A i \in 1 .. Len(req[list]) :
          req[list][i] = IF i < index THEN Element(list, Given(list)[i]) ELSE Given(list)[i]
    /\ \A i \in 1 .. index - 1 : Fine(list, req[list][i])
    /\ \A k \in seen : \E i \in 1 .. index - 1 : k \in Keys(list, req[list][i])

\* or the default port is still to be filled in
HalfWay(list) ==
    \/ list = "ports" /\ body.ports = <<>> /\ req.ports = <<>> /\ index = 1 /\ seen = {}
    \/ Looping(list)

(* Inductive: the stages that ran found their clauses obeyed and left what *)
(* they would not change again, those to come still see the body.          *)
Rules ==
    /\ \A s \in Parts \ {"command"} :
          Rank[s] > Rank[stage] \/ (s = stage /\ s \notin WalkedLists) => Same(s, req, body)
    /\ Rank[stage] <= Rank["command"] /\ body.command # <<>> => req.command = body.command
    /\ \A s \in Parts : Rank[s] < Rank[stage] => Obeys(s, body) /\ Settled(s, req)
    /\ stage \in WalkedLists => HalfWay(stage)
    /\ verdict = "refused" => stage = "resolve" \/ ~InOrder(body)
    /\ round = 2 => req = body /\ \A s \in Parts : Settled(s, body)

(* A stage without a loop: it proceeds if its clauses are obeyed and       *)
(* refuses if not, touches its own fields only, and these just once.       *)
Decides(s) ==
    /\ stage = s
    /\ \/ /\ Obeys(s, req) /\ Proceed(req') /\ Settled(s, req')
          /\ \A t \in Parts \ {s} : Same(t, req', req)
          /\ Settled(s, req) => req' = req
       \/ ~Obeys(s, req) /\ Refuse

(* The rules of InOrder for a list, element by element and pair by pair.   *)
LEMMA ListRules ==
    ASSUME NEW s
    PROVE  /\ \A list \in {"env", "tags"} :
                (ListInOrder(list, s) <=> /\ Distinct(s, TrimmedName)
                                          /\ \A i \in DOMAIN s : ~IsBlank(s[i].name))
           /\ ListInOrder("ports", s) <=>
                /\ Distinct(s, TrimmedName) /\ \A i \in DOMAIN s : ~IsBlank(s[i].name)
                /\ Distinct(s, PortNumber)
                /\ \A i \in DOMAIN s : UpperCase[s[i].protocol.text] = "TCP" /\ validatePort(s[i].port)
           /\ ListInOrder("mounts", s) <=>
                /\ Distinct(s, MountName) /\ Distinct(s, MountedAt)
                /\ \A i \in DOMAIN s : MountInOrder(s[i])
<1>1. \A list \in {"env", "tags"} :
        (ListInOrder(list, s) <=> /\ Distinct(s, TrimmedName)
                                  /\ \A i \in DOMAIN s : ~IsBlank(s[i].name))
  BY DEF ListInOrder, ElementInOrder, Clash, Distinct, TrimmedName
<1>2. ListInOrder("ports", s) <=>
        /\ Distinct(s, TrimmedName) /\ \A i \in DOMAIN s : ~IsBlank(s[i].name)
        /\ Distinct(s, PortNumber)
        /\ \A i \in DOMAIN s : UpperCase[s[i].protocol.text] = "TCP" /\ validatePort(s[i].port)
  BY DEF ListInOrder, ElementInOrder, Clash, Distinct, TrimmedName, PortNumber
<1>3. ListInOrder("mounts", s) <=>
        /\ Distinct(s, MountName) /\ Distinct(s, MountedAt)
        /\ \A i \in DOMAIN s : MountInOrder(s[i])
  BY DEF ListInOrder, ElementInOrder, Clash, Distinct
<1> QED BY <1>1, <1>2, <1>3

(* A body is in order if every stage finds its part of it in order.        *)
LEMMA InOrderByParts ==
    ASSUME NEW b
    PROVE  InOrder(b) <=> \A s \in Parts : Obeys(s, b)
<1> DEFINE Ordered(list) == Distinct(list, TrimmedName) /\ \A i \in DOMAIN list : ~IsBlank(list[i].name)
           PortsOrdered == /\ Distinct(b.ports, PortNumber)
                           /\ \A i \in DOMAIN b.ports :
                                 /\ UpperCase[b.ports[i].protocol.text] = "TCP"
                                 /\ validatePort(b.ports[i].port)
           MountsOrdered == /\ Distinct(b.mounts, MountName) /\ Distinct(b.mounts, MountedAt)
                            /\ \A i \in DOMAIN b.mounts : MountInOrder(b.mounts[i])
<1>1. InOrder(b) <=>
        /\ HeadInOrder(b) /\ NetworkInOrder(b) /\ ContainerInOrder(b)
        /\ Ordered(b.env) /\ Ordered(b.tags) /\ Ordered(b.ports) /\ PortsOrdered
        /\ NoneBlank(b.command) /\ ProbeInOrder(b) /\ DNSInOrder(b)
        /\ MountsOrdered
  <2>1. (\A list \in {b.env, b.tags, b.ports} : Ordered(list)) <=>
          Ordered(b.env) /\ Ordered(b.tags) /\ Ordered(b.ports)
    <3> HIDE DEF Ordered
    <3> QED BY Zenon
  <2>2. (\A list \in {b.command, b.servers, b.searches, b.options} : NoneBlank(list)) <=>
          /\ NoneBlank(b.command)
          /\ NoneBlank(b.servers) /\ NoneBlank(b.searches) /\ NoneBlank(b.options)
    BY Zenon
  <2>3. InOrder(b) <=>
          /\ HeadInOrder(b) /\ NetworkInOrder(b) /\ ContainerInOrder(b)
          /\ \A list \in {b.env, b.tags, b.ports} : Ordered(list)
          /\ PortsOrdered
          /\ \A list \in {b.command, b.servers, b.searches, b.options} : NoneBlank(list)
          /\ \A i \in DOMAIN b.servers : b.servers[i].text \in Addresses
          /\ ProbeInOrder(b) /\ MountsOrdered
    BY DEF InOrder, HeadInOrder, NetworkInOrder, ContainerInOrder,
           ProbeInOrder, MountInOrder, validatePort, AllowedPort
  <2> HIDE DEF Ordered, PortsOrdered, MountsOrdered
  <2> QED BY <2>1, <2>2, <2>3 DEF DNSInOrder
<1>2. /\ ListInOrder("env", b.env) <=> Ordered(b.env)
      /\ ListInOrder("tags", b.tags) <=> Ordered(b.tags)
      /\ ListInOrder("ports", b.ports) <=> Ordered(b.ports) /\ PortsOrdered
      /\ ListInOrder("mounts", b.mounts) <=> MountsOrdered
  <2>1. ListInOrder("env", b.env) <=> Ordered(b.env)
    BY ListRules
  <2>2. ListInOrder("tags", b.tags) <=> Ordered(b.tags)
    BY ListRules
  <2>3. ListInOrder("ports", b.ports) <=> Ordered(b.ports) /\ PortsOrdered
    BY ListRules
  <2>4. ListInOrder("mounts", b.mounts) <=> MountsOrdered
    BY ListRules
  <2> QED BY <2>1, <2>2, <2>3, <2>4
<1> HIDE DEF Ordered, PortsOrdered, MountsOrdered
<1>3. (\A s \in Parts : Obeys(s, b)) <=>
        /\ Obeys("head", b) /\ Obeys("network", b) /\ Obeys("container", b)
        /\ Obeys("env", b) /\ Obeys("ports", b) /\ Obeys("command", b) /\ Obeys("probe", b)
        /\ Obeys("dns", b) /\ Obeys("tags", b) /\ Obeys("mounts", b)
  BY DEF Parts
<1> QED BY <1>1, <1>2, <1>3 DEF Obeys, WalkedLists

(* A stage looks at no field but those it replaces.                        *)
LEMMA Frame ==
    ASSUME NEW s \in Parts, NEW q, NEW r, Same(s, q, r)
    PROVE  (Obeys(s, q) <=> Obeys(s, r)) /\ (Settled(s, q) <=> Settled(s, r))
<1> USE DEF Same, Obeys, Settled, Spelled, WalkedLists
<1>1. CASE s = "head"
  BY <1>1 DEF HeadInOrder, HeadSpelled
<1>2. CASE s = "network"
  BY <1>2 DEF NetworkInOrder, NetworkSpelled
<1>3. CASE s = "container"
  BY <1>3 DEF ContainerInOrder, ContainerSpelled
<1>4. CASE s \in {"env", "tags", "ports", "command", "mounts"}
  BY <1>4
<1>5. CASE s = "probe"
  <2>1. /\ q.probePath = r.probePath /\ q.probePort = r.probePort
        /\ q.probeScheme = r.probeScheme /\ q.probeNumbers = r.probeNumbers
    BY <1>5
  <2>2. ProbeInOrder(q) <=> ProbeInOrder(r)
    BY <2>1 DEF ProbeInOrder
  <2>3. ProbeSpelled(q) <=> ProbeSpelled(r)
    BY <2>1 DEF ProbeSpelled
  <2> QED BY <1>5, <2>2, <2>3
<1>6. CASE s = "dns"
  BY <1>6 DEF DNSInOrder
<1> QED BY <1>1, <1>2, <1>3, <1>4, <1>5, <1>6 DEF Parts

--------------------------------------------------------------------------------
(* What the helpers do to a text: its defaulted form is full, and a form   *)
(* that is full or trimmed already is left as it is.                       *)
LEMMA TrimForms ==
    /\ \A x \in Raw : TrimSpace(x).text = x.text
    /\ \A x \in Raw : Trimmed(TrimSpace(x))
    /\ \A x \in Raw : Trimmed(x) => TrimSpace(x) = x
BY DEF Raw, Trimmed, TrimSpace, Plain

(* A text of the configuration needs no trimming.                          *)
LEMMA PlainForms == \A d \in Text : Plain(d).text = d /\ d # "" /\ Full(Plain(d))
BY RawTextAssumption DEF Full, Trimmed, TrimSpace, Plain, IsBlank

(* A default takes the place of a blank, and of nothing else.              *)
LEMMA DefaultForms ==
    /\ \A x \in Raw : \A d \in Text : Full(OrDefault(x, d))
    /\ \A x \in Raw : \A d \in Text : Full(x) => OrDefault(x, d) = x
    /\ \A x \in Raw : \A d \in Text : OrDefault(x, d).text = IF x.text = "" THEN d ELSE x.text
<1>1. \A x \in Raw : \A d \in Text : Full(OrDefault(x, d))
  BY TrimForms, PlainForms DEF OrDefault, Full, IsBlank
<1>2. \A x \in Raw : \A d \in Text : Full(x) => OrDefault(x, d) = x
  BY DEF OrDefault, Full, Trimmed
<1>3. \A x \in Raw : \A d \in Text : OrDefault(x, d).text = IF x.text = "" THEN d ELSE x.text
  BY TrimForms, PlainForms DEF OrDefault, IsBlank
<1> QED BY <1>1, <1>2, <1>3

(* In a mount it takes the place of "" only: blanks stay blank.            *)
LEMMA StorageForms ==
    /\ \A x \in Raw : \A d \in Text : Trimmed(storageValueOrDefault(x, d))
    /\ \A x \in Raw : \A d \in Text : IsBlank(storageValueOrDefault(x, d)) <=> x = Padded("")
    /\ \A x \in Raw : \A d \in Text :
          storageValueOrDefault(x, d).text = IF x = Omitted THEN d ELSE x.text
    /\ \A x \in Raw : \A d \in Text : Full(x) => storageValueOrDefault(x, d) = x
<1>1. Omitted.text = "" /\ Padded("").text = "" /\ Omitted # Padded("")
  BY DEF Plain, Padded, Omitted
<1>2. \A x \in Raw : x.text = "" => x = Omitted \/ x = Padded("")
  <2> SUFFICES ASSUME NEW x \in Raw, x.text = "" PROVE x = Omitted \/ x = Padded("")
    OBVIOUS
  <2> QED BY DEF Raw, Omitted, Padded, Plain
<1>3. \A x \in Raw : \A d \in Text : Trimmed(storageValueOrDefault(x, d))
  BY TrimForms, PlainForms DEF storageValueOrDefault, Full
<1>4. \A x \in Raw : \A d \in Text :
        storageValueOrDefault(x, d).text = IF x = Omitted THEN d ELSE x.text
  BY TrimForms, PlainForms DEF storageValueOrDefault
<1>5. \A x \in Raw : \A d \in Text : IsBlank(storageValueOrDefault(x, d)) <=> x = Padded("")
  BY <1>1, <1>2, <1>4, PlainForms DEF IsBlank
<1>6. \A x \in Raw : \A d \in Text : Full(x) => storageValueOrDefault(x, d) = x
  BY <1>1 DEF storageValueOrDefault, Full, Trimmed, IsBlank
<1> QED BY <1>3, <1>4, <1>5, <1>6

(* Capitals and small letters; what is in its case already stays.          *)
LEMMA CaseForms ==
    /\ \A x \in Raw : Upper(TrimSpace(x)) \in Raw /\ Lower(TrimSpace(x)) \in Raw
    /\ \A x \in Raw : Upper(TrimSpace(x)).text = UpperCase[x.text]
    /\ \A x \in Raw : Lower(TrimSpace(x)).text = LowerCase[x.text]
    /\ \A x \in Raw : Trimmed(x) /\ UpperCase[x.text] = x.text => Upper(TrimSpace(x)) = x
    /\ \A x \in Raw : Trimmed(x) /\ LowerCase[x.text] = x.text => Lower(TrimSpace(x)) = x
BY ToolRequestAssumption DEF Raw, Upper, Lower, Trimmed, TrimSpace, Plain

(* A list is trimmed text by text.                                         *)
LEMMA ListForms ==
    ASSUME NEW list \in Seq(Raw)
    PROVE  /\ AllTrimmed(TrimAll(list))
           /\ NoneBlank(TrimAll(list)) <=> NoneBlank(list)
           /\ AllTrimmed(list) => TrimAll(list) = list
           /\ TrimAll(list) # <<>> <=> list # <<>>
           /\ \A i \in DOMAIN list : TrimAll(list)[i].text = list[i].text
           /\ DOMAIN TrimAll(list) = DOMAIN list
<1>1. DOMAIN TrimAll(list) = DOMAIN list /\ DOMAIN list = 1 .. Len(list) /\ Len(list) \in Nat
  BY DEF TrimAll
<1>2. \A i \in DOMAIN list : TrimAll(list)[i] = Plain(list[i].text)
  BY DEF TrimAll, TrimSpace
<1>3. \A i \in DOMAIN list : TrimAll(list)[i].text = list[i].text
  <2>1. \A t : Plain(t).text = t
    BY DEF Plain
  <2> QED BY <1>2, <2>1
<1>4. AllTrimmed(TrimAll(list))
  BY <1>1, <1>2, <1>3 DEF AllTrimmed, Trimmed, TrimSpace
<1>5. NoneBlank(TrimAll(list)) <=> NoneBlank(list)
  BY <1>1, <1>3 DEF NoneBlank, IsBlank
<1>6. AllTrimmed(list) => TrimAll(list) = list
  <2>1. list = [i \in DOMAIN list |-> list[i]]
    OBVIOUS
  <2> QED BY <2>1 DEF AllTrimmed, Trimmed, TrimAll
<1>7. TrimAll(list) # <<>> <=> list # <<>>
  <2>1. TrimAll(list) \in Seq(Raw)
    BY ListsAreTexts
  <2> QED BY <1>1, <2>1
<1> QED BY <1>1, <1>3, <1>4, <1>5, <1>6, <1>7

(* The probe's port: zero is the default, and the default is a port.       *)
LEMMA PortForms ==
    ASSUME NEW p \in Int, NEW n \in Int, p = 0 => n = DefaultProbePort, p # 0 => n = p
    PROVE  /\ n # 0
           /\ validatePort(n) => AllowedPort(n)
           /\ validatePort(n) <=> AllowedPort(p)
<1>1. n # 0
  BY DEF DefaultProbePort
<1>2. validatePort(n) => AllowedPort(p)
  BY DEF DefaultProbePort, validatePort, AllowedPort
<1>3. validatePort(n) => AllowedPort(n)
  BY DEF validatePort, AllowedPort
<1>4. AllowedPort(p) => validatePort(n)
  BY DEF DefaultProbePort, validatePort, AllowedPort
<1> QED BY <1>1, <1>2, <1>3, <1>4, Zenon

(* The stages without a loop, one by one.                                  *)
LEMMA HeadDecides == TypeOK /\ buildHead => Decides("head")
<1> SUFFICES ASSUME TypeOK, buildHead PROVE Decides("head")
  OBVIOUS
<1> DEFINE new == [req EXCEPT !.toolName = TrimSpace(@),
                              !.description = OrDefault(@, Default.description),
                              !.clientToken = TrimSpace(@),
                              !.defaultTimeout = OrDefault(@, Default.defaultTimeout),
                              !.roleArn = OrDefault(@, Default.roleArn),
                              !.persistent = boolValueOrDefault(@)]
           ok == /\ new.toolName.text \in ToolNames
                 /\ new.description.text \notin Over200
                 /\ new.clientToken.text \notin Over64
                 /\ new.defaultTimeout.text \in Timeouts
<1>1. /\ Default.description \in Text /\ Default.defaultTimeout \in Text /\ Default.roleArn \in Text
  BY DefaultsAreTexts DEF Default
<1>2. /\ req \in RequestType
      /\ req.toolName \in Raw /\ req.description \in Raw /\ req.clientToken \in Raw
      /\ req.defaultTimeout \in Raw /\ req.roleArn \in Raw
  BY DEF TypeOK, RequestType
<1>3. /\ new.toolName = TrimSpace(req.toolName)
      /\ new.description = OrDefault(req.description, Default.description)
      /\ new.clientToken = TrimSpace(req.clientToken)
      /\ new.defaultTimeout = OrDefault(req.defaultTimeout, Default.defaultTimeout)
      /\ new.roleArn = OrDefault(req.roleArn, Default.roleArn)
      /\ new.persistent = boolValueOrDefault(req.persistent)
  BY <1>2 DEF RequestType
<1>4. \A t \in Parts \ {"head"} : Same(t, new, req)
  BY <1>2 DEF RequestType, Same, Parts, WalkedLists
<1> HIDE DEF new
<1>5. ok <=> HeadInOrder(req)
  <2>1. new.toolName.text = req.toolName.text /\ new.clientToken.text = req.clientToken.text
    BY <1>2, <1>3, TrimForms
  <2>2. new.description.text = IF req.description.text = "" THEN Default.description
                                                            ELSE req.description.text
    <3>1. OrDefault(req.description, Default.description).text =
            IF req.description.text = "" THEN Default.description ELSE req.description.text
      BY <1>1, <1>2, DefaultForms
    <3> QED BY <1>3, <3>1
  <2>3. new.defaultTimeout.text = IF req.defaultTimeout.text = "" THEN Default.defaultTimeout
                                                                  ELSE req.defaultTimeout.text
    <3>1. OrDefault(req.defaultTimeout, Default.defaultTimeout).text =
            IF req.defaultTimeout.text = "" THEN Default.defaultTimeout
                                            ELSE req.defaultTimeout.text
      BY <1>1, <1>2, DefaultForms
    <3> QED BY <1>3, <3>1
  <2> QED BY <2>1, <2>2, <2>3, DefaultsAssumption DEF HeadInOrder
<1>6. ok => HeadSpelled(new) /\ HeadInOrder(new)
  <2>1. /\ Trimmed(new.toolName) /\ Full(new.description) /\ Trimmed(new.clientToken)
        /\ Full(new.defaultTimeout) /\ Full(new.roleArn) /\ new.persistent # "omitted"
    BY <1>1, <1>2, <1>3, TrimForms, DefaultForms DEF boolValueOrDefault
  <2> QED BY <2>1, DefaultsAssumption DEF HeadSpelled, HeadInOrder, Full, IsBlank
<1>7. HeadSpelled(req) => new = req
  <2>1. HeadSpelled(req) => Same("head", new, req)
    BY <1>1, <1>2, <1>3, TrimForms, DefaultForms
       DEF HeadSpelled, boolValueOrDefault, Full, Same, WalkedLists
  <2> QED BY <1>2, <1>3, <2>1 DEF new, RequestType, Same, WalkedLists
<1>8. (ok /\ Proceed(new)) \/ (~ok /\ Refuse)
  BY DEF buildHead, Check, new
<1>9. stage = "head"
  BY DEF buildHead, At
<1> HIDE DEF ok
<1>10. Proceed(new) => req' = new
  BY DEF Proceed
<1> QED BY <1>4, <1>5, <1>6, <1>7, <1>8, <1>9, <1>10 DEF Decides, Settled, Obeys, Spelled, WalkedLists

LEMMA ContainerDecides == TypeOK /\ buildContainer => Decides("container")
<1> SUFFICES ASSUME TypeOK, buildContainer PROVE Decides("container")
  OBVIOUS
<1> DEFINE registry == Lower(TrimSpace(req.registryType))
           new == [req EXCEPT !.image = TrimSpace(@),
                              !.registryType = OrDefault(Lower(TrimSpace(@)), Default.registryType),
                              !.cpu = OrDefault(@, Default.cpu),
                              !.memory = OrDefault(@, Default.memory)]
           ok == ~IsBlank(new.image) /\ new.registryType.text \in {"enterprise", "personal"}
<1>1. /\ Default.registryType \in Text /\ Default.cpu \in Text /\ Default.memory \in Text
      /\ Default.registryType = "enterprise"
  BY DefaultsAreTexts DEF Default
<1>2. /\ req \in RequestType
      /\ req.image \in Raw /\ req.registryType \in Raw /\ req.cpu \in Raw /\ req.memory \in Raw
  BY DEF TypeOK, RequestType
<1>3. /\ new.image = TrimSpace(req.image)
      /\ new.registryType = OrDefault(registry, Default.registryType)
      /\ new.cpu = OrDefault(req.cpu, Default.cpu)
      /\ new.memory = OrDefault(req.memory, Default.memory)
  BY <1>2 DEF RequestType
<1>4. \A t \in Parts \ {"container"} : Same(t, new, req)
  BY <1>2 DEF RequestType, Same, Parts, WalkedLists
<1>5. (ok /\ Proceed(new)) \/ (~ok /\ Refuse)
  BY DEF buildContainer, Check
<1> HIDE DEF new
<1>6. registry \in Raw /\ registry.text = LowerCase[req.registryType.text]
  BY <1>2, CaseForms
<1> HIDE DEF registry
<1>7. new.image.text = req.image.text /\ Trimmed(new.image)
  BY <1>2, <1>3, TrimForms
<1>8. new.registryType.text = IF LowerCase[req.registryType.text] = "" THEN "enterprise"
                              ELSE LowerCase[req.registryType.text]
  <2>1. OrDefault(registry, Default.registryType).text =
          IF registry.text = "" THEN Default.registryType ELSE registry.text
    BY <1>1, <1>6, DefaultForms
  <2> QED BY <1>1, <1>3, <1>6, <2>1
<1>9. ok <=> ContainerInOrder(req)
  BY <1>7, <1>8 DEF ContainerInOrder, IsBlank
<1>10. Full(new.registryType) /\ Full(new.cpu) /\ Full(new.memory)
  BY <1>1, <1>2, <1>3, <1>6, DefaultForms
<1>11. ok => ContainerSpelled(new) /\ ContainerInOrder(new)
  BY <1>7, <1>10, DefaultsAssumption DEF ContainerSpelled, ContainerInOrder, Full
<1>12. ContainerSpelled(req) => new = req
  <2> SUFFICES ASSUME ContainerSpelled(req) PROVE new = req
    OBVIOUS
  <2>1. registry = req.registryType
    BY <1>2, CaseForms, DefaultsAssumption DEF ContainerSpelled, Full, registry
  <2>2. /\ OrDefault(registry, Default.registryType) = registry
        /\ OrDefault(req.cpu, Default.cpu) = req.cpu
        /\ OrDefault(req.memory, Default.memory) = req.memory
    BY <1>1, <1>2, <2>1, DefaultForms DEF ContainerSpelled
  <2>3. TrimSpace(req.image) = req.image
    BY <1>2, TrimForms DEF ContainerSpelled, Full
  <2> QED BY <1>2, <2>1, <2>2, <2>3 DEF new, registry, RequestType
<1>13. stage = "container"
  BY DEF buildContainer, At
<1> HIDE DEF ok
<1>14. Proceed(new) => req' = new
  BY DEF Proceed
<1> QED BY <1>4, <1>5, <1>9, <1>11, <1>12, <1>13, <1>14 DEF Decides, Settled, Obeys, Spelled, WalkedLists

LEMMA CommandDecides == TypeOK /\ req.command # <<>> /\ buildCommand => Decides("command")
<1> SUFFICES ASSUME TypeOK, req.command # <<>>, buildCommand PROVE Decides("command")
  OBVIOUS
<1> DEFINE new == [req EXCEPT !.command = TrimAll(@)]
<1>1. req \in RequestType /\ req.command \in Seq(Raw) /\ new.command = TrimAll(req.command)
  BY DEF TypeOK, RequestType
<1>2. \A t \in Parts \ {"command"} : Same(t, new, req)
  BY <1>1 DEF RequestType, Same, Parts, WalkedLists
<1>3. /\ (NoneBlank(req.command) /\ Proceed(new)) \/ (~NoneBlank(req.command) /\ Refuse)
      /\ stage = "command"
  BY DEF buildCommand, Check, At
<1>4. /\ NoneBlank(TrimAll(req.command)) <=> NoneBlank(req.command)
      /\ AllTrimmed(TrimAll(req.command)) /\ TrimAll(req.command) # <<>>
      /\ AllTrimmed(req.command) => TrimAll(req.command) = req.command
  BY <1>1, ListForms
<1>5. new.command = req.command => new = req
  BY <1>1 DEF RequestType
<1>6. Proceed(new) => req' = new
  BY DEF Proceed
<1> HIDE DEF new
<1> QED BY <1>1, <1>2, <1>3, <1>4, <1>5, <1>6 DEF Decides, Settled, Obeys, Spelled, WalkedLists

LEMMA DNSDecides == TypeOK /\ buildDNS => Decides("dns")
<1> SUFFICES ASSUME TypeOK, buildDNS PROVE Decides("dns")
  OBVIOUS
<1> DEFINE new == [req EXCEPT !.servers = TrimAll(@), !.searches = TrimAll(@),
                              !.options = TrimAll(@)]
<1>1. /\ req \in RequestType
      /\ req.servers \in Seq(Raw) /\ req.searches \in Seq(Raw) /\ req.options \in Seq(Raw)
      /\ new.servers = TrimAll(req.servers) /\ new.searches = TrimAll(req.searches)
      /\ new.options = TrimAll(req.options)
  BY DEF TypeOK, RequestType
<1>2. \A t \in Parts \ {"dns"} : Same(t, new, req)
  BY <1>1 DEF RequestType, Same, Parts, WalkedLists
<1>3. /\ (DNSInOrder(req) /\ Proceed(new)) \/ (~DNSInOrder(req) /\ Refuse)
      /\ stage = "dns"
  BY DEF buildDNS, Check, At, DNSInOrder
<1>4. Same("dns", new, req) => new = req
  BY <1>1 DEF RequestType, Same, WalkedLists
<1> HIDE DEF new
<1>5. /\ AllTrimmed(new.servers) /\ AllTrimmed(new.searches) /\ AllTrimmed(new.options)
      /\ AllTrimmed(req.servers) => new.servers = req.servers
      /\ AllTrimmed(req.searches) => new.searches = req.searches
      /\ AllTrimmed(req.options) => new.options = req.options
  BY <1>1, ListForms
<1>6. /\ NoneBlank(new.servers) <=> NoneBlank(req.servers)
      /\ NoneBlank(new.searches) <=> NoneBlank(req.searches)
      /\ NoneBlank(new.options) <=> NoneBlank(req.options)
  BY <1>1, ListForms
<1>7. /\ DOMAIN new.servers = DOMAIN req.servers
      /\ \A i \in DOMAIN req.servers : new.servers[i].text = req.servers[i].text
  BY <1>1, ListForms
<1>8. DNSInOrder(req) => DNSInOrder(new)
  BY <1>6, <1>7 DEF DNSInOrder
<1>9. Proceed(new) => req' = new
  BY DEF Proceed
<1> QED BY <1>2, <1>3, <1>4, <1>5, <1>8, <1>9 DEF Decides, Settled, Obeys, Spelled, WalkedLists, Same

LEMMA NetworkDecides == TypeOK /\ buildNetworkConfiguration => Decides("network")
<1> SUFFICES ASSUME TypeOK, buildNetworkConfiguration PROVE Decides("network")
  OBVIOUS
<1> DEFINE upper   == Upper(TrimSpace(req.mode))
           mode    == OrDefault(upper, Default.mode)
           subnets == ListOrDefault(req.subnetIds, Default.subnetId)
           groups  == ListOrDefault(req.securityGroupIds, Default.securityGroupId)
           plain == [req EXCEPT !.mode = mode]
           vpc == [req EXCEPT !.mode = mode, !.subnetIds = TrimAll(subnets),
                              !.securityGroupIds = TrimAll(groups)]
           asked == UpperCase[req.mode.text]
<1>1. /\ Default.mode \in Text /\ Default.subnetId \in Text /\ Default.securityGroupId \in Text
      /\ Default.mode = "VPC"
  BY DefaultsAreTexts DEF Default
<1>2. /\ req \in RequestType
      /\ req.mode \in Raw /\ req.subnetIds \in Seq(Raw) /\ req.securityGroupIds \in Seq(Raw)
  BY DEF TypeOK, RequestType
<1>3. /\ plain.mode = mode
      /\ plain.subnetIds = req.subnetIds /\ plain.securityGroupIds = req.securityGroupIds
      /\ vpc.mode = mode
      /\ vpc.subnetIds = TrimAll(subnets) /\ vpc.securityGroupIds = TrimAll(groups)
  BY <1>2 DEF RequestType
<1>4. \A t \in Parts \ {"network"} : Same(t, plain, req) /\ Same(t, vpc, req)
  BY <1>2 DEF RequestType, Same, Parts, WalkedLists
<1>5. /\ plain.mode = req.mode => plain = req
      /\ Same("network", vpc, req) => vpc = req
  BY <1>2 DEF RequestType, Same, WalkedLists
<1>6. /\ stage = "network"
      /\ \/ /\ mode.text = "VPC"
            /\ \/ (NoneBlank(subnets) /\ NoneBlank(groups)) /\ Proceed(vpc)
               \/ ~(NoneBlank(subnets) /\ NoneBlank(groups)) /\ Refuse
         \/ /\ mode.text # "VPC"
            /\ \/ /\ mode.text \in {"PUBLIC", "SANDBOX"}
                  /\ req.subnetIds = <<>> /\ req.securityGroupIds = <<>>
                  /\ Proceed(plain)
               \/ /\ ~(/\ mode.text \in {"PUBLIC", "SANDBOX"}
                       /\ req.subnetIds = <<>> /\ req.securityGroupIds = <<>>)
                  /\ Refuse
  BY DEF buildNetworkConfiguration, Check, At
<1> HIDE DEF plain, vpc
<1>7. upper \in Raw /\ upper.text = asked
  BY <1>2, CaseForms
<1>8. Full(mode) /\ mode.text = IF asked = "" THEN "VPC" ELSE asked
  <2> HIDE DEF upper
  <2>1. OrDefault(upper, Default.mode).text = IF upper.text = "" THEN Default.mode ELSE upper.text
    BY <1>1, <1>7, DefaultForms
  <2>2. Full(OrDefault(upper, Default.mode))
    BY <1>1, <1>7, DefaultForms
  <2> QED BY <1>1, <1>7, <2>1, <2>2
<1>9. /\ subnets \in Seq(Raw) /\ subnets # <<>> /\ groups \in Seq(Raw) /\ groups # <<>>
      /\ NoneBlank(subnets) <=> NoneBlank(req.subnetIds)
      /\ NoneBlank(groups) <=> NoneBlank(req.securityGroupIds)
  <2>1. ASSUME NEW s \in Seq(Raw), NEW d \in Text
        PROVE  /\ ListOrDefault(s, d) \in Seq(Raw) /\ ListOrDefault(s, d) # <<>>
               /\ NoneBlank(ListOrDefault(s, d)) <=> NoneBlank(s)
    <3>1. <<Plain(d)>> \in Seq(Raw) /\ <<Plain(d)>> # <<>>
      BY PlainIsText
    <3>3. NoneBlank(<<Plain(d)>>)
      <4>1. ~IsBlank(Plain(d))
        BY PlainForms DEF Full
      <4> QED BY <4>1 DEF NoneBlank
    <3>2. NoneBlank(<<>>)
      BY DEF NoneBlank
    <3> QED BY <3>1, <3>2, <3>3 DEF ListOrDefault
  <2> QED BY <1>1, <1>2, <2>1
<1>10. /\ req.mode.text \in {"VPC", "PUBLIC", "SANDBOX"} /\ Full(req.mode) => mode = req.mode
       /\ req.subnetIds # <<>> => subnets = req.subnetIds
       /\ req.securityGroupIds # <<>> => groups = req.securityGroupIds
  <2>1. ASSUME req.mode.text \in {"VPC", "PUBLIC", "SANDBOX"}, Full(req.mode) PROVE mode = req.mode
    <3>1. upper = req.mode
      BY <1>2, <2>1, CaseForms, DefaultsAssumption DEF Full
    <3> QED BY <1>1, <1>2, <2>1, <3>1, DefaultForms
  <2> QED BY <2>1 DEF ListOrDefault
<1>11. NetworkSpelled(req) /\ NetworkInOrder(req) =>
         /\ mode = req.mode
         /\ \/ mode.text = "VPC" /\ TrimAll(subnets) = req.subnetIds /\ TrimAll(groups) = req.securityGroupIds
            \/ mode.text # "VPC"
  BY <1>2, <1>9, <1>10, ListForms DEF NetworkSpelled
<1> HIDE DEF mode, subnets, groups, upper
<1>12. CASE mode.text = "VPC"
  <2>1. (NoneBlank(subnets) /\ NoneBlank(groups)) <=> NetworkInOrder(req)
    BY <1>8, <1>9, <1>12 DEF NetworkInOrder
  <2>2. /\ AllTrimmed(TrimAll(subnets)) /\ AllTrimmed(TrimAll(groups))
        /\ TrimAll(subnets) # <<>> /\ TrimAll(groups) # <<>>
        /\ NoneBlank(TrimAll(subnets)) <=> NoneBlank(subnets)
        /\ NoneBlank(TrimAll(groups)) <=> NoneBlank(groups)
    <3>1. subnets \in Seq(Raw) /\ subnets # <<>> /\ groups \in Seq(Raw) /\ groups # <<>>
      BY <1>9
    <3> QED BY <3>1, ListForms
  <2>3. NoneBlank(subnets) /\ NoneBlank(groups) => NetworkSpelled(vpc) /\ NetworkInOrder(vpc)
    BY <1>3, <1>8, <1>12, <2>2, DefaultsAssumption DEF NetworkSpelled, NetworkInOrder
  <2>4. NetworkSpelled(req) /\ NetworkInOrder(req) => vpc = req
    BY <1>3, <1>5, <1>11, <1>12 DEF Same, WalkedLists
  <2>5. Proceed(vpc) => req' = vpc
    BY DEF Proceed
  <2> QED BY <1>4, <1>6, <1>12, <2>1, <2>3, <2>4, <2>5 DEF Decides, Settled, Obeys, Spelled, WalkedLists
<1>13. CASE mode.text # "VPC"
  <2>1. NetworkInOrder(req) <=> /\ mode.text \in {"PUBLIC", "SANDBOX"}
                                /\ req.subnetIds = <<>> /\ req.securityGroupIds = <<>>
    BY <1>8, <1>13 DEF NetworkInOrder
  <2>2. NetworkInOrder(req) => NetworkSpelled(plain) /\ NetworkInOrder(plain)
    <3> SUFFICES ASSUME NetworkInOrder(req) PROVE NetworkSpelled(plain) /\ NetworkInOrder(plain)
      OBVIOUS
    <3>1. /\ plain.mode = mode /\ mode.text \in {"PUBLIC", "SANDBOX"}
          /\ plain.subnetIds = <<>> /\ plain.securityGroupIds = <<>>
      BY <1>3, <2>1
    <3>2. UpperCase[mode.text] \in {"PUBLIC", "SANDBOX"}
      BY <3>1, DefaultsAssumption
    <3>3. AllTrimmed(<<>>)
      BY DEF AllTrimmed
    <3> QED BY <1>8, <3>1, <3>2, <3>3 DEF NetworkSpelled, NetworkInOrder
  <2>3. NetworkSpelled(req) /\ NetworkInOrder(req) => plain = req
    BY <1>3, <1>5, <1>11
  <2>4. Proceed(plain) => req' = plain
    BY DEF Proceed
  <2> QED BY <1>4, <1>6, <1>13, <2>1, <2>2, <2>3, <2>4 DEF Decides, Settled, Obeys, Spelled, WalkedLists
<1> QED BY <1>12, <1>13

LEMMA ProbeDecides == TypeOK /\ buildProbe => Decides("probe")
<1> SUFFICES ASSUME TypeOK, buildProbe PROVE Decides("probe")
  OBVIOUS
<1> DEFINE upper == Upper(TrimSpace(req.probeScheme))
           new == [req EXCEPT !.probePath = OrDefault(@, Default.probePath),
                              !.probePort = IF @ = 0 THEN DefaultProbePort ELSE @,
                              !.probeScheme = OrDefault(Upper(TrimSpace(@)), Default.probeScheme),
                              !.probeNumbers = [i \in 1 .. 5 |->
                                  positiveOrDefault(@[i], DefaultProbeNumbers[i])]]
           ok == /\ new.probePath.text \in Absolute
                 /\ validatePort(new.probePort)
                 /\ new.probeScheme.text \in {"HTTP", "HTTPS"}
                 /\ \A i \in 1 .. 5 : new.probeNumbers[i] > 0
<1>1. /\ Default.probePath \in Text /\ Default.probeScheme \in Text
      /\ Default.probeScheme = "HTTP"
  BY DefaultsAreTexts DEF Default
<1>2. /\ req \in RequestType
      /\ req.probePath \in Raw /\ req.probeScheme \in Raw /\ req.probePort \in Int
      /\ req.probeNumbers \in [1 .. 5 -> Int]
  BY DEF TypeOK, RequestType
<1>3. /\ new.probePath = OrDefault(req.probePath, Default.probePath)
      /\ new.probePort = IF req.probePort = 0 THEN DefaultProbePort ELSE req.probePort
      /\ new.probeScheme = OrDefault(upper, Default.probeScheme)
      /\ new.probeNumbers = [i \in 1 .. 5 |->
              positiveOrDefault(req.probeNumbers[i], DefaultProbeNumbers[i])]
  BY <1>2 DEF RequestType
<1>4. \A t \in Parts \ {"probe"} : Same(t, new, req)
  BY <1>2 DEF RequestType, Same, Parts, WalkedLists
<1>5. (ok /\ Proceed(new)) \/ (~ok /\ Refuse)
  BY DEF buildProbe, Check
<1>6. Same("probe", new, req) => new = req
  <2>1. Same("probe", new, req) =>
          /\ new.probePath = req.probePath /\ new.probePort = req.probePort
          /\ new.probeScheme = req.probeScheme /\ new.probeNumbers = req.probeNumbers
    BY DEF Same
  <2>2. /\ new.probePath = req.probePath /\ new.probePort = req.probePort
        /\ new.probeScheme = req.probeScheme /\ new.probeNumbers = req.probeNumbers
        => new = req
    BY <1>2 DEF RequestType
  <2> HIDE DEF new
  <2> QED BY <2>1, <2>2
<1> HIDE DEF new
<1>7. upper \in Raw /\ upper.text = UpperCase[req.probeScheme.text]
  BY <1>2, CaseForms
<1> HIDE DEF upper
<1>8. new.probePath.text = IF req.probePath.text = "" THEN Default.probePath ELSE req.probePath.text
  <2>1. OrDefault(req.probePath, Default.probePath).text =
          IF req.probePath.text = "" THEN Default.probePath ELSE req.probePath.text
    BY <1>1, <1>2, DefaultForms
  <2> QED BY <1>3, <2>1
<1>9. new.probeScheme.text = IF UpperCase[req.probeScheme.text] = "" THEN "HTTP"
                             ELSE UpperCase[req.probeScheme.text]
  <2>1. OrDefault(upper, Default.probeScheme).text =
          IF upper.text = "" THEN Default.probeScheme ELSE upper.text
    BY <1>1, <1>7, DefaultForms
  <2> QED BY <1>1, <1>3, <1>7, <2>1
<1>10. /\ new.probePort # 0
       /\ validatePort(new.probePort) => AllowedPort(new.probePort)
       /\ validatePort(new.probePort) <=> AllowedPort(req.probePort)
       /\ req.probePort # 0 => new.probePort = req.probePort
  <2>1. new.probePort \in Int /\ req.probePort \in Int
    BY <1>2, <1>3 DEF DefaultProbePort
  <2>2. /\ req.probePort = 0 => new.probePort = DefaultProbePort
        /\ req.probePort # 0 => new.probePort = req.probePort
    BY <1>3
  <2> QED BY <2>1, <2>2, PortForms
<1>11. \A i \in 1 .. 5 : /\ new.probeNumbers[i] \in Int /\ new.probeNumbers[i] # 0
                         /\ new.probeNumbers[i] > 0 <=> req.probeNumbers[i] >= 0
                         /\ req.probeNumbers[i] # 0 => new.probeNumbers[i] = req.probeNumbers[i]
  <2>1. \A i \in 1 .. 5 : DefaultProbeNumbers[i] \in Int /\ DefaultProbeNumbers[i] > 0
    <3> SUFFICES ASSUME NEW i \in 1 .. 5
                 PROVE  DefaultProbeNumbers[i] \in Int /\ DefaultProbeNumbers[i] > 0
      OBVIOUS
    <3>1. i = 1 \/ i = 2 \/ i = 3 \/ i = 4 \/ i = 5
      OBVIOUS
    <3> QED BY <3>1 DEF DefaultProbeNumbers
  <2> QED BY <1>2, <1>3, <2>1 DEF positiveOrDefault
<1>12. new.probeNumbers \in [1 .. 5 -> Int]
  BY <1>3, <1>11
<1>13. ok <=> ProbeInOrder(req)
  <2>1. new.probePath.text \in Absolute <=> req.probePath.text \in Absolute \cup {""}
    BY <1>8, DefaultsAssumption
  <2>2. new.probeScheme.text \in {"HTTP", "HTTPS"} <=>
          UpperCase[req.probeScheme.text] \in {"", "HTTP", "HTTPS"}
    BY <1>9
  <2>3. (\A i \in 1 .. 5 : new.probeNumbers[i] > 0) <=> \A i \in 1 .. 5 : req.probeNumbers[i] >= 0
    BY <1>11
  <2>4. validatePort(new.probePort) <=> AllowedPort(req.probePort)
    BY <1>10
  <2> QED BY <2>1, <2>2, <2>3, <2>4, Zenon DEF ProbeInOrder
<1>14. Full(new.probePath) /\ Full(new.probeScheme)
  BY <1>1, <1>2, <1>3, <1>7, DefaultForms
<1>15. ok => ProbeSpelled(new) /\ ProbeInOrder(new)
  <2> SUFFICES ASSUME ok PROVE ProbeSpelled(new) /\ ProbeInOrder(new)
    OBVIOUS
  <2>1. AllowedPort(new.probePort)
    BY <1>10
  <2>3. \A i \in 1 .. 5 : new.probeNumbers[i] >= 0 /\ new.probeNumbers[i] # 0
    <3>1. \A i \in 1 .. 5 : new.probeNumbers[i] > 0
      OBVIOUS
    <3> QED BY <1>11, <3>1
  <2>2. UpperCase[new.probeScheme.text] \in {"HTTP", "HTTPS"} /\ new.probePath.text \in Absolute
    BY DefaultsAssumption
  <2>4. new.probePort # 0 /\ new.probeScheme.text \in {"HTTP", "HTTPS"}
    BY <1>10
  <2> HIDE DEF ok
  <2> QED BY <1>14, <2>1, <2>2, <2>3, <2>4 DEF ProbeSpelled, ProbeInOrder
<1>16. ProbeSpelled(req) => new = req
  <2> SUFFICES ASSUME ProbeSpelled(req) PROVE Same("probe", new, req)
    BY <1>6
  <2>1. upper = req.probeScheme
    BY <1>2, CaseForms, DefaultsAssumption DEF ProbeSpelled, Full, upper
  <2>2. /\ OrDefault(upper, Default.probeScheme) = upper
        /\ OrDefault(req.probePath, Default.probePath) = req.probePath
    BY <1>1, <1>2, <2>1, DefaultForms DEF ProbeSpelled
  <2>3. new.probeNumbers = req.probeNumbers
    BY <1>2, <1>11, <1>12 DEF ProbeSpelled
  <2>4. new.probePort = req.probePort
    BY <1>10 DEF ProbeSpelled
  <2> QED BY <1>3, <2>1, <2>2, <2>3, <2>4 DEF Same, WalkedLists
<1>17. stage = "probe"
  BY DEF buildProbe, At
<1> HIDE DEF ok
<1>18. Proceed(new) => req' = new
  BY DEF Proceed
<1> QED BY <1>4, <1>5, <1>13, <1>15, <1>16, <1>17, <1>18 DEF Decides, Settled, Obeys, Spelled, WalkedLists

--------------------------------------------------------------------------------
(* Elements of the walked lists.                                           *)
ElementType == [env |-> PairType, ports |-> PortType, tags |-> PairType, mounts |-> MountType]

(* The elements of the walked lists have their types.                      *)
LEMMA WalkedTypes ==
    ASSUME NEW r \in RequestType, NEW list \in WalkedLists
    PROVE  r[list] \in Seq(ElementType[list])
BY DEF RequestType, ElementType, WalkedLists

(* Environment variables and tags.                                         *)
LEMMA PairElements ==
    ASSUME NEW list \in {"env", "tags"}, NEW e \in PairType
    PROVE  /\ Element(list, e) \in PairType /\ Element(list, e).name = TrimSpace(e.name)
           /\ Fine(list, Element(list, e)) <=> ElementInOrder(list, e)
           /\ ElementInOrder(list, Element(list, e)) <=> ElementInOrder(list, e)
           /\ Element(list, Element(list, e)) = Element(list, e)
<1>1. e.name \in Raw
  BY DEF PairType
<1>2. /\ Element(list, e) = [e EXCEPT !.name = TrimSpace(@)]
      /\ Element(list, Element(list, e)) = [Element(list, e) EXCEPT !.name = TrimSpace(@)]
  BY DEF Element
<1>3. Element(list, e) \in PairType /\ Element(list, e).name = TrimSpace(e.name)
  BY <1>1, <1>2, TrimIsText DEF PairType
<1>4. TrimSpace(e.name).text = e.name.text /\ TrimSpace(TrimSpace(e.name)) = TrimSpace(e.name)
  BY DEF TrimSpace, Plain
<1>5. Element(list, Element(list, e)) = Element(list, e)
  BY <1>2, <1>3, <1>4 DEF PairType
<1> QED BY <1>3, <1>4, <1>5 DEF Fine, ElementInOrder, IsBlank

(* Ports: once checked, an element is sent as it is.                       *)
LEMMA PortElements ==
    ASSUME NEW e \in PortType
    PROVE  /\ Element("ports", e) \in PortType /\ Element("ports", e).name = TrimSpace(e.name)
           /\ Element("ports", e).port = e.port
           /\ Fine("ports", Element("ports", e)) <=> ElementInOrder("ports", e)
           /\ Fine("ports", Element("ports", e)) =>
                 /\ ElementInOrder("ports", Element("ports", e))
                 /\ Element("ports", Element("ports", e)) = Element("ports", e)
<1> DEFINE n == Element("ports", e)
<1>1. e.name \in Raw /\ e.protocol \in Raw
  BY DEF PortType
<1>2. /\ n = [e EXCEPT !.name = TrimSpace(@), !.protocol = Upper(TrimSpace(@))]
      /\ Element("ports", n) = [n EXCEPT !.name = TrimSpace(@), !.protocol = Upper(TrimSpace(@))]
  BY DEF Element
<1> HIDE DEF n
<1>3. /\ n \in PortType /\ n.name = TrimSpace(e.name)
      /\ n.protocol = Upper(TrimSpace(e.protocol)) /\ n.port = e.port
  BY <1>1, <1>2, TrimIsText, CaseForms DEF PortType
<1>4. TrimSpace(e.name).text = e.name.text /\ TrimSpace(TrimSpace(e.name)) = TrimSpace(e.name)
  BY DEF TrimSpace, Plain
<1>5. n.protocol.text = UpperCase[e.protocol.text]
  BY <1>1, <1>3, CaseForms
<1>6. n.protocol.text = "TCP" => /\ UpperCase[n.protocol.text] = "TCP"
                                 /\ Upper(TrimSpace(n.protocol)) = n.protocol
  BY <1>1, <1>3, <1>5, DefaultsAssumption DEF Upper, TrimSpace, Plain
<1>7. n.protocol.text = "TCP" => Element("ports", n) = n
  BY <1>2, <1>3, <1>4, <1>6 DEF PortType
<1>8. Fine("ports", n) <=> ElementInOrder("ports", e)
  BY <1>3, <1>4, <1>5 DEF Fine, ElementInOrder, IsBlank
<1>9. Fine("ports", n) => ElementInOrder("ports", n) /\ Element("ports", n) = n
  BY <1>6, <1>7 DEF Fine, ElementInOrder
<1> QED BY <1>3, <1>8, <1>9 DEF n

(* Mounts: the defaults are put in before the check.                       *)
LEMMA MountElements ==
    ASSUME NEW e \in MountType
    PROVE  /\ Element("mounts", e) \in MountType
           /\ Trimmed(Element("mounts", e).name) /\ Trimmed(Element("mounts", e).mountPath)
           /\ Element("mounts", e).name.text = MountName(e)
           /\ Element("mounts", e).mountPath.text = MountedAt(e)
           /\ Fine("mounts", Element("mounts", e)) <=> ElementInOrder("mounts", e)
           /\ Fine("mounts", Element("mounts", e)) =>
                 /\ ElementInOrder("mounts", Element("mounts", e))
                 /\ Element("mounts", Element("mounts", e)) = Element("mounts", e)
<1> DEFINE n == Element("mounts", e)
<1>1. /\ e.name \in Raw /\ e.endpoint \in Raw /\ e.bucketName \in Raw /\ e.bucketPath \in Raw
      /\ e.mountPath \in Raw /\ e.readOnly \in Bool
  BY DEF MountType
<1>2. /\ Default.mountName \in Text /\ Default.endpoint \in Text /\ Default.bucketName \in Text
      /\ Default.bucketPath \in Text /\ Default.mountPath \in Text
  BY DefaultsAreTexts DEF Default
<1>3. \A m : Element("mounts", m) =
        [name       |-> storageValueOrDefault(m.name, Default.mountName),
         endpoint   |-> storageValueOrDefault(m.endpoint, Default.endpoint),
         bucketName |-> storageValueOrDefault(m.bucketName, Default.bucketName),
         bucketPath |-> storageValueOrDefault(m.bucketPath, Default.bucketPath),
         mountPath  |-> storageValueOrDefault(m.mountPath, Default.mountPath),
         readOnly   |-> boolValueOrDefault(m.readOnly)]
  BY DEF Element
<1> HIDE DEF n
<1>4. /\ n.name = storageValueOrDefault(e.name, Default.mountName)
      /\ n.endpoint = storageValueOrDefault(e.endpoint, Default.endpoint)
      /\ n.bucketName = storageValueOrDefault(e.bucketName, Default.bucketName)
      /\ n.bucketPath = storageValueOrDefault(e.bucketPath, Default.bucketPath)
      /\ n.mountPath = storageValueOrDefault(e.mountPath, Default.mountPath)
      /\ n.readOnly = boolValueOrDefault(e.readOnly)
  BY <1>3 DEF n
<1>5. n \in MountType
  <2>1. /\ storageValueOrDefault(e.name, Default.mountName) \in Raw
        /\ storageValueOrDefault(e.endpoint, Default.endpoint) \in Raw
        /\ storageValueOrDefault(e.bucketName, Default.bucketName) \in Raw
        /\ storageValueOrDefault(e.bucketPath, Default.bucketPath) \in Raw
        /\ storageValueOrDefault(e.mountPath, Default.mountPath) \in Raw
    BY <1>1, <1>2, DefaultedIsText
  <2>2. boolValueOrDefault(e.readOnly) \in Bool
    BY <1>1 DEF boolValueOrDefault, Bool
  <2> QED BY <1>3, <2>1, <2>2 DEF n, MountType
<1>6. /\ Trimmed(n.name) /\ Trimmed(n.endpoint) /\ Trimmed(n.bucketName)
      /\ Trimmed(n.bucketPath) /\ Trimmed(n.mountPath)
  BY <1>1, <1>2, <1>4, StorageForms
<1>7. /\ IsBlank(n.name) <=> e.name = Padded("")
      /\ IsBlank(n.endpoint) <=> e.endpoint = Padded("")
      /\ IsBlank(n.bucketName) <=> e.bucketName = Padded("")
      /\ IsBlank(n.bucketPath) <=> e.bucketPath = Padded("")
      /\ IsBlank(n.mountPath) <=> e.mountPath = Padded("")
  <2>1. /\ IsBlank(storageValueOrDefault(e.name, Default.mountName)) <=> e.name = Padded("")
        /\ IsBlank(storageValueOrDefault(e.endpoint, Default.endpoint)) <=> e.endpoint = Padded("")
    BY <1>1, <1>2, StorageForms
  <2>2. IsBlank(storageValueOrDefault(e.bucketName, Default.bucketName)) <=> e.bucketName = Padded("")
    BY <1>1, <1>2, StorageForms
  <2>3. /\ IsBlank(storageValueOrDefault(e.bucketPath, Default.bucketPath)) <=> e.bucketPath = Padded("")
        /\ IsBlank(storageValueOrDefault(e.mountPath, Default.mountPath)) <=> e.mountPath = Padded("")
    BY <1>1, <1>2, StorageForms
  <2> QED BY <1>4, <2>1, <2>2, <2>3
<1>8. n.name.text = MountName(e) /\ n.mountPath.text = MountedAt(e)
  <2>1. storageValueOrDefault(e.name, Default.mountName).text =
          IF e.name = Omitted THEN Default.mountName ELSE e.name.text
    BY <1>1, <1>2, StorageForms
  <2>2. storageValueOrDefault(e.mountPath, Default.mountPath).text =
          IF e.mountPath = Omitted THEN Default.mountPath ELSE e.mountPath.text
    BY <1>1, <1>2, StorageForms
  <2> QED BY <1>4, <2>1, <2>2 DEF MountName, MountedAt
<1>9. /\ n.bucketPath.text \in Absolute <=>
            e.bucketPath # Padded("") /\ e.bucketPath.text \in Absolute \cup {""}
      /\ n.mountPath.text \in Absolute <=>
            e.mountPath # Padded("") /\ e.mountPath.text \in Absolute \cup {""}
  <2>1. ASSUME NEW x \in Raw, NEW d \in Text, d \in Absolute
        PROVE  storageValueOrDefault(x, d).text \in Absolute <=>
                  x # Padded("") /\ x.text \in Absolute \cup {""}
    <3>1. storageValueOrDefault(x, d).text = IF x = Omitted THEN d ELSE x.text
      BY StorageForms
    <3>2. Omitted.text = "" /\ Padded("").text = "" /\ Omitted # Padded("")
      BY DEF Plain, Padded, Omitted
    <3>3. x.text = "" => x = Omitted \/ x = Padded("")
      BY DEF Raw, Omitted, Padded, Plain
    <3> QED BY <2>1, <3>1, <3>2, <3>3, DefaultsAssumption
  <2> QED BY <1>1, <1>2, <1>4, <2>1, DefaultsAssumption
<1>10. Fine("mounts", n) <=> ElementInOrder("mounts", e)
  <2>1. ElementInOrder("mounts", e) <=>
          /\ e.name # Padded("") /\ e.endpoint # Padded("") /\ e.bucketName # Padded("")
          /\ e.bucketPath # Padded("") /\ e.bucketPath.text \in Absolute \cup {""}
          /\ e.mountPath # Padded("") /\ e.mountPath.text \in Absolute \cup {""}
    BY DEF ElementInOrder, MountInOrder
  <2> QED BY <1>7, <1>9, <2>1 DEF Fine
<1>11. ASSUME Fine("mounts", n)
       PROVE  ElementInOrder("mounts", n) /\ Element("mounts", n) = n
  <2>1. /\ Full(n.name) /\ Full(n.endpoint) /\ Full(n.bucketName) /\ Full(n.bucketPath)
        /\ Full(n.mountPath)
    BY <1>6, <1>11, DefaultsAssumption DEF Fine, Full, IsBlank
  <2>2. /\ n.name \in Raw /\ n.endpoint \in Raw /\ n.bucketName \in Raw /\ n.bucketPath \in Raw
        /\ n.mountPath \in Raw
    BY <1>5 DEF MountType
  <2>3. /\ storageValueOrDefault(n.name, Default.mountName) = n.name
        /\ storageValueOrDefault(n.endpoint, Default.endpoint) = n.endpoint
        /\ storageValueOrDefault(n.bucketName, Default.bucketName) = n.bucketName
        /\ storageValueOrDefault(n.bucketPath, Default.bucketPath) = n.bucketPath
        /\ storageValueOrDefault(n.mountPath, Default.mountPath) = n.mountPath
    BY <1>2, <2>1, <2>2, StorageForms
  <2>4. boolValueOrDefault(n.readOnly) = n.readOnly
    BY <1>4 DEF boolValueOrDefault
  <2>5. Element("mounts", n) = n
    BY <1>3, <1>5, <2>3, <2>4 DEF MountType
  <2>6. \A x \in Raw : Full(x) => x # Padded("")
    <3>1. Padded("").text = ""
      BY DEF Padded
    <3> QED BY <3>1 DEF Full, IsBlank
  <2>7. n.bucketPath.text \in Absolute /\ n.mountPath.text \in Absolute
    BY <1>11 DEF Fine
  <2> QED BY <2>1, <2>2, <2>5, <2>6, <2>7 DEF ElementInOrder, MountInOrder
<1> QED BY <1>5, <1>6, <1>8, <1>10, <1>11 DEF n

(* Two trimmed texts are the same if what they say is.                     *)
LEMMA TrimmedTexts ==
    ASSUME NEW x, NEW y, Trimmed(x), Trimmed(y)
    PROVE  x = y <=> x.text = y.text
BY DEF Trimmed, TrimSpace, Plain

(* Trimming makes two texts equal if what they say is.                     *)
LEMMA TrimmedAlike ==
    ASSUME NEW x, NEW y
    PROVE  TrimSpace(x) = TrimSpace(y) <=> x.text = y.text
<1>1. TrimSpace(x).text = x.text /\ TrimSpace(y).text = y.text
  BY DEF TrimSpace, Plain
<1>2. x.text = y.text => TrimSpace(x) = TrimSpace(y)
  BY DEF TrimSpace
<1> QED BY <1>1, <1>2

(* Sets of one key, and of two of different kinds, have one in common just *)
(* if one of the kinds is the same in both.                                *)
LEMMA OneKey == \A a, b : ({<<"name", a>>} \cap {<<"name", b>>} = {}) <=> a # b
<1> SUFFICES ASSUME NEW a, NEW b PROVE ({<<"name", a>>} \cap {<<"name", b>>} = {}) <=> a # b
  OBVIOUS
<1>1. (<<"name", a>> = <<"name", b>>) <=> a = b
  OBVIOUS
<1>2. ({<<"name", a>>} \cap {<<"name", b>>} = {}) <=> <<"name", a>> # <<"name", b>>
  BY Zenon
<1> QED BY <1>1, <1>2

LEMMA TwoKeys ==
    \A kind \in {"port", "path"} : \A a, b, c, d :
        ({<<"name", a>>, <<kind, b>>} \cap {<<"name", c>>, <<kind, d>>} = {}) <=> (a # c /\ b # d)
<1> SUFFICES ASSUME NEW kind \in {"port", "path"}, NEW a, NEW b, NEW c, NEW d
             PROVE  ({<<"name", a>>, <<kind, b>>} \cap {<<"name", c>>, <<kind, d>>} = {})
                        <=> (a # c /\ b # d)
  OBVIOUS
<1>1. /\ (<<"name", a>> = <<"name", c>>) <=> a = c
      /\ (<<kind, b>> = <<kind, d>>) <=> b = d
      /\ <<"name", a>> # <<kind, d>> /\ <<kind, b>> # <<"name", c>>
  OBVIOUS
<1>2. \A x, y, u, v : ({x, y} \cap {u, v} = {}) <=> (x # u /\ x # v /\ y # u /\ y # v)
  BY Zenon
<1> QED BY <1>1, <1>2

(* The maps of the loops find the clashes of the rules, defaults and       *)
(* blanks included.                                                        *)
LEMMA KeysClash ==
    ASSUME NEW list \in WalkedLists, NEW e \in ElementType[list], NEW f \in ElementType[list]
    PROVE  (Keys(list, Element(list, e)) \cap Keys(list, Element(list, f)) = {}) <=> ~Clash(list, e, f)
<1> DEFINE m == Element(list, e)
           n == Element(list, f)
<1>2. CASE list \in {"env", "tags"}
  <2>1. e \in PairType /\ f \in PairType
    BY <1>2 DEF ElementType
  <2>2. m.name = TrimSpace(e.name) /\ n.name = TrimSpace(f.name)
    BY <1>2, <2>1, PairElements
  <2>3. m.name = n.name <=> e.name.text = f.name.text
    <3> HIDE DEF m, n
    <3> QED BY <2>2, TrimmedAlike
  <2>4. Keys(list, m) = {<<"name", m.name>>} /\ Keys(list, n) = {<<"name", n.name>>}
    BY <1>2 DEF Keys
  <2> HIDE DEF m, n
  <2>5. (Keys(list, m) \cap Keys(list, n) = {}) <=> m.name # n.name
    BY <2>4, OneKey
  <2> QED BY <1>2, <2>3, <2>5 DEF Clash, m, n
<1>3. CASE list = "ports"
  <2>1. e \in PortType /\ f \in PortType
    BY <1>3 DEF ElementType
  <2>2. /\ m.name = TrimSpace(e.name) /\ n.name = TrimSpace(f.name)
        /\ m.port = e.port /\ n.port = f.port
    BY <1>3, <2>1, PortElements
  <2>3. m.name = n.name <=> e.name.text = f.name.text
    <3> HIDE DEF m, n
    <3> QED BY <2>2, TrimmedAlike
  <2>4. /\ Keys(list, m) = {<<"name", m.name>>, <<"port", m.port>>}
        /\ Keys(list, n) = {<<"name", n.name>>, <<"port", n.port>>}
    BY <1>3 DEF Keys
  <2> HIDE DEF m, n
  <2>5. (Keys(list, m) \cap Keys(list, n) = {}) <=> (m.name # n.name /\ m.port # n.port)
    BY <2>4, TwoKeys
  <2> QED BY <1>3, <2>2, <2>3, <2>5 DEF Clash, m, n
<1>4. CASE list = "mounts"
  <2>1. e \in MountType /\ f \in MountType
    BY <1>4 DEF ElementType
  <2>2. /\ Trimmed(m.name) /\ Trimmed(m.mountPath) /\ Trimmed(n.name) /\ Trimmed(n.mountPath)
        /\ m.name.text = MountName(e) /\ m.mountPath.text = MountedAt(e)
        /\ n.name.text = MountName(f) /\ n.mountPath.text = MountedAt(f)
    BY <1>4, <2>1, MountElements
  <2>3. /\ m.name = n.name <=> MountName(e) = MountName(f)
        /\ m.mountPath = n.mountPath <=> MountedAt(e) = MountedAt(f)
    <3> HIDE DEF m, n
    <3> QED BY <2>2, TrimmedTexts
  <2>4. /\ Keys(list, m) = {<<"name", m.name>>, <<"path", m.mountPath>>}
        /\ Keys(list, n) = {<<"name", n.name>>, <<"path", n.mountPath>>}
    BY <1>4 DEF Keys
  <2> HIDE DEF m, n
  <2>5. (Keys(list, m) \cap Keys(list, n) = {}) <=> (m.name # n.name /\ m.mountPath # n.mountPath)
    BY <2>4, TwoKeys
  <2> QED BY <1>4, <2>3, <2>5 DEF Clash, m, n
<1> QED BY <1>2, <1>3, <1>4 DEF WalkedLists

(* What holds of an element of any walked list.                            *)
LEMMA Elements ==
    ASSUME NEW list \in WalkedLists, NEW e \in ElementType[list]
    PROVE  /\ Element(list, e) \in ElementType[list]
           /\ Fine(list, Element(list, e)) <=> ElementInOrder(list, e)
           /\ Fine(list, Element(list, e)) =>
                 /\ ElementInOrder(list, Element(list, e))
                 /\ Element(list, Element(list, e)) = Element(list, e)
<1>1. CASE list \in {"env", "tags"}
  BY <1>1, PairElements DEF ElementType
<1>2. CASE list = "ports"
  BY <1>2, PortElements DEF ElementType
<1>3. CASE list = "mounts"
  BY <1>3, MountElements DEF ElementType
<1> QED BY <1>1, <1>2, <1>3 DEF WalkedLists

(* A list that was walked to its end: s is sent for g.                     *)
LEMMA WalkedList ==
    ASSUME NEW list \in WalkedLists, NEW g \in Seq(ElementType[list]),
           NEW s \in Seq(ElementType[list]), Len(s) = Len(g),
           \A i \in 1 .. Len(s) : s[i] = Element(list, g[i]) /\ Fine(list, s[i]),
           Apart(list, s, Len(s))
    PROVE  ListInOrder(list, g) /\ ListInOrder(list, s) /\ ListSpelled(list, s)
<1>1. DOMAIN s = 1 .. Len(s) /\ DOMAIN g = 1 .. Len(s)
  OBVIOUS
<1>2. \A i \in DOMAIN s : g[i] \in ElementType[list] /\ s[i] \in ElementType[list]
  BY <1>1
<1>3. \A i \in DOMAIN s : /\ ElementInOrder(list, g[i]) /\ ElementInOrder(list, s[i])
                          /\ Element(list, s[i]) = s[i]
  BY <1>1, <1>2, Elements
<1>4. ASSUME NEW i \in DOMAIN s, NEW j \in DOMAIN s, i # j
      PROVE  ~Clash(list, g[i], g[j]) /\ ~Clash(list, s[i], s[j])
  <2>1. Keys(list, s[i]) \cap Keys(list, s[j]) = {}
    BY <1>1, <1>4 DEF Apart
  <2>2. s[i] = Element(list, g[i]) /\ s[j] = Element(list, g[j])
    BY <1>1
  <2>3. ~Clash(list, g[i], g[j])
    BY <1>2, <2>1, <2>2, KeysClash
  <2>4. s[i] = Element(list, s[i]) /\ s[j] = Element(list, s[j])
    BY <1>3
  <2>5. ~Clash(list, s[i], s[j])
    BY <1>2, <2>1, <2>4, KeysClash
  <2> QED BY <2>3, <2>5
<1> QED BY <1>1, <1>3, <1>4 DEF ListInOrder, ListSpelled

--------------------------------------------------------------------------------
(* The order of the stages.                                                *)
LEMMA RankForms ==
    /\ \A s \in DOMAIN After : After[s] \in DOMAIN Rank /\ Rank[After[s]] = Rank[s] + 1
    /\ \A s \in DOMAIN Rank : Rank[s] \in 1 .. 13
    /\ \A s, t \in DOMAIN Rank : Rank[s] = Rank[t] => s = t
    /\ Parts \subseteq DOMAIN After /\ DOMAIN After \subseteq DOMAIN Rank
<1> DEFINE order == <<"image", "resolve", "head", "network", "container", "env", "ports",
                      "command", "probe", "dns", "tags", "mounts", "sent">>
<1>1. \A s \in DOMAIN After : After[s] \in DOMAIN Rank /\ Rank[After[s]] = Rank[s] + 1
  BY DEF After, Rank
<1>2. \A s \in DOMAIN Rank : Rank[s] \in 1 .. 13
  BY DEF Rank
<1>3. \A s \in DOMAIN Rank : order[Rank[s]] = s
  BY DEF Rank
<1>4. Parts \subseteq DOMAIN After /\ DOMAIN After \subseteq DOMAIN Rank
  BY DEF Parts, After, Rank
<1> HIDE DEF order
<1>5. \A s, t \in DOMAIN Rank : Rank[s] = Rank[t] => s = t
  BY <1>3
<1> QED BY <1>1, <1>2, <1>4, <1>5

(* To have the same fields is transitive and reflexive.                    *)
LEMMA SameForms ==
    /\ \A s, q, r, t : Same(s, q, r) /\ Same(s, r, t) => Same(s, q, t)
    /\ \A s, q : Same(s, q, q)
BY DEF Same

(* What a refusal has to answer for.                                       *)
LEMMA RefuseRules ==
    ASSUME Rules, Refuse, stage = "resolve" \/ ~InOrder(body)
    PROVE  Rules'
BY DEF Rules, Refuse, HalfWay, Looping, Given

(* What a stage has to answer for when it hands on.                        *)
LEMMA ProceedRules ==
    ASSUME TypeOK, Rules, stage \in DOMAIN After, Proceed(req'),
           stage \in Parts => Obeys(stage, body) /\ Settled(stage, req'),
           \A s \in Parts \ {stage, "command"} : Same(s, req', req),
           stage \in {"command", "resolve"} \/ req'.command = req.command,
           stage # "command" /\ body.command # <<>> => req'.command = req.command,
           round = 2 => req' = req
    PROVE  Rules'
<1>1. /\ stage' = After[stage] /\ index' = 1 /\ seen' = {} /\ verdict' # "refused"
      /\ body' = body /\ round' = round
  BY DEF Proceed
<1>2. /\ Rank[stage'] = Rank[stage] + 1 /\ Rank[stage] \in 1 .. 13 /\ stage' \in DOMAIN Rank
      /\ \A s \in Parts : Rank[s] \in 1 .. 13
      /\ \A s \in Parts : Rank[s] = Rank[stage] => s = stage
  BY <1>1, RankForms
<1>3. ASSUME NEW s \in Parts \ {"command"}, Rank[s] >= Rank[stage']
      PROVE  Same(s, req', body')
  <2>1. Rank[s] > Rank[stage] /\ s # stage
    BY <1>2, <1>3
  <2>2. Same(s, req, body) /\ Same(s, req', req)
    BY <1>3, <2>1 DEF Rules
  <2> QED BY <1>1, <2>2, SameForms
<1>4. \A s \in Parts \ {"command"} :
        Rank[s] > Rank[stage'] \/ (s = stage' /\ s \notin WalkedLists) => Same(s, req', body')
  BY <1>2, <1>3
<1>5. Rank[stage'] <= Rank["command"] /\ body'.command # <<>> => req'.command = body'.command
  <2>1. Rank["command"] \in 1 .. 13
    BY DEF Rank
  <2>2. Rank[stage] <= Rank["command"] /\ body.command # <<>> => req.command = body.command
    BY DEF Rules
  <2>3. Rank[stage'] <= Rank["command"] => stage # "command" /\ Rank[stage] <= Rank["command"]
    BY <1>2, <2>1
  <2> QED BY <1>1, <2>2, <2>3
<1>6. ASSUME NEW s \in Parts, Rank[s] < Rank[stage']
      PROVE  Obeys(s, body') /\ Settled(s, req')
  <2>1. CASE s = stage
    BY <1>1, <2>1
  <2>2. CASE s # stage
    <3>1. Rank[s] < Rank[stage]
      BY <1>2, <1>6, <2>2
    <3>2. Obeys(s, body) /\ Settled(s, req)
      BY <3>1 DEF Rules
    <3>3. s = "command" => stage # "resolve"
      BY <3>1 DEF Rank
    <3>4. Same(s, req', req)
      BY <2>2, <3>3 DEF Same, WalkedLists
    <3> QED BY <1>1, <3>2, <3>4, Frame
  <2> QED BY <2>1, <2>2
<1>7. ASSUME stage' \in WalkedLists
      PROVE  HalfWay(stage)'
  <2>1. stage' \in Parts \ {"command"}
    BY <1>7 DEF WalkedLists, Parts
  <2>2. req'[stage'] = body'[stage']
    BY <1>2, <1>3, <1>7, <2>1 DEF Same
  <2>3. CASE stage' = "ports" /\ body.ports = <<>>
    BY <1>1, <2>2, <2>3 DEF HalfWay
  <2>4. CASE ~(stage' = "ports" /\ body.ports = <<>>)
    <3>1. Given(stage)' = req'[stage']
      BY <1>1, <2>2, <2>4 DEF Given
    <3> QED BY <1>1, <3>1 DEF HalfWay, Looping
  <2> QED BY <2>3, <2>4
<1>8. round' = 2 => req' = body' /\ \A s \in Parts : Settled(s, body')
  BY <1>1 DEF Rules
<1> QED BY <1>1, <1>4, <1>5, <1>6, <1>7, <1>8 DEF Rules

(* A stage without a loop keeps the rules.                                 *)
LEMMA DecidesRules ==
    ASSUME TypeOK, Rules, CommandIsUsable, NEW s \in Parts \ WalkedLists, Decides(s)
    PROVE  Rules'
<1>1. stage = s /\ s \in DOMAIN After /\ s \in Parts
  BY RankForms DEF Decides
<1>2. Obeys(s, req) <=> Obeys(s, body)
  <2>1. CASE s # "command"
    <3>1. Same(s, req, body)
      BY <1>1, <2>1 DEF Rules
    <3> QED BY <3>1, Frame
  <2>2. CASE s = "command" /\ body.command # <<>>
    <3>1. Rank[stage] <= Rank["command"]
      BY <1>1, <2>2 DEF Rank
    <3>2. req.command = body.command
      BY <2>2, <3>1 DEF Rules
    <3>3. Same(s, req, body)
      BY <2>2, <3>2 DEF Same, WalkedLists
    <3> QED BY <3>3, Frame
  <2>3. CASE s = "command" /\ body.command = <<>>
    <3>1. NoneBlank(req.command)
      BY <1>1, <2>3 DEF CommandIsUsable, BeforeCommand
    <3>2. NoneBlank(body.command)
      BY <2>3 DEF NoneBlank
    <3> QED BY <2>3, <3>1, <3>2 DEF Obeys, WalkedLists
  <2> QED BY <2>1, <2>2, <2>3
<1>3. CASE /\ Obeys(s, req) /\ Proceed(req') /\ Settled(s, req')
           /\ \A t \in Parts \ {s} : Same(t, req', req)
           /\ Settled(s, req) => req' = req
  <2>1. round = 2 => req' = req
    BY <1>1, <1>3 DEF Rules
  <2>2. s # "command" => req'.command = req.command
    BY <1>3 DEF Same, Parts
  <2>3. \A t \in Parts \ {stage, "command"} : Same(t, req', req)
    BY <1>1, <1>3
  <2> QED BY <1>1, <1>2, <1>3, <2>1, <2>2, <2>3, ProceedRules
<1>4. CASE ~Obeys(s, req) /\ Refuse
  BY <1>1, <1>2, <1>4, InOrderByParts, RefuseRules
<1> QED BY <1>3, <1>4 DEF Decides

(* One turn of a loop, in terms of the element it looks at.                *)
Turn(list) ==
    /\ At(list)
    /\ \/ index > Len(req[list]) /\ Proceed(req)
       \/ /\ index <= Len(req[list])
          /\ LET e == Element(list, req[list][index]) IN
             \/ /\ Fine(list, e) /\ seen \cap Keys(list, e) = {}
                /\ req' = [req EXCEPT ![list][index] = e]
                /\ seen' = seen \cup Keys(list, e)
                /\ index' = index + 1
                /\ UNCHANGED <<body, config, stage, verdict, round>>
             \/ ~(Fine(list, e) /\ seen \cap Keys(list, e) = {}) /\ Refuse

(* The three loops are of this form.                                       *)
LEMMA PairTurns == \A list \in {"env", "tags"} : TypeOK /\ buildPairs(list) => Turn(list)
<1> SUFFICES ASSUME NEW list \in {"env", "tags"}, TypeOK, buildPairs(list) PROVE Turn(list)
  OBVIOUS
<1> DEFINE g == req[list][index]
           e == [g EXCEPT !.name = TrimSpace(g.name)]
<1>1. e = Element(list, g)
  BY DEF Element
<1>2. ASSUME index <= Len(req[list])
      PROVE  /\ e.name = TrimSpace(g.name)
             /\ Fine(list, e) <=> ~IsBlank(TrimSpace(g.name))
             /\ Keys(list, e) = {<<"name", TrimSpace(g.name)>>}
  <2>1. req[list] \in Seq(PairType) /\ index \in Nat \ {0}
    BY DEF TypeOK, RequestType
  <2>2. g \in PairType
    BY <1>2, <2>1
  <2>3. e.name = TrimSpace(g.name)
    BY <2>2 DEF PairType
  <2> HIDE DEF e
  <2> QED BY <2>3 DEF Fine, Keys
<1>3. Walk(list, e, ~IsBlank(TrimSpace(g.name)), {<<"name", TrimSpace(g.name)>>})
  BY DEF buildPairs
<1> HIDE DEF e
<1> QED BY <1>1, <1>2, <1>3 DEF Walk, Turn

LEMMA PortTurns == TypeOK /\ buildPorts /\ req.ports # <<>> => Turn("ports")
<1> SUFFICES ASSUME TypeOK, buildPorts, req.ports # <<>> PROVE Turn("ports")
  OBVIOUS
<1> DEFINE g == req["ports"][index]
           e == [g EXCEPT !.name = TrimSpace(@), !.protocol = Upper(TrimSpace(@))]
           ok == ~IsBlank(e.name) /\ e.protocol.text = "TCP" /\ validatePort(g.port)
           keys == {<<"name", e.name>>, <<"port", g.port>>}
<1>1. e = Element("ports", g)
  BY DEF Element
<1>2. ASSUME index <= Len(req["ports"])
      PROVE  (Fine("ports", e) <=> ok) /\ Keys("ports", e) = keys
  <2>1. req["ports"] \in Seq(PortType) /\ index \in Nat \ {0}
    BY DEF TypeOK, RequestType
  <2>2. g \in PortType
    BY <1>2, <2>1
  <2>3. e.port = g.port
    BY <2>2 DEF PortType
  <2> HIDE DEF e
  <2> QED BY <2>3 DEF Fine, Keys
<1>3. Walk("ports", e, ok, keys)
  BY DEF buildPorts
<1> HIDE DEF e, ok, keys
<1> QED BY <1>1, <1>2, <1>3 DEF Walk, Turn

LEMMA MountTurns == TypeOK /\ buildStorageMounts => Turn("mounts")
<1> SUFFICES ASSUME TypeOK, buildStorageMounts PROVE Turn("mounts")
  OBVIOUS
<1> DEFINE g == req["mounts"][index]
           e == [name       |-> storageValueOrDefault(g.name, Default.mountName),
                 endpoint   |-> storageValueOrDefault(g.endpoint, Default.endpoint),
                 bucketName |-> storageValueOrDefault(g.bucketName, Default.bucketName),
                 bucketPath |-> storageValueOrDefault(g.bucketPath, Default.bucketPath),
                 mountPath  |-> storageValueOrDefault(g.mountPath, Default.mountPath),
                 readOnly   |-> boolValueOrDefault(g.readOnly)]
           ok == /\ ~IsBlank(e.name) /\ ~IsBlank(e.endpoint) /\ ~IsBlank(e.bucketName)
                 /\ e.bucketPath.text \in Absolute /\ e.mountPath.text \in Absolute
           keys == {<<"name", e.name>>, <<"path", e.mountPath>>}
<1>1. e = Element("mounts", g)
  BY DEF Element
<1>2. Walk("mounts", e, ok, keys)
  BY DEF buildStorageMounts
<1> HIDE DEF e
<1>3. (Fine("mounts", e) <=> ok) /\ Keys("mounts", e) = keys
  BY DEF Fine, Keys
<1> HIDE DEF ok, keys
<1> QED BY <1>1, <1>2, <1>3 DEF Walk, Turn

(* The loop over a list, with the defaulted port as good as one given.     *)
LEMMA DefaultPortInOrder ==
    /\ DefaultPort \in PortType
    /\ ListInOrder("ports", <<DefaultPort>>)
<1>1. {"envd", "TCP"} \subseteq Text
  BY ToolRequestAssumption
<1>2. DefaultPort \in PortType
  BY <1>1, PlainIsText DEF DefaultPort, PortType
<1>3. DefaultPort.name.text = "envd" /\ DefaultPort.protocol.text = "TCP"
  BY DEF DefaultPort, Plain
<1>4. validatePort(DefaultPort.port)
  BY SMT DEF DefaultPort, validatePort
<1>5. ElementInOrder("ports", DefaultPort)
  BY <1>1, <1>3, <1>4, RawTextAssumption, DefaultsAssumption DEF ElementInOrder, IsBlank
<1>6. DOMAIN <<DefaultPort>> = {1} /\ <<DefaultPort>>[1] = DefaultPort
  OBVIOUS
<1> QED BY <1>2, <1>5, <1>6 DEF ListInOrder

(* The defaulted port obeys the rules, so what a loop is given obeys them  *)
(* just if the body does.                                                  *)
LEMMA GivenForms ==
    ASSUME TypeOK, NEW list \in WalkedLists
    PROVE  /\ Given(list) \in Seq(ElementType[list])
           /\ ListInOrder(list, Given(list)) <=> Obeys(list, body)
<1>1. body \in RequestType
  BY DEF TypeOK
<1>2. Obeys(list, body) <=> ListInOrder(list, body[list])
  BY DEF Obeys, WalkedLists
<1>3. CASE list = "ports" /\ body.ports = <<>>
  <2>1. Given(list) = <<DefaultPort>>
    BY <1>3 DEF Given
  <2>2. ListInOrder(list, <<>>)
    BY DEF ListInOrder
  <2>3. <<DefaultPort>> \in Seq(PortType)
    BY DefaultPortInOrder
  <2> QED BY <1>2, <1>3, <2>1, <2>2, <2>3, DefaultPortInOrder DEF ElementType
<1>4. CASE ~(list = "ports" /\ body.ports = <<>>)
  BY <1>1, <1>2, <1>4, WalkedTypes DEF Given
<1> QED BY <1>3, <1>4

(* A loop stops at an element for a reason.                                *)
LEMMA StopsForCause ==
    ASSUME TypeOK, NEW list \in WalkedLists, stage = list, Looping(list), index <= Len(req[list]),
           NEW e, e = Element(list, req[list][index]),
           ~(Fine(list, e) /\ seen \cap Keys(list, e) = {})
    PROVE  ~Obeys(list, body)
<1> DEFINE g == Given(list)
<1>1. /\ g \in Seq(ElementType[list]) /\ Len(req[list]) = Len(g)
      /\ Len(req[list]) \in Nat /\ index \in 1 .. Len(g)
  BY GivenForms DEF TypeOK, Looping
<1>2. /\ req[list][index] = g[index] /\ g[index] \in ElementType[list]
      /\ e = Element(list, g[index])
  BY <1>1 DEF Looping
<1>3. SUFFICES ~ListInOrder(list, g)
  BY GivenForms
<1>4. CASE ~Fine(list, e)
  <2>1. ~ElementInOrder(list, g[index])
    BY <1>2, <1>4, Elements
  <2> QED BY <1>1, <2>1 DEF ListInOrder
<1>5. CASE seen \cap Keys(list, e) # {}
  <2>1. PICK k \in seen : k \in Keys(list, e)
    BY <1>5
  <2>2. PICK i \in 1 .. index - 1 : k \in Keys(list, req[list][i])
    BY <2>1 DEF Looping
  <2>3. /\ i \in 1 .. Len(g) /\ i < index /\ i # index /\ g[i] \in ElementType[list]
        /\ req[list][i] = Element(list, g[i])
    BY <1>1, <2>2 DEF Looping
  <2>4. Keys(list, Element(list, g[i])) \cap Keys(list, Element(list, g[index])) # {}
    BY <1>2, <2>1, <2>2, <2>3
  <2>5. Clash(list, g[i], g[index])
    BY <1>2, <2>3, <2>4, KeysClash
  <2> QED BY <1>1, <2>3, <2>5 DEF ListInOrder
<1> QED BY <1>4, <1>5

(* A loop that gets to the end of its list has found it in order.          *)
LEMMA EndsInOrder ==
    ASSUME TypeOK, WalkedApart, NEW list \in WalkedLists, stage = list, Looping(list),
           index > Len(req[list])
    PROVE  Obeys(list, body) /\ Settled(list, req)
<1> DEFINE g == Given(list)
           s == req[list]
<1>1. /\ g \in Seq(ElementType[list]) /\ s \in Seq(ElementType[list]) /\ Len(s) = Len(g)
      /\ Len(s) \in Nat /\ index \in Nat /\ index = Len(s) + 1
  <2>1. req \in RequestType /\ index \in Nat /\ index <= Len(s) + 1
    BY DEF TypeOK, WalkedLists
  <2>2. g \in Seq(ElementType[list]) /\ s \in Seq(ElementType[list])
    BY <2>1, GivenForms, WalkedTypes
  <2>3. Len(s) \in Nat /\ index > Len(s) /\ Len(s) = Len(g)
    BY <2>2 DEF Looping
  <2> QED BY <2>1, <2>2, <2>3
<1>2. \A i \in 1 .. Len(s) : s[i] = Element(list, g[i]) /\ Fine(list, s[i])
  BY <1>1 DEF Looping
<1>3. Apart(list, s, Len(s))
  BY <1>1 DEF WalkedApart
<1>4. ListInOrder(list, g) /\ ListInOrder(list, s) /\ ListSpelled(list, s)
  <2> HIDE DEF g, s
  <2> QED BY <1>1, <1>2, <1>3, WalkedList
<1>5. Obeys(list, body)
  BY <1>4, GivenForms
<1>6. list = "ports" => req.ports # <<>>
  <2> SUFFICES ASSUME list = "ports" PROVE Len(s) # 0
    BY <1>1
  <2>1. CASE body.ports = <<>>
    BY <1>1, <2>1 DEF Given
  <2>2. CASE body.ports # <<>>
    BY <1>1, <2>2 DEF Given
  <2> QED BY <2>1, <2>2
<1>7. Settled(list, req)
  BY <1>4, <1>6 DEF Settled, Obeys, Spelled, WalkedLists
<1> QED BY <1>5, <1>7

(* One turn of a loop keeps the rules.                                     *)
LEMMA TurnRules ==
    ASSUME TypeOK, WalkedApart, Rules, NEW list \in WalkedLists, Turn(list), Looping(list)
    PROVE  Rules'
<1> DEFINE e == Element(list, req[list][index])
           g == Given(list)
<1>1. /\ stage = list /\ req \in RequestType /\ index \in Nat \ {0}
      /\ list \in DOMAIN req /\ DOMAIN req[list] = 1 .. Len(req[list]) /\ Len(req[list]) \in Nat
      /\ list \in Parts /\ list \in DOMAIN After /\ list \notin {"command", "resolve"}
  BY ListsAreTyped DEF TypeOK, Turn, At, WalkedLists, Parts, After
<1>2. CASE index > Len(req[list]) /\ Proceed(req)
  <2>1. Obeys(list, body) /\ Settled(list, req) /\ req' = req
    BY <1>1, <1>2, EndsInOrder DEF Proceed
  <2> QED BY <1>1, <1>2, <2>1, ProceedRules, SameForms
<1>3. CASE index <= Len(req[list]) /\ ~(Fine(list, e) /\ seen \cap Keys(list, e) = {}) /\ Refuse
  <2>1. ~Obeys(list, body)
    BY <1>1, <1>3, StopsForCause
  <2> QED BY <1>1, <1>3, <2>1, InOrderByParts, RefuseRules
<1>4. CASE /\ index <= Len(req[list])
           /\ Fine(list, e) /\ seen \cap Keys(list, e) = {}
           /\ req' = [req EXCEPT ![list][index] = e]
           /\ seen' = seen \cup Keys(list, e)
           /\ index' = index + 1
           /\ UNCHANGED <<body, config, stage, verdict, round>>
  <2>1. /\ req'[list] = [req[list] EXCEPT ![index] = e]
        /\ \A f \in DOMAIN req \ {list} : req'[f] = req[f]
    BY <1>1, <1>4
  <2>2. \A s \in Parts \ {list} : Same(s, req', req)
    BY <1>1, <2>1 DEF Same, Parts, WalkedLists, RequestType
  <2>3. g' = g
    BY <1>4 DEF Given
  <2>4. /\ req'[list][index] = e
        /\ \A i \in 1 .. Len(req[list]) : i # index => req'[list][i] = req[list][i]
        /\ Len(req'[list]) = Len(req[list])
    <3>1. req[list] \in Seq(ElementType[list])
      BY <1>1, WalkedTypes
    <3> HIDE DEF e
    <3> QED BY <1>1, <1>4, <2>1, <3>1
  <2>5. Looping(list)'
    <3>1. Len(req'[list]) = Len(g')
      BY <2>3, <2>4 DEF Looping
    <3>2. ASSUME NEW i \in 1 .. Len(req'[list])
          PROVE  req'[list][i] = IF i < index' THEN Element(list, g'[i]) ELSE g'[i]
      <4>1. CASE i = index
        BY <1>1, <1>4, <2>3, <2>4, <4>1 DEF Looping
      <4>2. CASE i # index
        <5>1. req[list][i] = IF i < index THEN Element(list, g[i]) ELSE g[i]
          BY <2>4 DEF Looping
        <5>2. i < index' <=> i < index
          BY <1>1, <1>4, <2>4, <4>2
        <5> QED BY <2>3, <2>4, <4>2, <5>1, <5>2
      <4> QED BY <4>1, <4>2
    <3>3. \A i \in 1 .. index' - 1 : i = index \/ (i \in 1 .. index - 1 /\ i # index)
      BY <1>1, <1>4
    <3>4. \A i \in 1 .. index - 1 : req'[list][i] = req[list][i]
      BY <1>1, <1>4, <2>4
    <3>5. \A i \in 1 .. index' - 1 : Fine(list, req'[list][i])
      BY <1>4, <2>4, <3>3, <3>4 DEF Looping
    <3>6. ASSUME NEW k \in seen'
          PROVE  \E i \in 1 .. index' - 1 : k \in Keys(list, req'[list][i])
      <4>1. index \in 1 .. index' - 1 /\ 1 .. index - 1 \subseteq 1 .. index' - 1
        BY <1>1, <1>4
      <4>2. CASE k \in Keys(list, e)
        BY <2>4, <4>1, <4>2
      <4>3. CASE k \in seen
        <5>1. PICK i \in 1 .. index - 1 : k \in Keys(list, req[list][i])
          BY <4>3 DEF Looping
        <5> QED BY <3>4, <4>1, <5>1
      <4> QED BY <1>4, <4>2, <4>3
    <3> QED BY <3>1, <3>2, <3>5, <3>6 DEF Looping
  <2>6. round = 2 => req' = req
    <3> SUFFICES ASSUME round = 2 PROVE req' = req
      OBVIOUS
    <3>1. req = body /\ Settled(list, body)
      BY <1>1 DEF Rules
    <3>2. e = req[list][index]
      BY <1>1, <1>4, <3>1 DEF Settled, Spelled, WalkedLists, ListSpelled
    <3>3. [req[list] EXCEPT ![index] = e] = req[list]
      <4>1. req[list] \in Seq(ElementType[list])
        BY <1>1, WalkedTypes
      <4> HIDE DEF e
      <4> QED BY <3>2, <4>1
    <3> HIDE DEF e
    <3> QED BY <1>1, <1>4, <3>3 DEF RequestType
  <2> HIDE DEF e, g
  <2>7. \A s \in Parts \ {"command"} :
          Rank[s] > Rank[stage] \/ (s = stage /\ s \notin WalkedLists) => Same(s, req', body)
    <3> SUFFICES ASSUME NEW s \in Parts \ {"command"},
                        Rank[s] > Rank[stage] \/ (s = stage /\ s \notin WalkedLists)
                 PROVE  Same(s, req', body)
      OBVIOUS
    <3>1. s # list
      BY <1>1, RankForms
    <3> QED BY <2>2, <3>1, SameForms DEF Rules
  <2>8. Rank[stage] <= Rank["command"] /\ body.command # <<>> => req'.command = body.command
    BY <1>1, <2>1 DEF Rules, RequestType
  <2>9. \A s \in Parts : Rank[s] < Rank[stage] => Obeys(s, body) /\ Settled(s, req')
    <3> SUFFICES ASSUME NEW s \in Parts, Rank[s] < Rank[stage]
                 PROVE  Obeys(s, body) /\ Settled(s, req')
      OBVIOUS
    <3>1. s # list
      BY <1>1, RankForms
    <3> QED BY <2>2, <3>1, Frame DEF Rules
  <2>10. verdict # "refused"
    BY DEF Turn, At
  <2> QED BY <1>1, <1>4, <2>5, <2>6, <2>7, <2>8, <2>9, <2>10 DEF Rules, HalfWay
<1> HIDE DEF g
<1> QED BY <1>2, <1>3, <1>4 DEF Turn

(* The ports: the default is filled in, or the loop turns.                 *)
LEMMA PortsRules == TypeOK /\ WalkedApart /\ Rules /\ buildPorts => Rules'
<1> SUFFICES ASSUME TypeOK, WalkedApart, Rules, buildPorts PROVE Rules'
  OBVIOUS
<1>1. /\ stage = "ports" /\ verdict = "open" /\ req \in RequestType /\ "ports" \in DOMAIN req
      /\ HalfWay("ports")
  BY DEF TypeOK, RequestType, Rules, buildPorts, Walk, At, WalkedLists
<1>2. CASE req.ports # <<>>
  <2>1. Turn("ports")
    BY <1>2, PortTurns
  <2>2. Looping("ports")
    BY <1>1, <1>2 DEF HalfWay
  <2> QED BY <2>1, <2>2, TurnRules DEF WalkedLists
<1>3. CASE req.ports = <<>>
  <2>1. /\ req' = [req EXCEPT !.ports = <<DefaultPort>>]
        /\ UNCHANGED <<body, config, stage, index, seen, verdict, round>>
    BY <1>3 DEF buildPorts
  <2>2. body.ports = <<>> /\ index = 1 /\ seen = {}
    <3>1. SUFFICES ASSUME Looping("ports") PROVE FALSE
      BY <1>1 DEF HalfWay
    <3>2. Len(Given("ports")) = 0
      BY <1>3, <3>1 DEF Looping
    <3>3. Given("ports") \in Seq(PortType)
      BY GivenForms DEF WalkedLists, ElementType
    <3>4. Given("ports") # <<>>
      <4>1. SUFFICES body.ports = <<>> => FALSE
        BY DEF Given
      <4>2. SUFFICES ASSUME body.ports = <<>> PROVE FALSE
        OBVIOUS
      <4> QED BY <3>2, <4>2 DEF Given
    <3> QED BY <3>2, <3>3, <3>4
  <2>3. round # 2
    <3>1. round = 2 => Settled("ports", body)
      BY DEF Rules, Parts
    <3> QED BY <2>2, <3>1 DEF Settled, Spelled
  <2>4. req'.ports = <<DefaultPort>> /\ \A f \in DOMAIN req \ {"ports"} : req'[f] = req[f]
    BY <1>1, <2>1
  <2>5. \A s \in Parts \ {"ports"} : Same(s, req', req)
    BY <1>1, <2>4 DEF Same, Parts, WalkedLists, RequestType
  <2>6. Looping("ports")'
    BY <2>1, <2>2, <2>4 DEF Looping, Given
  <2>7. \A s \in Parts \ {"command"} :
          Rank[s] > Rank[stage] \/ (s = stage /\ s \notin WalkedLists) => Same(s, req', body)
    <3> SUFFICES ASSUME NEW s \in Parts \ {"command"},
                        Rank[s] > Rank[stage] \/ (s = stage /\ s \notin WalkedLists)
                 PROVE  Same(s, req', body)
      OBVIOUS
    <3>1. s # "ports"
      BY <1>1 DEF Rank, WalkedLists
    <3> QED BY <2>5, <3>1, SameForms DEF Rules
  <2>8. Rank[stage] <= Rank["command"] /\ body.command # <<>> => req'.command = body.command
    BY <1>1, <2>4 DEF Rules, RequestType
  <2>9. \A s \in Parts : Rank[s] < Rank[stage] => Obeys(s, body) /\ Settled(s, req')
    <3> SUFFICES ASSUME NEW s \in Parts, Rank[s] < Rank[stage]
                 PROVE  Obeys(s, body) /\ Settled(s, req')
      OBVIOUS
    <3>1. s # "ports"
      BY <1>1 DEF Rank
    <3> QED BY <2>5, <3>1, Frame DEF Rules
  <2> QED BY <1>1, <2>1, <2>3, <2>6, <2>7, <2>8, <2>9 DEF Rules, HalfWay
<1> QED BY <1>2, <1>3

(* The stages before the builder.                                          *)
LEMMA EarlyRules ==
    ASSUME TypeOK, Rules, CommandIsUsable, RequireImage \/ Resolve \/ ResolveFails
    PROVE  Rules'
<1>1. req \in RequestType
  BY DEF TypeOK
<1>2. CASE RequireImage
  <2>1. CASE ~IsBlank(req.image) /\ Proceed(req)
    <3>1. stage = "image" /\ stage \in DOMAIN After /\ stage \notin Parts /\ req' = req
      BY <1>2, <2>1 DEF RequireImage, At, After, Parts, Proceed
    <3> QED BY <2>1, <3>1, ProceedRules, SameForms
  <2>2. CASE IsBlank(req.image) /\ Refuse
    <3>1. Rank["container"] > Rank[stage] /\ "container" \in Parts
      BY <1>2 DEF RequireImage, At, Rank, Parts
    <3>2. Same("container", req, body)
      BY <3>1 DEF Rules
    <3>3. ~Obeys("container", body)
      BY <2>2, <3>2 DEF Same, Obeys, ContainerInOrder
    <3> QED BY <2>2, <3>1, <3>3, InOrderByParts, RefuseRules
  <2> QED BY <1>2, <2>1, <2>2 DEF RequireImage, Check
<1>3. CASE stage = "resolve" /\ Refuse
  BY <1>3, RefuseRules
<1>4. CASE Resolve
  <2> DEFINE command == ResolveCommand(config)
             new == IF req.command = <<>> THEN [req EXCEPT !.command = command] ELSE req
  <2>1. CASE Proceed(new)
    <3>1. stage = "resolve" /\ stage \in DOMAIN After /\ stage \notin Parts /\ req' = new
      BY <1>4, <2>1 DEF Resolve, At, After, Parts, Proceed
    <3>2. \A s \in Parts \ {stage, "command"} : Same(s, new, req)
      BY <1>1, SameForms DEF Same, Parts, WalkedLists, RequestType
    <3>3. req.command # <<>> => new = req
      OBVIOUS
    <3>4. req.command = body.command
      BY <3>1 DEF CommandIsUsable
    <3>5. round = 2 => body.command # <<>>
      <4>1. round = 2 => Settled("command", body)
        BY DEF Rules, Parts
      <4> QED BY <4>1 DEF Settled, Spelled
    <3> HIDE DEF new
    <3> QED BY <2>1, <3>1, <3>2, <3>3, <3>4, <3>5, ProceedRules
  <2> QED BY <1>3, <1>4, <2>1 DEF Resolve, Check, At
<1> QED BY <1>2, <1>3, <1>4 DEF ResolveFails, At

(* A stage without a loop starts with a command to check.                  *)
LEMMA StagesRules ==
    ASSUME TypeOK, Rules, CommandIsUsable,
           \/ buildHead \/ buildNetworkConfiguration \/ buildContainer
           \/ buildCommand \/ buildProbe \/ buildDNS
    PROVE  Rules'
<1>1. ASSUME buildCommand PROVE req.command # <<>>
  <2>1. stage = "command"
    BY <1>1 DEF buildCommand, At
  <2>2. Rank[stage] <= Rank["command"]
    BY <2>1 DEF Rank
  <2>3. body.command # <<>> => req.command = body.command
    BY <2>2 DEF Rules
  <2> QED BY <2>1, <2>3 DEF CommandIsUsable, BeforeCommand
<1>2. \E s \in Parts \ WalkedLists : Decides(s)
  BY <1>1, HeadDecides, NetworkDecides, ContainerDecides, CommandDecides, ProbeDecides,
     DNSDecides DEF Parts, WalkedLists
<1> QED BY <1>2, DecidesRules

LEMMA InitRules == Init => Rules
<1> SUFFICES ASSUME Init PROVE Rules
  OBVIOUS
<1>1. req = body /\ stage = "image" /\ verdict = "open" /\ round = 1
  BY DEF Init
<1>2. \A s \in Parts : Rank[s] > 1
  BY DEF Parts, Rank
<1>3. Rank[stage] = 1 /\ stage \notin WalkedLists
  BY <1>1 DEF Rank, WalkedLists
<1>4. \A s \in Parts : ~(Rank[s] < Rank[stage])
  BY <1>2, <1>3 DEF Parts, Rank
<1> QED BY <1>1, <1>3, <1>4, SameForms DEF Rules

(* What was sent is settled, so submitting it starts with that known.      *)
LEMMA SubmitRules ==
    ASSUME TypeOK, Rules, SubmitSent
    PROVE  Rules'
<1>1. stage = "sent" /\ body' = req /\ req' = req /\ stage' = "image" /\ verdict' = "open"
  BY DEF TypeOK, SubmitSent
<1>2. \A s \in Parts : Rank[s] < Rank["sent"] /\ ~(Rank[s] < Rank["image"])
  BY DEF Parts, Rank
<1>3. \A s \in Parts : Settled(s, req)
  BY <1>1, <1>2 DEF Rules
<1>4. stage' \notin WalkedLists
  BY <1>1 DEF WalkedLists
<1> QED BY <1>1, <1>2, <1>3, <1>4, SameForms DEF Rules

LEMMA NextRules ==
    ASSUME TypeOK, WalkedApart, UsableIsNotRefused, Rules, [Next]_vars
    PROVE  Rules'
<1>1. CommandIsUsable
  BY DEF UsableIsNotRefused
<1>2. CASE RequireImage \/ Resolve \/ ResolveFails
  BY <1>1, <1>2, EarlyRules
<1>3. CASE \/ buildHead \/ buildNetworkConfiguration \/ buildContainer
           \/ buildCommand \/ buildProbe \/ buildDNS
  BY <1>1, <1>3, StagesRules
<1>4. ASSUME NEW list \in WalkedLists \ {"ports"}, Turn(list) PROVE Rules'
  <2>1. Looping(list)
    BY <1>4 DEF Rules, HalfWay, Turn, At
  <2> QED BY <1>4, <2>1, TurnRules
<1>5. CASE buildPairs("env") \/ buildPairs("tags")
  BY <1>4, <1>5, PairTurns DEF WalkedLists
<1>6. CASE buildStorageMounts
  BY <1>4, <1>6, MountTurns DEF WalkedLists
<1>7. CASE buildPorts
  BY <1>7, PortsRules
<1>8. CASE SubmitSent
  BY <1>8, SubmitRules
<1>9. CASE UNCHANGED vars
  BY <1>9 DEF vars, Rules, HalfWay, Looping, Given
<1> QED BY <1>2, <1>3, <1>5, <1>6, <1>7, <1>8, <1>9 DEF Next, Build

(* The inductive invariant, with what it needs of the other two.           *)
LEMMA RulesHold == Spec => [](TypeOK /\ Rules)
<1> DEFINE IInv == TypeOK /\ WalkedApart /\ UsableIsNotRefused /\ Rules
<1>1. Init => IInv
  BY InitTypeOK, InitApart, InitUsable, InitRules
<1>2. IInv /\ [Next]_vars => IInv'
  BY NextTypeOK, NextApart, NextUsable, NextRules
<1>3. IInv => TypeOK /\ Rules
  OBVIOUS
<1> HIDE DEF IInv
<1> QED BY <1>1, <1>2, <1>3, PTL DEF Spec

(* Once a body is sent, every stage has found it in order and settled it.  *)
LEMMA SentIsSettled ==
    ASSUME TypeOK, Rules, verdict = "sent", NEW s \in Parts
    PROVE  Obeys(s, body) /\ Settled(s, req)
<1>1. stage = "sent" /\ Rank[s] < Rank["sent"]
  BY DEF TypeOK, Parts, Rank
<1> QED BY <1>1 DEF Rules

(* The loops, with their defaults, their trimming and their early returns, *)
(* decide just what the rules decide: a body is sent only if it is in      *)
(* order, and refused only if it is not, unless the registry has no        *)
(* command for it.                                                         *)
THEOREM VerdictIsTheRules == Spec => []RefusedForCause
<1>1. TypeOK /\ Rules => RefusedForCause
  <2> SUFFICES ASSUME TypeOK, Rules PROVE RefusedForCause
    OBVIOUS
  <2>1. verdict = "sent" => InOrder(body)
    BY SentIsSettled, InOrderByParts
  <2> QED BY <2>1 DEF Rules, RefusedForCause
<1> QED BY <1>1, RulesHold, PTL

(* The defaults and what trimming leaves obey the rules too: AGS gets a    *)
(* request that is in order and complete.                                  *)
THEOREM CompleteAsSent == Spec => []SentIsComplete
<1>1. TypeOK /\ Rules => SentIsComplete
  <2> SUFFICES ASSUME TypeOK, Rules, verdict = "sent" PROVE SentIsComplete
    BY DEF SentIsComplete
  <2>1. \A s \in Parts : Obeys(s, req) /\ Spelled(s, req)
    BY SentIsSettled DEF Settled
  <2>2. InOrder(req)
    BY <2>1, InOrderByParts
  <2>3. /\ HeadSpelled(req) /\ NetworkSpelled(req) /\ ContainerSpelled(req) /\ ProbeSpelled(req)
        /\ NetworkInOrder(req) /\ req.command # <<>> /\ req.ports # <<>>
    BY <2>1 DEF Parts, Spelled, Obeys
  <2>4. \A x : Full(x) => x # Omitted
    <3>1. Omitted.text = ""
      BY DEF Omitted, Plain
    <3> QED BY <3>1 DEF Full, IsBlank
  <2>5. Omitted \notin {req.toolName, req.defaultTimeout, req.roleArn, req.mode, req.image,
                       req.registryType, req.probePath, req.probeScheme, req.cpu, req.memory}
    BY <2>3, <2>4 DEF HeadSpelled, NetworkSpelled, ContainerSpelled, ProbeSpelled
  <2>6. req.probePort # 0
    BY <2>3 DEF ProbeSpelled
  <2>7. (req.mode.text = "VPC") = (req.subnetIds # <<>> /\ req.securityGroupIds # <<>>)
    <3>1. CASE req.mode.text = "VPC"
      BY <2>3, <3>1 DEF NetworkSpelled
    <3>2. CASE req.mode.text \in {"PUBLIC", "SANDBOX"}
      BY <2>3, <3>2, DefaultsAssumption DEF NetworkInOrder
    <3> QED BY <2>3, <3>1, <3>2 DEF NetworkSpelled
  <2> QED BY <2>2, <2>3, <2>5, <2>6, <2>7 DEF SentIsComplete
<1> QED BY <1>1, RulesHold, PTL

(* What was sent can be sent again: every stage finds it in order, changes *)
(* nothing, and only the registry can still refuse it.                     *)
THEOREM StableAsSent == Spec => []SentIsStable
<1>1. TypeOK /\ Rules => SentIsStable
  <2> SUFFICES ASSUME TypeOK, Rules, round = 2
               PROVE  req = body /\ (verdict = "refused" => stage = "resolve")
    BY DEF SentIsStable
  <2>1. req = body /\ \A s \in Parts : Settled(s, body)
    BY DEF Rules
  <2>2. InOrder(body)
    BY <2>1, InOrderByParts DEF Settled
  <2> QED BY <2>1, <2>2 DEF Rules
<1> QED BY <1>1, RulesHold, PTL

=============================================================================
