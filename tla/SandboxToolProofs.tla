-------------------------- MODULE SandboxToolProofs --------------------------
(* Theorems about SandboxTool, for any sets of requests, callers, images,  *)
(* names, tokens, tools and payloads, and any bounds.                      *)
EXTENDS SandboxTool, TLAPS

(* Every response the create handler builds is one of the known ones.      *)
LEMMA ResponseTypes ==
    /\ \A code \in LocalCodes \cup CloudCodes \cup AmbiguousCodes :
          rejectedResponse(code) \in ReplyType
    /\ \A t \in ToolIds : acceptedResponse(t) \in ReplyType
BY DEF ReplyType, rejectedResponse, acceptedResponse

(* The call a request turns into is well formed once its command has been  *)
(* resolved.                                                               *)
LEMMA CreateCallType ==
    ASSUME TypeOK, NEW r \in Requests, resolved[r] # None
    PROVE  CreateCall(r) \in CallType
BY SandboxToolAssumption DEF TypeOK, CreateCall, CallType, PayloadType

LEMMA InitTypeOK == Init => TypeOK
BY SandboxToolAssumption DEF Init, TypeOK, Versions, ToolStatus

(* Every step of every actor keeps every variable in its type.             *)
LEMMA NextTypeOK == TypeOK /\ [Next]_vars => TypeOK'
<1> SUFFICES ASSUME TypeOK, [Next]_vars PROVE TypeOK'
  OBVIOUS
<1> USE DEF TypeOK, cloudVars, queryVars, requestVars
<1>1. ASSUME NEW r \in Requests, Receive(r) PROVE TypeOK'
  <2>1. since' \in [Requests -> Versions \cup {None}]
    BY <1>1, SandboxToolAssumption DEF Receive, PayloadType
  <2>2. ScreenCode(r) # "PASS" => ScreenCode(r) \in LocalCodes
    BY DEF ScreenCode, LocalCodes
  <2> QED BY <1>1, <2>1, <2>2, ResponseTypes DEF Receive, Answer
<1>2. ASSUME NEW r \in Requests, ServeManifest(r) PROVE TypeOK'
  BY <1>2, SandboxToolAssumption DEF ServeManifest, PayloadType
<1>3. ASSUME NEW r \in Requests, ResolveDone(r) PROVE TypeOK'
  BY <1>3, ResponseTypes, CreateCallType DEF ResolveDone, Answer, LocalCodes
<1>4. ASSUME NEW r \in Requests, ResolveFails(r) PROVE TypeOK'
  BY <1>4, ResponseTypes DEF ResolveFails, Answer, LocalCodes
<1>5. ASSUME NEW r \in Requests, CreateReturns(r) PROVE TypeOK'
  BY <1>5, ResponseTypes DEF CreateReturns, Answer
<1>6. ASSUME NEW r \in Requests, CreateReturnsNoId(r) PROVE TypeOK'
  BY <1>6, ResponseTypes DEF CreateReturnsNoId, Answer, AmbiguousCodes
<1>7. ASSUME NEW r \in Requests, CreateFails(r) PROVE TypeOK'
  <2>1. FailureCodes(r) \subseteq AmbiguousCodes
    BY DEF FailureCodes, AmbiguousCodes
  <2> QED BY <1>7, <2>1, ResponseTypes DEF CreateFails, Answer
<1>8. ASSUME NEW r \in Requests, EndContext(r) PROVE TypeOK'
  BY <1>8 DEF EndContext
<1>9. ASSUME NEW i \in Images, Push(i) PROVE TypeOK'
  BY <1>9, SandboxToolAssumption DEF Push, Versions
<1>10. ASSUME NEW call \in inbox, CloudCreate(call) PROVE TypeOK'
  <2>1. call \in CallType /\ call.req \in Requests
    BY DEF CallType
  <2>2. answer' \in [Requests -> ToolIds \cup CloudCodes \cup {None}]
    BY <1>10, <2>1 DEF CloudCreate, TokenTwins, Existing, CloudCodes
  <2>3. tools' \in [ToolIds -> CallType \cup {None}]
    BY <1>10, <2>1 DEF CloudCreate
  <2>4. status' \in [ToolIds -> ToolStatus]
    BY <1>10, <2>1 DEF CloudCreate, ToolStatus
  <2> QED BY <1>10, <2>2, <2>3, <2>4 DEF CloudCreate
<1>11. ASSUME NEW call \in inbox, CloudRefuse(call) PROVE TypeOK'
  BY <1>11 DEF CloudRefuse, CallType, CloudCodes
<1>12. ASSUME NEW call \in inbox, LoseCall(call) PROVE TypeOK'
  BY <1>12 DEF LoseCall
<1>13. ASSUME NEW t \in ToolIds, Provision(t) PROVE TypeOK'
  BY <1>13 DEF Provision, ToolStatus, Provisioned
<1>14. ASSUME NEW q \in Queries, NEW t \in ToolIds, Ask(q, t) PROVE TypeOK'
  BY <1>14, SandboxToolAssumption DEF Ask
<1>15. ASSUME NEW q \in Queries, NEW code \in QueryRefusals, AskRefused(q, code)
       PROVE  TypeOK'
  BY <1>15 DEF AskRefused, Tell, ToldType, QueryErrors, QueryRefusals
<1>16. ASSUME NEW q \in Queries, CloudDescribe(q) PROVE TypeOK'
  BY <1>16 DEF CloudDescribe
<1>17. ASSUME NEW q \in Queries, DescribeReturns(q) PROVE TypeOK'
  <2>1. asked' \in [Queries -> ToolIds \cup {None}]
    BY <1>17 DEF DescribeReturns, EndQuery
  <2>2. findSandboxTool(q) \in Entries /\ asked[q] \in ToolIds
    BY <1>17 DEF DescribeReturns, findSandboxTool
  <2>3. told' \in [Queries -> ToldType \cup {None}]
    BY <1>17, <2>2 DEF DescribeReturns, EndQuery, Tell, Entries, ToldType,
       QueryErrors, QueryRefusals, ToolStatus
  <2> QED BY <1>17, <2>1, <2>3 DEF DescribeReturns, EndQuery
<1>18. ASSUME NEW q \in Queries, DescribeFails(q) PROVE TypeOK'
  BY <1>18 DEF DescribeFails, EndQuery, Tell, ToldType, QueryErrors, QueryRefusals
<1>19. ASSUME NEW q \in Queries, Collect(q) PROVE TypeOK'
  BY <1>19 DEF Collect
<1>20. ASSUME Crash PROVE TypeOK'
  BY <1>20, SandboxToolAssumption DEF Crash, ToldType, QueryErrors, QueryRefusals
<1>21. ASSUME UNCHANGED vars PROVE TypeOK'
  BY <1>21 DEF vars
<1> QED
  BY <1>1, <1>2, <1>3, <1>4, <1>5, <1>6, <1>7, <1>8, <1>9, <1>10, <1>11, <1>12,
     <1>13, <1>14, <1>15, <1>16, <1>17, <1>18, <1>19, <1>20, <1>21
     DEF Next, Service, Callers, StatusCaller, Handler, QueryHandler, Cloud

(* Type correctness of the sandbox-tool service.                           *)
THEOREM TypeCorrect == Spec => []TypeOK
BY InitTypeOK, NextTypeOK, PTL DEF Spec

--------------------------------------------------------------------------------
(* The ledger: where a create request is, and what became of its call.     *)

LEMMA InitLedger == Init => Ledger
BY SandboxToolAssumption
   DEF Init, Ledger, Existing, Replied, AnswerInOrder, ReplyInOrder

(* A request that has neither a call in the inbox nor a tool yet.          *)
LEMMA UnsentHasNothing ==
    ASSUME TypeOK, Ledger, NEW r \in Requests, pc[r] \in {"unsent", "resolving"}
    PROVE  CallsOf(r) = {} /\ ToolsOf(r) = {}
BY DEF Ledger, CallInOrder, ToolInOrder, CallsOf, ToolsOf

(* A step that only moves one request within its handler, and answers it   *)
(* or not, keeps the ledger if it leaves that request's reply in order.    *)
LEMMA MoveLedger ==
    ASSUME TypeOK, Ledger, NEW r \in Requests,
           UNCHANGED <<payload, resolved, answer, inbox, tools>>,
           \A s \in Requests \ {r} : pc'[s] = pc[s] /\ reply'[s] = reply[s],
           pc[r] = "creating" => pc'[r] = "answered",
           pc[r] \in {"unsent", "resolving", "creating"},
           pc'[r] = "resolving" => pc[r] = "unsent",
           pc'[r] # "unsent",
           ReplyInOrder(r)'
    PROVE  Ledger'
<1>1. \A call \in inbox : CallInOrder(call)'
  BY DEF TypeOK, CallType, Ledger, CallInOrder, CreateCall
<1>2. \A t \in Existing : ToolInOrder(t)'
  BY SandboxToolAssumption
     DEF TypeOK, CallType, Ledger, ToolInOrder, CreateCall, Existing
<1>3. \A s \in Requests : AnswerInOrder(s)'
  BY DEF Ledger, AnswerInOrder, Existing, SameToken
<1>4. \A s \in Requests \ {r} : ReplyInOrder(s)'
  BY DEF Ledger, ReplyInOrder, Replied, CallsOf, ToolsOf, Existing
<1> QED BY <1>1, <1>2, <1>3, <1>4 DEF Ledger, Existing

(* A step that touches nothing the ledger speaks of.                       *)
LEMMA IdleLedger ==
    ASSUME Ledger, UNCHANGED <<payload, pc, resolved, answer, reply, inbox, tools>>
    PROVE  Ledger'
BY DEF Ledger, CallInOrder, ToolInOrder, AnswerInOrder, ReplyInOrder, CreateCall,
       Existing, SameToken, Replied, CallsOf, ToolsOf

(* Every step keeps the ledger.                                            *)
LEMMA NextLedger == TypeOK /\ Ledger /\ [Next]_vars => Ledger'
<1> SUFFICES ASSUME TypeOK, Ledger, [Next]_vars PROVE Ledger'
  OBVIOUS
<1> USE DEF cloudVars, queryVars, requestVars
<1>1. ASSUME NEW r \in Requests, Receive(r) PROVE Ledger'
  <2>1. CallsOf(r)' = {} /\ ToolsOf(r)' = {}
    BY <1>1, UnsentHasNothing DEF Receive, CallsOf, ToolsOf, Existing
  <2>2. ReplyInOrder(r)'
    <3>1. CASE ScreenCode(r) = "PASS"
      BY <1>1, <3>1 DEF TypeOK, Ledger, Receive, ReplyInOrder, Replied
    <3>2. CASE ScreenCode(r) # "PASS"
      <4>1. ScreenCode(r) \in LocalCodes
        BY <3>2 DEF ScreenCode, LocalCodes
      <4>2. reply'[r] = rejectedResponse(ScreenCode(r)) /\ pc'[r] = "answered"
        BY <1>1, <3>2 DEF TypeOK, Receive, Answer
      <4>3. reply'[r] # None
        BY <4>1, <4>2, ResponseTypes, SandboxToolAssumption
      <4> QED BY <2>1, <4>1, <4>2, <4>3
              DEF ReplyInOrder, Replied, rejectedResponse, LocalCodes, CloudCodes
    <3> QED BY <3>1, <3>2
  <2> QED BY <1>1, <2>2, MoveLedger DEF TypeOK, Receive, Answer
<1>2. ASSUME NEW r \in Requests, ServeManifest(r) PROVE Ledger'
  <2>1. \A s \in Requests : resolved[s] # None => resolved'[s] = resolved[s]
    BY <1>2 DEF TypeOK, ServeManifest
  <2>2. \A call \in inbox : CallInOrder(call)'
    BY <1>2, <2>1 DEF TypeOK, CallType, Ledger, ServeManifest, CallInOrder, CreateCall
  <2>3. \A t \in Existing : ToolInOrder(t)'
    BY <1>2, <2>1 DEF TypeOK, CallType, Ledger, ServeManifest, ToolInOrder, CreateCall,
       Existing
  <2>4. \A s \in Requests : AnswerInOrder(s)' /\ ReplyInOrder(s)'
    BY <1>2 DEF Ledger, ServeManifest, AnswerInOrder, ReplyInOrder, Existing, SameToken,
       Replied, CallsOf, ToolsOf
  <2> QED BY <1>2, <2>2, <2>3, <2>4 DEF Ledger, ServeManifest, Existing
<1>3. ASSUME NEW r \in Requests, ResolveDone(r) PROVE Ledger'
  <2>1. CASE ~Builds(r)
    <3>1. reply'[r] = rejectedResponse("INVALID_ARGUMENT") /\ pc'[r] = "answered"
      BY <1>3, <2>1 DEF TypeOK, ResolveDone, Answer
    <3>2. reply'[r] # None
      BY <3>1, ResponseTypes, SandboxToolAssumption DEF LocalCodes
    <3>3. CallsOf(r)' = {} /\ ToolsOf(r)' = {}
      BY <1>3, <2>1, UnsentHasNothing DEF ResolveDone, CallsOf, ToolsOf, Existing
    <3>4. ReplyInOrder(r)'
      BY <3>1, <3>2, <3>3 DEF ReplyInOrder, Replied, rejectedResponse, CloudCodes
    <3> QED BY <1>3, <2>1, <3>4, MoveLedger DEF TypeOK, ResolveDone, Answer
  <2>2. CASE Builds(r)
    <3>1. /\ pc[r] = "resolving" /\ resolved[r] # None
          /\ pc' = [pc EXCEPT ![r] = "creating"]
          /\ inbox' \subseteq inbox \cup {CreateCall(r)}
          /\ inbox \subseteq inbox'
          /\ UNCHANGED <<payload, resolved, answer, reply, tools>>
      BY <1>3, <2>2 DEF ResolveDone
    <3>2. \A call \in inbox' : CallInOrder(call)'
      <4>1. ASSUME NEW call \in inbox PROVE CallInOrder(call)'
        BY <3>1, <4>1 DEF TypeOK, CallType, Ledger, CallInOrder, CreateCall
      <4>2. ASSUME NEW call \in {CreateCall(r)} PROVE CallInOrder(call)'
        BY <3>1 DEF TypeOK, Ledger, CallInOrder, CreateCall, AnswerInOrder
      <4> QED BY <3>1, <4>1, <4>2
    <3>3. \A t \in Existing : ToolInOrder(t)'
      BY <3>1 DEF TypeOK, CallType, Ledger, ToolInOrder, CreateCall, Existing
    <3>4. \A s \in Requests : AnswerInOrder(s)'
      BY <3>1 DEF TypeOK, Ledger, AnswerInOrder, Existing, SameToken
    <3>5. \A s \in Requests : ReplyInOrder(s)'
      <4>1. \A s \in Requests \ {r} : CallsOf(s)' = CallsOf(s)
        BY <3>1 DEF CallsOf, CreateCall
      <4> QED BY <3>1, <4>1 DEF TypeOK, Ledger, ReplyInOrder, Replied, ToolsOf, Existing
    <3> QED BY <3>1, <3>2, <3>3, <3>4, <3>5 DEF Ledger, Existing
  <2> QED BY <2>1, <2>2
<1>4. ASSUME NEW r \in Requests, ResolveFails(r) PROVE Ledger'
  <2>1. reply'[r] = rejectedResponse("IMAGE_COMMAND_RESOLVE_FAILED") /\ pc'[r] = "answered"
    BY <1>4 DEF TypeOK, ResolveFails, Answer
  <2>2. reply'[r] # None
    BY <2>1, ResponseTypes, SandboxToolAssumption DEF LocalCodes
  <2>3. CallsOf(r)' = {} /\ ToolsOf(r)' = {}
    BY <1>4, UnsentHasNothing DEF ResolveFails, CallsOf, ToolsOf, Existing
  <2>4. ReplyInOrder(r)'
    BY <2>1, <2>2, <2>3 DEF ReplyInOrder, Replied, rejectedResponse, CloudCodes
  <2> QED BY <1>4, <2>4, MoveLedger DEF TypeOK, ResolveFails, Answer
<1>5. ASSUME NEW r \in Requests, CreateReturns(r) PROVE Ledger'
  <2>1. CASE answer[r] \in ToolIds
    <3>1. reply'[r] = acceptedResponse(answer[r]) /\ pc'[r] = "answered"
      BY <1>5, <2>1 DEF TypeOK, CreateReturns, Answer
    <3>2. reply'[r] # None
      BY <2>1, <3>1, ResponseTypes, SandboxToolAssumption
    <3>3. ReplyInOrder(r)'
      BY <1>5, <2>1, <3>1, <3>2
         DEF CreateReturns, ReplyInOrder, Replied, acceptedResponse, CloudCodes, LocalCodes
    <3> QED BY <1>5, <3>3, MoveLedger DEF TypeOK, CreateReturns, Answer
  <2>2. CASE answer[r] \notin ToolIds
    <3>1. reply'[r] = rejectedResponse(answer[r]) /\ pc'[r] = "answered"
      BY <1>5, <2>2 DEF TypeOK, CreateReturns, Answer
    <3>2. answer[r] \in CloudCodes
      BY <1>5, <2>2 DEF TypeOK, CreateReturns
    <3>3. reply'[r] # None
      BY <3>1, <3>2, ResponseTypes, SandboxToolAssumption
    <3>4. ReplyInOrder(r)'
      BY <1>5, <3>1, <3>2, <3>3
         DEF CreateReturns, ReplyInOrder, Replied, rejectedResponse, CloudCodes, LocalCodes
    <3> QED BY <1>5, <3>4, MoveLedger DEF TypeOK, CreateReturns, Answer
  <2> QED BY <2>1, <2>2
<1>6. ASSUME NEW r \in Requests, CreateReturnsNoId(r) PROVE Ledger'
  <2>1. reply'[r] = rejectedResponse("INVALID_CLOUD_RESPONSE") /\ pc'[r] = "answered"
    BY <1>6 DEF TypeOK, CreateReturnsNoId, Answer
  <2>2. reply'[r] # None
    BY <2>1, ResponseTypes, SandboxToolAssumption DEF AmbiguousCodes
  <2>3. ReplyInOrder(r)'
    BY <2>1, <2>2 DEF ReplyInOrder, Replied, rejectedResponse, CloudCodes, LocalCodes
  <2> QED BY <1>6, <2>3, MoveLedger DEF TypeOK, CreateReturnsNoId, Answer
<1>7. ASSUME NEW r \in Requests, CreateFails(r) PROVE Ledger'
  <2>1. PICK code \in FailureCodes(r) :
           reply'[r] = rejectedResponse(code) /\ pc'[r] = "answered"
    BY <1>7 DEF TypeOK, CreateFails, Answer
  <2>2. code \in AmbiguousCodes
    BY <2>1 DEF FailureCodes, AmbiguousCodes
  <2>3. reply'[r] # None
    BY <2>1, <2>2, ResponseTypes, SandboxToolAssumption
  <2>4. ReplyInOrder(r)'
    BY <2>1, <2>2, <2>3
       DEF ReplyInOrder, Replied, rejectedResponse, CloudCodes, LocalCodes, AmbiguousCodes
  <2> QED BY <1>7, <2>4, MoveLedger DEF TypeOK, CreateFails, Answer
<1>8. ASSUME NEW call \in inbox, CloudCreate(call) PROVE Ledger'
  <2> DEFINE r == call.req
  <2>1. /\ r \in Requests /\ call = CreateCall(r) /\ answer[r] = None
        /\ pc[r] \in {"creating", "answered", "lost"} /\ resolved[r] # None
    BY DEF TypeOK, CallType, Ledger, CallInOrder
  <2>2. /\ inbox' = inbox \ {call}
        /\ UNCHANGED <<payload, pc, resolved, reply>>
        /\ answer'[r] \in ToolIds \cup {"NAME_CONFLICT"}
        /\ \A s \in Requests \ {r} : answer'[s] = answer[s]
        /\ answer'[r] \in ToolIds =>
              \/ answer'[r] \in TokenTwins(call) /\ UNCHANGED tools
              \/ /\ answer'[r] \notin Existing
                 /\ tools' = [tools EXCEPT ![answer'[r]] = call]
        /\ answer'[r] \notin ToolIds => UNCHANGED tools
    BY <1>8, <2>1, SandboxToolAssumption
       DEF TypeOK, CloudCreate, TokenTwins, Existing, CloudCodes
  <2>3. \A c \in inbox' : c.req # r
    BY <2>1, <2>2 DEF TypeOK, Ledger, CallInOrder, CreateCall
  <2>4. \A t \in Existing : tools'[t] = tools[t] /\ tools[t].req # r
    BY <2>1, <2>2, SandboxToolAssumption
       DEF TypeOK, Ledger, ToolInOrder, Existing
  <2>5. Existing' \subseteq Existing \cup {answer'[r]}
    BY <2>2 DEF TypeOK, Existing
  <2>6. ASSUME NEW c \in inbox' PROVE CallInOrder(c)'
    BY <2>2, <2>3, <2>6 DEF TypeOK, CallType, Ledger, CallInOrder, CreateCall
  <2>7. ASSUME NEW t \in Existing' PROVE ToolInOrder(t)'
    <3>1. CASE t \in Existing
      BY <2>2, <2>4, <3>1 DEF TypeOK, CallType, Ledger, ToolInOrder, CreateCall, Existing
    <3>2. CASE t \notin Existing
      <4>1. t = answer'[r] /\ tools'[t] = call
        BY <2>2, <2>5, <2>7, <3>2 DEF TypeOK, Existing, TokenTwins
      <4> QED BY <2>1, <2>2, <4>1 DEF ToolInOrder, CreateCall
    <3> QED BY <3>1, <3>2
  <2>8. ASSUME NEW s \in Requests PROVE AnswerInOrder(s)'
    <3>1. CASE s # r
      BY <2>2, <2>4, <3>1 DEF TypeOK, Ledger, AnswerInOrder, Existing, SameToken
    <3>2. CASE s = r
      <4>1. pc'[r] \notin {"unsent", "resolving"}
        BY <2>1, <2>2
      <4>2. CASE answer'[r] \in TokenTwins(call) /\ UNCHANGED tools
        <5>1. /\ answer'[r] \in Existing' /\ tools'[answer'[r]].req \in Requests
              /\ tools[answer'[r]] = CreateCall(tools[answer'[r]].req)
              /\ tools[answer'[r]].token = call.token /\ call.token # None
          BY <4>2 DEF TypeOK, CallType, TokenTwins, Existing, Ledger, ToolInOrder
        <5>2. SameToken(tools[answer'[r]].req, r)
          BY <2>1, <5>1 DEF SameToken, CreateCall
        <5> QED BY <2>2, <3>2, <4>1, <4>2, <5>1, <5>2 DEF AnswerInOrder, SameToken
      <4>3. CASE /\ answer'[r] \in ToolIds /\ answer'[r] \notin Existing
                 /\ tools' = [tools EXCEPT ![answer'[r]] = call]
        <5>1. tools'[answer'[r]] = call /\ call # None
          BY <4>3, SandboxToolAssumption DEF TypeOK
        <5> QED BY <3>2, <4>1, <4>3, <5>1 DEF AnswerInOrder, Existing
      <4>4. CASE answer'[r] \notin ToolIds
        BY <3>2, <4>1, <4>4 DEF AnswerInOrder
      <4> QED BY <2>2, <4>2, <4>3, <4>4
    <3> QED BY <3>1, <3>2
  <2>9. ASSUME NEW s \in Requests PROVE ReplyInOrder(s)'
    <3>1. CASE s # r
      <4>1. CallsOf(s)' \subseteq CallsOf(s)
        BY <2>2 DEF CallsOf
      <4>2. ToolsOf(s)' \subseteq ToolsOf(s)
        BY <2>1, <2>2, <2>4, <2>5, <3>1 DEF ToolsOf, Existing, TypeOK, TokenTwins
      <4> QED BY <2>2, <3>1, <4>1, <4>2 DEF Ledger, ReplyInOrder, Replied
    <3>2. CASE s = r
      <4>1. call \in CallsOf(r)
        BY DEF CallsOf
      <4>2. Replied(r) => /\ ~reply[r].accepted
                          /\ reply[r].code \notin CloudCodes \cup LocalCodes
        BY <2>1, <4>1, SandboxToolAssumption DEF Ledger, ReplyInOrder
      <4> QED BY <2>1, <2>2, <3>2, <4>2 DEF Ledger, ReplyInOrder, Replied
    <3> QED BY <3>1, <3>2
  <2> QED BY <2>6, <2>7, <2>8, <2>9 DEF Ledger
<1>9. ASSUME NEW call \in inbox, CloudRefuse(call) PROVE Ledger'
  <2> DEFINE r == call.req
  <2>1. /\ r \in Requests /\ call = CreateCall(r) /\ answer[r] = None
        /\ pc[r] \in {"creating", "answered", "lost"}
    BY DEF TypeOK, CallType, Ledger, CallInOrder
  <2>2. /\ inbox' = inbox \ {call}
        /\ UNCHANGED <<payload, pc, resolved, reply, tools>>
        /\ answer'[r] = "REFUSED" /\ answer'[r] \notin ToolIds
        /\ \A s \in Requests \ {r} : answer'[s] = answer[s]
    BY <1>9, <2>1, SandboxToolAssumption DEF TypeOK, CloudRefuse, CloudCodes
  <2>3. ASSUME NEW c \in inbox' PROVE CallInOrder(c)'
    <3>1. c.req # r
      BY <2>1, <2>2, <2>3 DEF Ledger, CallInOrder, CreateCall
    <3> QED BY <2>2, <2>3, <3>1 DEF TypeOK, CallType, Ledger, CallInOrder, CreateCall
  <2>4. ASSUME NEW t \in Existing' PROVE ToolInOrder(t)'
    <3>1. t \in Existing /\ tools[t].req # r
      BY <2>1, <2>2, <2>4, SandboxToolAssumption DEF Existing, Ledger, ToolInOrder
    <3> QED BY <2>2, <3>1 DEF TypeOK, CallType, Existing, Ledger, ToolInOrder, CreateCall
  <2>5. ASSUME NEW s \in Requests PROVE AnswerInOrder(s)'
    BY <2>1, <2>2 DEF Ledger, AnswerInOrder, Existing, SameToken
  <2>6. ASSUME NEW s \in Requests PROVE ReplyInOrder(s)'
    <3>1. CallsOf(s)' \subseteq CallsOf(s) /\ ToolsOf(s)' = ToolsOf(s)
      BY <2>2 DEF CallsOf, ToolsOf, Existing
    <3>2. CASE s # r
      BY <2>2, <3>1, <3>2 DEF Ledger, ReplyInOrder, Replied
    <3>3. CASE s = r
      <4>1. call \in CallsOf(r)
        BY DEF CallsOf
      <4>2. Replied(r) => /\ ~reply[r].accepted
                          /\ reply[r].code \notin CloudCodes \cup LocalCodes
        BY <2>1, <4>1, SandboxToolAssumption DEF Ledger, ReplyInOrder
      <4> QED BY <2>1, <2>2, <3>3, <4>2 DEF Ledger, ReplyInOrder, Replied
    <3> QED BY <3>2, <3>3
  <2> QED BY <2>3, <2>4, <2>5, <2>6 DEF Ledger
<1>10. ASSUME NEW call \in inbox, LoseCall(call) PROVE Ledger'
  <2>1. inbox' \subseteq inbox /\ UNCHANGED <<requestVars, tools>>
    BY <1>10 DEF LoseCall
  <2> QED BY <2>1 DEF Ledger, CallInOrder, ToolInOrder, AnswerInOrder, ReplyInOrder,
                      CreateCall, Existing, SameToken, Replied, CallsOf, ToolsOf
<1>11. ASSUME Crash PROVE Ledger'
  <2>1. /\ UNCHANGED <<payload, resolved, answer, reply, inbox, tools>>
        /\ \A s \in Requests : pc'[s] = IF pc[s] \in {"resolving", "creating"}
                                       THEN "lost" ELSE pc[s]
    BY <1>11 DEF Crash
  <2>2. \A call \in inbox : CallInOrder(call)'
    BY <2>1 DEF TypeOK, CallType, Ledger, CallInOrder, CreateCall
  <2>3. \A t \in Existing : ToolInOrder(t)'
    BY <2>1, SandboxToolAssumption
       DEF TypeOK, CallType, Ledger, ToolInOrder, CreateCall, Existing
  <2>4. \A s \in Requests : AnswerInOrder(s)'
    BY <2>1 DEF Ledger, AnswerInOrder, Existing, SameToken
  <2>5. \A s \in Requests : ReplyInOrder(s)'
    BY <2>1 DEF Ledger, ReplyInOrder, Replied, CallsOf, ToolsOf, Existing
  <2> QED BY <2>1, <2>2, <2>3, <2>4, <2>5 DEF Ledger, Existing
<1>12. CASE \/ \E r \in Requests : EndContext(r)
            \/ \E i \in Images : Push(i)
            \/ \E t \in ToolIds : Provision(t)
            \/ \E q \in Queries : CloudDescribe(q) \/ QueryHandler(q) \/ StatusCaller(q)
            \/ UNCHANGED vars
  <2>1. UNCHANGED <<payload, pc, resolved, answer, reply, inbox, tools>>
    BY <1>12 DEF EndContext, Push, Provision, CloudDescribe, QueryHandler, DescribeReturns,
       DescribeFails, StatusCaller, AskRefused, Collect, Ask, vars
  <2> QED BY <2>1, IdleLedger
<1> QED
  BY <1>1, <1>2, <1>3, <1>4, <1>5, <1>6, <1>7, <1>8, <1>9, <1>10, <1>11, <1>12
     DEF Next, Service, Callers, Handler, Cloud

(* The ledger holds in every reachable state.                              *)
THEOREM LedgerHolds == Spec => []Ledger
<1>1. Init => TypeOK /\ Ledger
  BY InitTypeOK, InitLedger
<1>2. TypeOK /\ Ledger /\ [Next]_vars => TypeOK' /\ Ledger'
  BY NextTypeOK, NextLedger
<1> QED BY <1>1, <1>2, PTL DEF Spec

--------------------------------------------------------------------------------
(* What the ledger gives.                                                  *)

(* An accepted response names an existing tool made from this request or   *)
(* from one with the same client token.                                    *)
THEOREM AcceptedIsReal == Spec => []AcceptedToolExists
<1>1. TypeOK /\ Ledger => AcceptedToolExists
  BY DEF Ledger, AnswerInOrder, ReplyInOrder, AcceptedToolExists
<1> QED BY <1>1, TypeCorrect, LedgerHolds, PTL

(* A rejection by the server or by AGS leaves no tool behind, then or      *)
(* later.                                                                  *)
THEOREM RejectedIsFinal == Spec => []RejectionIsFinal
<1>1. TypeOK /\ Ledger => RejectionIsFinal
  <2> SUFFICES ASSUME TypeOK, Ledger, NEW r \in Requests, Replied(r),
                      reply[r].code \in LocalCodes \cup CloudCodes
               PROVE  /\ \A t \in Existing : tools[t].req # r
                      /\ \A call \in inbox : call.req # r
    BY DEF RejectionIsFinal
  <2>1. CASE reply[r].code \in LocalCodes
    BY <2>1 DEF Ledger, ReplyInOrder, CallsOf, ToolsOf
  <2>2. CASE reply[r].code \in CloudCodes
    <3>1. answer[r] \in CloudCodes
      BY <2>2 DEF Ledger, ReplyInOrder
    <3> QED BY <3>1, SandboxToolAssumption
            DEF Ledger, CallInOrder, ToolInOrder, Existing
  <2> QED BY <2>1, <2>2
<1> QED BY <1>1, TypeCorrect, LedgerHolds, PTL

--------------------------------------------------------------------------------
(* What AGS has made stays as it is.                                       *)

\* only two actions touch the tools and their states
LEMMA CloudMoves ==
    [Next]_vars => \/ UNCHANGED <<tools, status>>
                   \/ \E call \in inbox : CloudCreate(call)
                   \/ \E t \in ToolIds : Provision(t)
BY DEF Next, Service, Callers, StatusCaller, Cloud, Handler, QueryHandler, vars, cloudVars,
       Receive, ServeManifest, ResolveDone, ResolveFails, CreateReturns, CreateReturnsNoId,
       CreateFails, EndContext, Push, CloudRefuse, LoseCall, Ask, AskRefused, CloudDescribe,
       DescribeReturns, DescribeFails, Collect, Crash

(* A request nobody waits for any more, with nothing of it in the cloud    *)
(* and no answer on its way.                                               *)
Gone(r) ==
    /\ ctx[r] # "live" /\ pc[r] # "unsent" /\ answer[r] = None
    /\ CallsOf(r) = {} /\ ToolsOf(r) = {}
    /\ Replied(r) => ~reply[r].accepted /\ reply[r].code \notin CloudCodes

\* what the handler tells such a request is no answer of AGS
LEMMA ToldTheGone ==
    ASSUME TypeOK, NEW r \in Requests, answer[r] = None, pc[r] # "unsent", Next,
           reply'[r] # reply[r]
    PROVE  ~reply'[r].accepted /\ reply'[r].code \notin CloudCodes
<1>1. PICK s \in Requests : Receive(s) \/ Handler(s)
  BY DEF Next, Service, Callers, StatusCaller, Cloud, QueryHandler, cloudVars, queryVars,
     requestVars, ServeManifest, EndContext, Push, CloudCreate, CloudRefuse, LoseCall,
     Provision, Ask, AskRefused, CloudDescribe, DescribeReturns, DescribeFails, Collect, Crash
<1>2. s = r
  BY <1>1 DEF TypeOK, Receive, Handler, ResolveDone, ResolveFails, CreateReturns,
     CreateReturnsNoId, CreateFails, Answer
<1>3. ResolveDone(r) \/ ResolveFails(r) \/ CreateFails(r)
  BY <1>1, <1>2, SandboxToolAssumption
     DEF Receive, Handler, CreateReturns, CreateReturnsNoId
<1>4. PICK code \in LocalCodes \cup AmbiguousCodes : reply'[r] = rejectedResponse(code)
  BY <1>3 DEF TypeOK, ResolveDone, ResolveFails, CreateFails, FailureCodes, Answer, LocalCodes,
     AmbiguousCodes
<1> QED
  BY <1>4 DEF rejectedResponse, LocalCodes, AmbiguousCodes, CloudCodes

\* and it stays so, whatever the registry and AGS do
LEMMA NextGone ==
    ASSUME TypeOK, NEW r \in Requests, Gone(r), [Next]_vars
    PROVE  Gone(r)'
<1>1. CASE UNCHANGED vars
  BY <1>1 DEF Gone, CallsOf, ToolsOf, Existing, Replied, vars, requestVars, cloudVars
<1>2. CASE Next
  <2>1. ctx'[r] # "live"
    <3>1. CASE \E s \in Requests : EndContext(s)
      BY <3>1 DEF Gone, TypeOK, EndContext
    <3>2. CASE ctx' = ctx
      BY <3>2 DEF Gone
    <3> QED
      BY <1>2, <3>1, <3>2
         DEF Next, Service, Callers, StatusCaller, Cloud, Handler, QueryHandler, cloudVars,
             queryVars, requestVars, Receive, ServeManifest, ResolveDone, ResolveFails,
             CreateReturns, CreateReturnsNoId, CreateFails, Push, CloudCreate, CloudRefuse,
             LoseCall, Provision, Ask, AskRefused, CloudDescribe, DescribeReturns,
             DescribeFails, Collect, Crash
  <2>2. pc'[r] # "unsent"
    BY <1>2
       DEF Gone, TypeOK, Answer, Next, Service, Callers, StatusCaller, Cloud, Handler,
           QueryHandler, cloudVars, queryVars, requestVars, Receive, ServeManifest, ResolveDone,
           ResolveFails, CreateReturns, CreateReturnsNoId, CreateFails, EndContext, Push,
           CloudCreate, CloudRefuse, LoseCall, Provision, Ask, AskRefused, CloudDescribe,
           DescribeReturns, DescribeFails, Collect, Crash
  <2>3. \A call \in inbox : call.req # r
    BY DEF Gone, CallsOf
  <2>4. answer'[r] = None
    <3>1. CASE \E call \in inbox : CloudCreate(call) \/ CloudRefuse(call)
      BY <2>3, <3>1 DEF Gone, TypeOK, CloudCreate, CloudRefuse
    <3>2. CASE answer' = answer
      BY <3>2 DEF Gone
    <3> QED
      BY <1>2, <3>1, <3>2
         DEF Next, Service, Callers, StatusCaller, Cloud, Handler, QueryHandler, cloudVars,
             queryVars, requestVars, Receive, ServeManifest, ResolveDone, ResolveFails,
             CreateReturns, CreateReturnsNoId, CreateFails, EndContext, Push, LoseCall,
             Provision, Ask, AskRefused, CloudDescribe, DescribeReturns, DescribeFails,
             Collect, Crash
  <2>5. CallsOf(r)' = {}
    <3>1. CASE \E s \in Requests : ResolveDone(s)
      <4>1. PICK s \in Requests : ResolveDone(s)
        BY <3>1
      <4>2. inbox' = inbox \/ (inbox' = inbox \cup {CreateCall(s)} /\ s # r)
        BY <4>1 DEF Gone, ResolveDone
      <4> QED
        BY <2>3, <4>2 DEF CallsOf, CreateCall
    <3>2. CASE inbox' \subseteq inbox
      BY <2>3, <3>2 DEF CallsOf
    <3> QED
      BY <1>2, <3>1, <3>2
         DEF Next, Service, Callers, StatusCaller, Cloud, Handler, QueryHandler, cloudVars,
             queryVars, requestVars, Receive, ServeManifest, ResolveFails, CreateReturns,
             CreateReturnsNoId, CreateFails, EndContext, Push, CloudCreate, CloudRefuse,
             LoseCall, Provision, Ask, AskRefused, CloudDescribe, DescribeReturns,
             DescribeFails, Collect, Crash
  <2>6. ToolsOf(r)' = {}
    <3>1. CASE tools' = tools
      BY <3>1 DEF Gone, ToolsOf, Existing
    <3>2. CASE \E call \in inbox, t \in ToolIds : tools' = [tools EXCEPT ![t] = call]
      BY <2>3, <3>2 DEF Gone, ToolsOf, Existing, TypeOK
    <3>3. UNCHANGED tools \/ \E call \in inbox : CloudCreate(call)
      BY <1>2, CloudMoves DEF Provision
    <3> QED
      BY <3>1, <3>2, <3>3 DEF CloudCreate
  <2>7. Replied(r)' => ~reply'[r].accepted /\ reply'[r].code \notin CloudCodes
    BY <1>2, ToldTheGone DEF Gone, Replied
  <2> QED
    BY <2>1, <2>2, <2>4, <2>5, <2>6, <2>7 DEF Gone
<1> QED
  BY <1>1, <1>2

(* A request given up while the registry is being asked leaves nothing     *)
(* behind, for any number of requests, tokens and restarts.                *)
THEOREM GoneAreForgotten == Spec => GoneLeaveNothing
<1>1. ASSUME NEW r \in Requests
      PROVE  Spec => [](pc[r] = "resolving" /\ ctx[r] # "live" =>
                          [](/\ CallsOf(r) = {} /\ ToolsOf(r) = {}
                             /\ Replied(r) => /\ ~reply[r].accepted
                                              /\ reply[r].code \notin CloudCodes))
  <2>1. TypeOK /\ Ledger /\ pc[r] = "resolving" /\ ctx[r] # "live" => Gone(r)
    BY UnsentHasNothing DEF Gone, Ledger, AnswerInOrder, ReplyInOrder
  <2>2. TypeOK /\ Gone(r) /\ [Next]_vars => Gone(r)'
    BY NextGone
  <2>3. Gone(r) => /\ CallsOf(r) = {} /\ ToolsOf(r) = {}
                   /\ Replied(r) => /\ ~reply[r].accepted
                                    /\ reply[r].code \notin CloudCodes
    BY DEF Gone
  <2> QED
    BY <2>1, <2>2, <2>3, TypeCorrect, LedgerHolds, PTL DEF Spec
<1> QED
  BY <1>1 DEF GoneLeaveNothing

\* nobody changes what a caller sends
LEMMA PayloadStays == [Next]_vars => payload' = payload
BY DEF Next, Service, Callers, StatusCaller, Cloud, Handler, QueryHandler, vars, requestVars,
       Receive, ServeManifest, ResolveDone, ResolveFails, CreateReturns, CreateReturnsNoId,
       CreateFails, EndContext, Push, CloudCreate, CloudRefuse, LoseCall, Provision, Ask,
       AskRefused, CloudDescribe, DescribeReturns, DescribeFails, Collect, Crash

OnlyToolsHaveStates == \A t \in ToolIds : status[t] # "ABSENT" => t \in Existing

(* A tool keeps what it was made from, and the state it has come to.       *)
LEMMA ToolsStay ==
    ASSUME TypeOK, OnlyToolsHaveStates, [Next]_vars
    PROVE  /\ \A t \in Existing : t \in Existing' /\ tools'[t] = tools[t]
           /\ \A t \in ToolIds : status[t] \in Provisioned => status'[t] = status[t]
           /\ OnlyToolsHaveStates'
<1>1. CASE UNCHANGED <<tools, status>>
  BY <1>1 DEF Existing, OnlyToolsHaveStates
<1>2. CASE \E call \in inbox : CloudCreate(call)
  <2> PICK call \in inbox : CloudCreate(call)
    BY <1>2
  <2>1. CASE UNCHANGED <<tools, status>>
    BY <2>1 DEF Existing, OnlyToolsHaveStates
  <2>2. CASE \E t \in ToolIds \ Existing : /\ tools' = [tools EXCEPT ![t] = call]
                                          /\ status' = [status EXCEPT ![t] = "CREATING"]
    <3> PICK t \in ToolIds \ Existing : /\ tools' = [tools EXCEPT ![t] = call]
                                       /\ status' = [status EXCEPT ![t] = "CREATING"]
      BY <2>2
    <3>1. call # None
      BY SandboxToolAssumption DEF TypeOK
    <3>2. status[t] = "ABSENT"
      BY DEF OnlyToolsHaveStates
    <3> QED
      BY <3>1, <3>2 DEF TypeOK, Existing, Provisioned, OnlyToolsHaveStates
  <2> QED
    BY <2>1, <2>2 DEF CloudCreate
<1>3. CASE \E t \in ToolIds : Provision(t)
  BY <1>3 DEF Provision, TypeOK, Existing, Provisioned, OnlyToolsHaveStates
<1> QED
  BY <1>1, <1>2, <1>3, CloudMoves

--------------------------------------------------------------------------------
(* One tool per client token.                                              *)

OneToolPerToken ==
    \A t1, t2 \in Existing :
        tools[t1].token # None /\ tools[t1].token = tools[t2].token => t1 = t2

LEMMA NextOneTool == TypeOK /\ OneToolPerToken /\ [Next]_vars => OneToolPerToken'
<1> SUFFICES ASSUME TypeOK, OneToolPerToken, [Next]_vars PROVE OneToolPerToken'
  OBVIOUS
<1>1. CASE UNCHANGED tools
  BY <1>1 DEF OneToolPerToken, Existing
<1>2. ASSUME NEW call \in inbox, CloudCreate(call), tools' # tools PROVE OneToolPerToken'
  <2> PICK t \in ToolIds \ Existing : tools' = [tools EXCEPT ![t] = call]
    BY <1>2 DEF CloudCreate
  <2>1. \A u \in Existing : call.token # None => tools[u].token # call.token
    BY <1>2 DEF CloudCreate, TokenTwins
  <2>2. Existing' \subseteq Existing \cup {t}
    BY DEF Existing, TypeOK
  <2>3. tools'[t] = call /\ \A u \in Existing : tools'[u] = tools[u]
    BY DEF Existing, TypeOK
  <2> QED
    BY <2>1, <2>2, <2>3 DEF OneToolPerToken
<1> QED
  BY <1>1, <1>2, CloudMoves DEF Provision

(* A request that is sent again with its client token gets the same tool,  *)
(* and AGS holds one tool for it.                                          *)
THEOREM RetryIsSafe == Spec => []TokenRetryIsSafe
<1>1. Init => OneToolPerToken
  BY DEF Init, OneToolPerToken, Existing
<1>2. ASSUME TypeOK, Ledger, OneToolPerToken PROVE TokenRetryIsSafe
  <2> SUFFICES ASSUME NEW r1 \in Requests, NEW r2 \in Requests, SameToken(r1, r2)
               PROVE  /\ Replied(r1) /\ Replied(r2) /\ reply[r1].accepted /\ reply[r2].accepted
                            => reply[r1].tool = reply[r2].tool
                      /\ \A t1, t2 \in Existing :
                            tools[t1].req = r1 /\ tools[t2].req = r2 => t1 = t2
    BY DEF TokenRetryIsSafe
  <2>1. \A t \in Existing : tools[t].token = payload[tools[t].req].token
    <3>1. \A r : CreateCall(r).token = payload[r].token
      BY DEF CreateCall
    <3> QED
      BY <1>2, <3>1 DEF Ledger, ToolInOrder
  <2>2. ASSUME NEW r \in Requests, Replied(r), reply[r].accepted, payload[r].token # None
        PROVE  reply[r].tool \in Existing /\ tools[reply[r].tool].token = payload[r].token
    BY <1>2, <2>1, <2>2 DEF Ledger, AnswerInOrder, ReplyInOrder, SameToken
  <2>3. payload[r1].token # None /\ payload[r2].token = payload[r1].token
    BY DEF SameToken
  <2> QED
    BY <1>2, <2>1, <2>2, <2>3 DEF OneToolPerToken
<1> QED
  BY <1>1, <1>2, NextOneTool, TypeCorrect, LedgerHolds, PTL DEF Spec

--------------------------------------------------------------------------------
(* A name conflict is somebody else's.                                     *)

ForeignTool(r) ==
    \E t \in Existing : /\ tools[t].name = payload[r].name
                        /\ tools[t].req # r
                        /\ ~SameToken(tools[t].req, r)

ConflictsAreForeign == \A r \in Requests : answer[r] = "NAME_CONFLICT" => ForeignTool(r)

LEMMA ForeignStays ==
    ASSUME TypeOK, OnlyToolsHaveStates, [Next]_vars, NEW r \in Requests, ForeignTool(r)
    PROVE  ForeignTool(r)'
  BY ToolsStay, PayloadStays DEF ForeignTool, SameToken

\* AGS refuses the name of a tool whose token and request are not the call's
LEMMA ConflictWhenRefused ==
    ASSUME TypeOK, Ledger, NEW call \in inbox, CloudCreate(call),
           answer'[call.req] = "NAME_CONFLICT"
    PROVE  ForeignTool(call.req)
<1> DEFINE r == call.req
<1>1. call = CreateCall(r) /\ answer[r] = None /\ r \in Requests
  BY DEF Ledger, CallInOrder, TypeOK, CallType
<1>2. call.name = payload[r].name /\ call.token = payload[r].token
  BY <1>1 DEF CreateCall
<1>3. NameTaken(call) /\ TokenTwins(call) = {}
  BY <1>1, SandboxToolAssumption DEF CloudCreate, TokenTwins, Existing, CloudCodes, TypeOK
<1>4. PICK t \in Existing : tools[t].name = call.name
  BY <1>3 DEF NameTaken
<1>5. answer[tools[t].req] = t /\ tools[t] = CreateCall(tools[t].req)
  BY DEF Ledger, ToolInOrder
<1>6. tools[t].req # r
  BY <1>1, <1>5, SandboxToolAssumption DEF Existing
<1>7. tools[t].token = payload[tools[t].req].token
  <2>1. \A s : CreateCall(s).token = payload[s].token
    BY DEF CreateCall
  <2> QED
    BY <1>5, <2>1
<1>8. ~SameToken(tools[t].req, r)
  BY <1>2, <1>3, <1>7 DEF SameToken, TokenTwins
<1> QED
  BY <1>2, <1>4, <1>6, <1>8 DEF ForeignTool

LEMMA NextForeign ==
    TypeOK /\ Ledger /\ OnlyToolsHaveStates /\ ConflictsAreForeign /\ [Next]_vars
        => ConflictsAreForeign'
<1> SUFFICES ASSUME TypeOK, Ledger, OnlyToolsHaveStates, ConflictsAreForeign, [Next]_vars,
                    NEW r \in Requests, answer'[r] = "NAME_CONFLICT"
             PROVE  ForeignTool(r)'
  BY DEF ConflictsAreForeign
<1>1. CASE answer[r] = "NAME_CONFLICT"
  BY <1>1, ForeignStays DEF ConflictsAreForeign
<1>2. CASE answer[r] # "NAME_CONFLICT"
  <2>1. PICK call \in inbox : CloudCreate(call) \/ CloudRefuse(call)
    BY <1>2 DEF Next, Service, Callers, StatusCaller, Cloud, Handler, QueryHandler, vars,
         requestVars, Receive, ServeManifest, ResolveDone, ResolveFails, CreateReturns,
         CreateReturnsNoId, CreateFails, EndContext, Push, LoseCall, Provision, Ask,
         AskRefused, CloudDescribe, DescribeReturns, DescribeFails, Collect, Crash
  <2>2. call.req = r /\ CloudCreate(call)
    BY <1>2, <2>1 DEF CloudCreate, CloudRefuse, TypeOK
  <2> QED
    BY <2>2, ConflictWhenRefused, ForeignStays
<1> QED
  BY <1>1, <1>2

\* A request is never refused for a tool of its own or of its own token.
THEOREM ConflictHolds == Spec => []ConflictIsForeign
<1>1. Init => OnlyToolsHaveStates /\ ConflictsAreForeign
  BY SandboxToolAssumption DEF Init, OnlyToolsHaveStates, ConflictsAreForeign, CloudCodes
<1>2. TypeOK /\ OnlyToolsHaveStates /\ [Next]_vars => OnlyToolsHaveStates'
  BY ToolsStay
<1>3. Ledger /\ ConflictsAreForeign => ConflictIsForeign
  BY DEF Ledger, ReplyInOrder, ConflictsAreForeign, ForeignTool, ConflictIsForeign, CloudCodes
<1> QED
  BY <1>1, <1>2, <1>3, NextForeign, TypeCorrect, LedgerHolds, PTL DEF Spec

--------------------------------------------------------------------------------
(* The command is one the registry served after the request arrived.       *)

FreshInv ==
    \A r \in Requests :
        /\ since[r] # None <=> pc[r] # "unsent"
        /\ resolved[r] # None => pc[r] # "unsent" /\ since[r] <= resolved[r]
        /\ since[r] # None => since[r] <= registry[payload[r].image]

LEMMA NextFresh == TypeOK /\ FreshInv /\ [Next]_vars => FreshInv'
<1> SUFFICES ASSUME TypeOK, FreshInv, [Next]_vars PROVE FreshInv'
  OBVIOUS
<1> USE SandboxToolAssumption DEF FreshInv, TypeOK, PayloadType, Versions
<1>1. ASSUME NEW r \in Requests, Receive(r) PROVE FreshInv'
  BY <1>1 DEF Receive, Answer
<1>2. ASSUME NEW r \in Requests, ServeManifest(r) PROVE FreshInv'
  BY <1>2 DEF ServeManifest
<1>3. ASSUME NEW i \in Images, Push(i) PROVE FreshInv'
  BY <1>3 DEF Push, requestVars
<1>4. CASE UNCHANGED <<payload, since, resolved, registry>> /\
           \A r \in Requests : pc'[r] = "unsent" <=> pc[r] = "unsent"
  BY <1>4
<1>5. ASSUME NEW r \in Requests, Handler(r) PROVE FreshInv'
  BY <1>4, <1>5 DEF Handler, ResolveDone, ResolveFails, CreateReturns, CreateReturnsNoId,
                    CreateFails, Answer
<1>6. CASE Crash
  BY <1>4, <1>6 DEF Crash
<1> QED
  BY <1>1, <1>2, <1>3, <1>4, <1>5, <1>6
     DEF Next, Service, Callers, StatusCaller, Cloud, QueryHandler, vars, requestVars,
         EndContext, CloudCreate, CloudRefuse, LoseCall, Provision, Ask, AskRefused,
         CloudDescribe, DescribeReturns, DescribeFails, Collect

\* No start command is kept from before the request or from another one.
THEOREM CommandsAreFresh == Spec => []CommandIsFresh
<1>1. Init => FreshInv
  BY DEF Init, FreshInv
<1>2. ASSUME TypeOK, Ledger, FreshInv PROVE CommandIsFresh
  <2> SUFFICES ASSUME NEW t \in Existing
               PROVE  LET c == tools[t].command  r == tools[t].req IN
                      IF payload[r].explicit THEN c = OwnCommand
                                             ELSE c \in Versions /\ since[r] <= c
    BY DEF CommandIsFresh
  <2> DEFINE r == tools[t].req
  <2>1. tools[t] = CreateCall(r) /\ resolved[r] # None
    BY <1>2 DEF Ledger, ToolInOrder
  <2>2. r \in Requests
    BY <1>2 DEF TypeOK, Existing, CallType
  <2>3. \A s : CreateCall(s).command = IF payload[s].explicit THEN OwnCommand ELSE resolved[s]
    BY DEF CreateCall
  <2>4. tools[t].command = IF payload[r].explicit THEN OwnCommand ELSE resolved[r]
    BY <2>1, <2>3
  <2>5. resolved[r] \in Versions /\ since[r] <= resolved[r]
    BY <1>2, <2>1, <2>2 DEF TypeOK, FreshInv
  <2> QED
    BY <2>4, <2>5
<1> QED
  BY <1>1, <1>2, NextFresh, TypeCorrect, LedgerHolds, PTL DEF Spec

--------------------------------------------------------------------------------
(* The status endpoint.                                                    *)

(* A list in transit shows no state a tool has left, as the states shown   *)
(* as final are final.                                                     *)
Truthful ==
    /\ OnlyToolsHaveStates
    /\ \A q \in Queries, t \in ToolIds :
          listing[q] # None /\ listing[q][t] \in Provisioned => status[t] = listing[q][t]
    /\ \A q \in Queries :
          told[q] # None /\ told[q].status \in Provisioned =>
              told[q].tool \in ToolIds /\ status[told[q].tool] = told[q].status

LEMMA NextTruthful == TypeOK /\ Truthful /\ [Next]_vars => Truthful'
<1> SUFFICES ASSUME TypeOK, Truthful, [Next]_vars PROVE Truthful'
  OBVIOUS
<1>1. /\ OnlyToolsHaveStates'
      /\ \A t \in ToolIds : status[t] \in Provisioned => status'[t] = status[t]
  BY ToolsStay DEF Truthful
<1>2. CASE UNCHANGED <<listing, told>>
  BY <1>1, <1>2 DEF Truthful, TypeOK, ToldType, QueryErrors, QueryRefusals, Provisioned
<1>3. ASSUME NEW q \in Queries, CloudDescribe(q) PROVE Truthful'
  BY <1>1, <1>3 DEF CloudDescribe, cloudVars, Truthful, TypeOK, Provisioned
<1>4. ASSUME NEW q \in Queries, DescribeReturns(q) PROVE Truthful'
  BY <1>1, <1>4 DEF DescribeReturns, Tell, EndQuery, findSandboxTool, cloudVars, Truthful,
                    TypeOK, Provisioned
<1>5. ASSUME NEW q \in Queries, DescribeFails(q) PROVE Truthful'
  BY <1>1, <1>5 DEF DescribeFails, Tell, EndQuery, cloudVars, Truthful, TypeOK, Provisioned,
                    QueryErrors, QueryRefusals
<1>6. ASSUME NEW q \in Queries, NEW code \in QueryRefusals, AskRefused(q, code)
      PROVE Truthful'
  BY <1>1, <1>6 DEF AskRefused, Tell, cloudVars, Truthful, TypeOK, QueryRefusals,
                    Provisioned
<1>7. ASSUME NEW q \in Queries, Collect(q) PROVE Truthful'
  BY <1>1, <1>7 DEF Collect, cloudVars, Truthful, TypeOK, Provisioned
<1>8. CASE Crash
  BY <1>1, <1>8 DEF Crash, cloudVars, Truthful, TypeOK, Provisioned
<1> QED
  BY <1>2, <1>3, <1>4, <1>5, <1>6, <1>7, <1>8
     DEF Next, Service, Callers, StatusCaller, Cloud, Handler, QueryHandler, vars, queryVars,
         Receive, ServeManifest, ResolveDone, ResolveFails, CreateReturns, CreateReturnsNoId,
         CreateFails, EndContext, Push, CloudCreate, CloudRefuse, LoseCall, Provision, Ask

\* A tool is reported ACTIVE or FAILED only when it is.
THEOREM StatusHolds == Spec => []StatusIsTruthful
<1>1. Init => Truthful
  BY DEF Init, Truthful, OnlyToolsHaveStates
<1>2. Truthful => StatusIsTruthful
  BY DEF Truthful, StatusIsTruthful
<1> QED
  BY <1>1, <1>2, NextTruthful, TypeCorrect, PTL DEF Spec

--------------------------------------------------------------------------------
(* The endpoint implements ToolPromise.                                    *)

phases == [r \in Requests |-> PhaseOf(r)]
makers == {tools[t].req : t \in Existing}
tokens == [r \in Requests |-> payload[r].token]

\* the steps of the promise, for the state the endpoint stands for
LEMMA PromiseSteps ==
    /\ Promise!Init <=> /\ tokens \in [Requests -> Tokens \cup {None}]
                        /\ phases = [r \in Requests |-> "idle"]
                        /\ makers = {}
    /\ [Promise!Next]_(Promise!vars) <=>
         \/ Promise!Next
         \/ UNCHANGED <<tokens, phases, makers>>
  BY DEF Promise!Init, Promise!vars, phases, makers, tokens

\* what one request's handler does changes the phase of that request alone
LEMMA OnePhase ==
    ASSUME NEW r \in Requests, NEW p,
           \A s \in Requests \ {r} : pc'[s] = pc[s] /\ reply'[s] = reply[s],
           PhaseOf(r)' = p
    PROVE  phases' = [phases EXCEPT ![r] = p]
<1>1. \A s \in Requests \ {r} : PhaseOf(s)' = PhaseOf(s)
  BY DEF PhaseOf, Outcome
<1> QED
  BY <1>1 DEF phases

LEMMA SamePhases ==
    ASSUME \A s \in Requests : /\ reply'[s] = reply[s]
                               /\ \/ pc'[s] = pc[s]
                                  \/ {pc[s], pc'[s]} \subseteq {"resolving", "creating"}
    PROVE  phases' = phases
<1>1. ASSUME NEW s \in Requests PROVE PhaseOf(s)' = PhaseOf(s)
  <2>1. CASE pc'[s] = pc[s]
    BY <2>1 DEF PhaseOf, Outcome
  <2>2. CASE {pc[s], pc'[s]} \subseteq {"resolving", "creating"}
    BY <2>2 DEF PhaseOf
  <2> QED
    BY <2>1, <2>2
<1> QED
  BY <1>1 DEF phases

\* the promise's actions in these terms
LEMMA PromiseActions ==
    ASSUME NEW r \in Requests
    PROVE  /\ Promise!Open(r) <=> /\ phases[r] = "idle"
                                 /\ phases' = [phases EXCEPT ![r] = "open"]
                                 /\ UNCHANGED <<tokens, makers>>
           /\ Promise!Effect(r) <=> /\ phases[r] \in {"open", "unknown"}
                                   /\ Promise!Twins(r) \cap makers = {}
                                   /\ makers' = makers \cup {r}
                                   /\ UNCHANGED <<tokens, phases>>
           /\ Promise!Accept(r) <=> /\ phases[r] = "open"
                                   /\ Promise!Twins(r) \cap makers # {}
                                   /\ phases' = [phases EXCEPT ![r] = "accepted"]
                                   /\ UNCHANGED <<tokens, makers>>
           /\ Promise!Refuse(r) <=> /\ phases[r] \in {"idle", "open"}
                                   /\ r \notin makers
                                   /\ phases' = [phases EXCEPT ![r] = "refused"]
                                   /\ UNCHANGED <<tokens, makers>>
  BY DEF Promise!Open, Promise!Effect, Promise!Accept, Promise!Refuse, phases, makers, tokens

LEMMA PromiseGivesUp ==
    ASSUME NEW S \in SUBSET Requests
    PROVE  Promise!GiveUp(S) <=>
             /\ S # {}
             /\ \A r \in S : phases[r] = "open"
             /\ phases' = [r \in Requests |-> IF r \in S THEN "unknown" ELSE phases[r]]
             /\ UNCHANGED <<tokens, makers>>
  BY DEF Promise!GiveUp, phases, makers, tokens

LEMMA PromiseTwins ==
    ASSUME NEW r \in Requests
    PROVE  Promise!Twins(r) = {s \in Requests : s = r \/ SameToken(r, s)}
  BY DEF Promise!Twins, SameToken

LEMMA PromiseNext ==
    /\ \A r \in Requests : Promise!Open(r) \/ Promise!Effect(r) \/ Promise!Accept(r)
                              \/ Promise!Refuse(r) => Promise!Next
    /\ \A S \in SUBSET Requests : Promise!GiveUp(S) => Promise!Next
  BY DEF Promise!Next

--------------------------------------------------------------------------------
(* What the ledger says in the promise's terms.                            *)

LEMMA NotMade ==
    ASSUME TypeOK, Ledger, NEW r \in Requests, answer[r] \notin ToolIds
    PROVE  r \notin makers
  BY DEF Ledger, ToolInOrder, Existing, makers

LEMMA MadeStays == UNCHANGED <<payload, tools>> => UNCHANGED <<tokens, makers>>
  BY DEF tokens, makers, Existing

PromiseStep == [Promise!Next]_(Promise!vars)

LEMMA PromiseReceive ==
    ASSUME TypeOK, Ledger, NEW r \in Requests, Receive(r)
    PROVE  PromiseStep
<1>1. UNCHANGED <<tokens, makers>>
  BY MadeStays DEF Receive, cloudVars
<1>2. pc[r] = "unsent" /\ phases[r] = "idle"
  BY DEF Receive, phases, PhaseOf
<1>3. answer[r] = None /\ r \notin makers
  BY <1>2, NotMade, SandboxToolAssumption DEF Ledger, AnswerInOrder
<1>4. CASE ScreenCode(r) # "PASS" /\ Answer(r, rejectedResponse(ScreenCode(r)))
  <2>1. ScreenCode(r) \in LocalCodes
    BY <1>4 DEF ScreenCode, LocalCodes
  <2>2. pc'[r] = "answered" /\ reply'[r] = rejectedResponse(ScreenCode(r))
    BY <1>4 DEF Answer, TypeOK
  <2>3. PhaseOf(r)' = "refused"
    BY <2>1, <2>2 DEF PhaseOf, Outcome, rejectedResponse
  <2>4. phases' = [phases EXCEPT ![r] = "refused"]
    BY <1>4, <2>3, OnePhase DEF Answer, TypeOK
  <2> QED
    BY <1>1, <1>2, <1>3, <2>4, PromiseActions, PromiseNext DEF PromiseStep
<1>5. CASE pc' = [pc EXCEPT ![r] = "resolving"] /\ UNCHANGED reply
  <2>1. PhaseOf(r)' = "open"
    BY <1>5 DEF PhaseOf, TypeOK
  <2>2. phases' = [phases EXCEPT ![r] = "open"]
    BY <1>5, <2>1, OnePhase DEF TypeOK
  <2> QED
    BY <1>1, <1>2, <2>2, PromiseActions, PromiseNext DEF PromiseStep
<1> QED
  BY <1>4, <1>5 DEF Receive

\* a handler answers an open request with a rejection it can stand by
LEMMA PromiseRejects ==
    ASSUME TypeOK, Ledger, NEW r \in Requests, pc[r] \in {"resolving", "creating"},
           answer[r] \notin ToolIds, UNCHANGED <<payload, tools>>,
           NEW code \in LocalCodes \cup CloudCodes, Answer(r, rejectedResponse(code))
    PROVE  PromiseStep
<1>1. UNCHANGED <<tokens, makers>> /\ r \notin makers
  BY MadeStays, NotMade
<1>2. phases[r] = "open"
  BY DEF phases, PhaseOf
<1>3. pc'[r] = "answered" /\ reply'[r] = rejectedResponse(code)
  BY DEF Answer, TypeOK
<1>4. PhaseOf(r)' = "refused"
  BY <1>3 DEF PhaseOf, Outcome, rejectedResponse
<1>5. phases' = [phases EXCEPT ![r] = "refused"]
  BY <1>4, OnePhase DEF Answer, TypeOK
<1> QED
  BY <1>1, <1>2, <1>5, PromiseActions, PromiseNext DEF PromiseStep

\* or with one that leaves the outcome open
LEMMA PromiseDoubts ==
    ASSUME TypeOK, NEW r \in Requests, pc[r] \in {"resolving", "creating"},
           UNCHANGED <<payload, tools>>,
           NEW code \in AmbiguousCodes, Answer(r, rejectedResponse(code))
    PROVE  PromiseStep
<1>1. UNCHANGED <<tokens, makers>>
  BY MadeStays
<1>2. phases[r] = "open"
  BY DEF phases, PhaseOf
<1>3. pc'[r] = "answered" /\ reply'[r] = rejectedResponse(code)
  BY DEF Answer, TypeOK
<1>4. code \notin LocalCodes \cup CloudCodes
  BY DEF AmbiguousCodes, LocalCodes, CloudCodes
<1>5. PhaseOf(r)' = "unknown"
  BY <1>3, <1>4 DEF PhaseOf, Outcome, rejectedResponse
<1>6. phases' = [phases EXCEPT ![r] = "unknown"]
  BY <1>5, OnePhase DEF Answer, TypeOK
<1>7. phases' = [s \in Requests |-> IF s \in {r} THEN "unknown" ELSE phases[s]]
  BY <1>6 DEF phases
<1>8. Promise!GiveUp({r})
  BY <1>1, <1>2, <1>7, PromiseGivesUp
<1> QED
  BY <1>8, PromiseNext DEF PromiseStep

LEMMA PromiseAccepts ==
    ASSUME TypeOK, Ledger, NEW r \in Requests, pc[r] = "creating", answer[r] \in ToolIds,
           UNCHANGED <<payload, tools>>, Answer(r, acceptedResponse(answer[r]))
    PROVE  PromiseStep
<1>1. UNCHANGED <<tokens, makers>>
  BY MadeStays
<1>2. phases[r] = "open"
  BY DEF phases, PhaseOf
<1>3. pc'[r] = "answered" /\ reply'[r] = acceptedResponse(answer[r])
  BY DEF Answer, TypeOK
<1>4. PhaseOf(r)' = "accepted"
  BY <1>3 DEF PhaseOf, Outcome, acceptedResponse, LocalCodes, CloudCodes
<1>5. phases' = [phases EXCEPT ![r] = "accepted"]
  BY <1>4, OnePhase DEF Answer, TypeOK
<1>6. answer[r] \in Existing /\ (tools[answer[r]].req = r \/ SameToken(tools[answer[r]].req, r))
  BY DEF Ledger, AnswerInOrder
<1>7. tools[answer[r]].req \in Promise!Twins(r) \cap makers
  BY <1>6, PromiseTwins DEF makers, SameToken, TypeOK, Existing, CallType
<1> QED
  BY <1>1, <1>2, <1>5, <1>7, PromiseActions, PromiseNext DEF PromiseStep

\* a crash leaves every open request in doubt at once
LEMMA PromiseCrash ==
    ASSUME TypeOK, Crash
    PROVE  PromiseStep
<1> DEFINE S == {r \in Requests : pc[r] \in {"resolving", "creating"}}
<1>1. UNCHANGED <<tokens, makers>>
  BY MadeStays DEF Crash, cloudVars
<1>2. \A r \in S : phases[r] = "open"
  BY DEF phases, PhaseOf
<1>3. phases' = [r \in Requests |-> IF r \in S THEN "unknown" ELSE phases[r]]
  <2>1. ASSUME NEW r \in Requests
        PROVE  PhaseOf(r)' = IF r \in S THEN "unknown" ELSE PhaseOf(r)
    <3>1. CASE r \in S
      BY <3>1 DEF Crash, PhaseOf
    <3>2. CASE r \notin S
      <4>1. pc'[r] = pc[r] /\ reply'[r] = reply[r]
        BY <3>2 DEF Crash
      <4> QED
        BY <3>2, <4>1 DEF PhaseOf, Outcome
    <3> QED
      BY <3>1, <3>2
  <2> QED
    BY <2>1 DEF phases
<1>4. CASE S = {}
  BY <1>1, <1>3, <1>4, PromiseSteps DEF phases, PromiseStep
<1>5. CASE S # {}
  <2>1. Promise!GiveUp(S)
    BY <1>1, <1>2, <1>3, <1>5, PromiseGivesUp
  <2> QED
    BY <2>1, PromiseNext DEF PromiseStep
<1> QED
  BY <1>4, <1>5

\* AGS acts on a call at most once, and once for all calls of one token
LEMMA PromiseEffect ==
    ASSUME TypeOK, Ledger, NEW call \in inbox, NEW t \in ToolIds \ Existing,
           TokenTwins(call) = {}, tools' = [tools EXCEPT ![t] = call],
           UNCHANGED <<payload, pc, reply>>
    PROVE  PromiseStep
<1> DEFINE r == call.req
<1>1. /\ r \in Requests
      /\ CallInOrder(call)
  BY DEF Ledger, TypeOK, CallType
<1>2. answer[r] = None
  BY <1>1 DEF CallInOrder
<1>3. phases[r] \in {"open", "unknown"}
  <2>1. CASE pc[r] = "answered"
    <3>1. Replied(r) /\ ReplyInOrder(r)
      BY <1>1, <2>1 DEF Ledger, ReplyInOrder
    <3>2. reply[r].code \notin CloudCodes
      BY <1>2, <3>1, SandboxToolAssumption DEF ReplyInOrder
    <3>3. reply[r].code \notin LocalCodes
      BY <3>1 DEF ReplyInOrder, CallsOf
    <3>4. ~reply[r].accepted
      BY <1>2, <3>1, SandboxToolAssumption DEF ReplyInOrder
    <3>5. Outcome(r) = "unknown"
      BY <3>2, <3>3, <3>4 DEF Outcome
    <3> QED
      BY <1>1, <2>1, <3>5 DEF phases, PhaseOf
  <2>2. CASE pc[r] \in {"creating", "lost"}
    BY <1>1, <2>2 DEF phases, PhaseOf
  <2> QED
    BY <1>1, <2>1, <2>2 DEF CallInOrder
<1>4. Promise!Twins(r) \cap makers = {}
  <2>1. ASSUME NEW s \in Requests, s = r \/ SameToken(r, s), s \in makers PROVE FALSE
    <3>1. PICK u \in Existing : tools[u].req = s
      BY <2>1 DEF makers
    <3>2. ToolInOrder(u)
      BY <3>1 DEF Ledger
    <3>3. u \in ToolIds /\ answer[s] = u /\ tools[u].token = payload[s].token
      BY <3>1, <3>2 DEF ToolInOrder, CreateCall, Existing
    <3>4. s # r
      BY <1>2, <3>3, SandboxToolAssumption
    <3>5. call.token = payload[r].token
      BY <1>1 DEF CallInOrder, CreateCall
    <3>6. u \in TokenTwins(call)
      BY <2>1, <3>1, <3>3, <3>4, <3>5 DEF TokenTwins, SameToken
    <3> QED
      BY <3>6
  <2> QED
    BY <2>1, <1>1, PromiseTwins
<1>5. makers' = makers \cup {r}
  <2>1. Existing' = Existing \cup {t}
    <3>1. call # None
      BY SandboxToolAssumption DEF TypeOK
    <3> QED
      BY <3>1 DEF Existing, TypeOK
  <2>2. tools'[t] = call /\ \A u \in Existing : tools'[u] = tools[u]
    BY DEF TypeOK, Existing
  <2> QED
    BY <2>1, <2>2 DEF makers
<1>6. UNCHANGED <<tokens, phases>>
  BY SamePhases DEF tokens
<1>7. Promise!Effect(r)
  BY <1>1, <1>3, <1>4, <1>5, <1>6, PromiseActions
<1> QED
  BY <1>1, <1>7, PromiseNext DEF PromiseStep

\* what else happens the promise does not see
LEMMA PromiseStutter ==
    ASSUME UNCHANGED <<payload, tools, reply>>,
           \A s \in Requests :
              pc'[s] = pc[s] \/ {pc[s], pc'[s]} \subseteq {"resolving", "creating"}
    PROVE  PromiseStep
BY SamePhases, MadeStays, PromiseSteps DEF PromiseStep

LEMMA NextPromise == TypeOK /\ Ledger /\ [Next]_vars => PromiseStep
<1> SUFFICES ASSUME TypeOK, Ledger, [Next]_vars PROVE PromiseStep
  OBVIOUS
<1> USE DEF cloudVars, queryVars, requestVars
<1>1. ASSUME NEW r \in Requests, Receive(r) PROVE PromiseStep
  BY <1>1, PromiseReceive
<1>2. ASSUME NEW r \in Requests, ResolveDone(r) PROVE PromiseStep
  <2>1. CASE Builds(r)
    BY <1>2, <2>1, PromiseStutter DEF ResolveDone, TypeOK
  <2>2. CASE ~Builds(r)
    <3>1. answer[r] \notin ToolIds
      BY <1>2, SandboxToolAssumption DEF ResolveDone, Ledger, AnswerInOrder
    <3>2. "INVALID_ARGUMENT" \in LocalCodes
      BY DEF LocalCodes
    <3> QED
      BY <1>2, <2>2, <3>1, <3>2, PromiseRejects DEF ResolveDone
  <2> QED
    BY <2>1, <2>2
<1>3. ASSUME NEW r \in Requests, ResolveFails(r) PROVE PromiseStep
  <2>1. answer[r] \notin ToolIds
    BY <1>3, SandboxToolAssumption DEF ResolveFails, Ledger, AnswerInOrder
  <2>2. "IMAGE_COMMAND_RESOLVE_FAILED" \in LocalCodes
    BY DEF LocalCodes
  <2> QED
    BY <1>3, <2>1, <2>2, PromiseRejects DEF ResolveFails
<1>4. ASSUME NEW r \in Requests, CreateReturns(r) PROVE PromiseStep
  <2>1. CASE answer[r] \in ToolIds
    BY <1>4, <2>1, PromiseAccepts DEF CreateReturns
  <2>2. CASE answer[r] \notin ToolIds
    <3>1. answer[r] \in LocalCodes \cup CloudCodes
      BY <1>4, <2>2 DEF CreateReturns, TypeOK
    <3> QED
      BY <1>4, <2>2, <3>1, PromiseRejects DEF CreateReturns
  <2> QED
    BY <2>1, <2>2
<1>5. ASSUME NEW r \in Requests, CreateReturnsNoId(r) PROVE PromiseStep
  <2>1. "INVALID_CLOUD_RESPONSE" \in AmbiguousCodes
    BY DEF AmbiguousCodes
  <2> QED
    BY <1>5, <2>1, PromiseDoubts DEF CreateReturnsNoId
<1>6. ASSUME NEW r \in Requests, CreateFails(r) PROVE PromiseStep
  <2>1. PICK code \in FailureCodes(r) : Answer(r, rejectedResponse(code))
    BY <1>6 DEF CreateFails
  <2>2. code \in AmbiguousCodes
    BY DEF FailureCodes, AmbiguousCodes
  <2> QED
    BY <1>6, <2>1, <2>2, PromiseDoubts DEF CreateFails
<1>7. CASE Crash
  BY <1>7, PromiseCrash
<1>8. ASSUME NEW call \in inbox, CloudCreate(call) PROVE PromiseStep
  <2>1. CASE UNCHANGED tools
    BY <1>8, <2>1, PromiseStutter DEF CloudCreate
  <2>2. CASE /\ TokenTwins(call) = {}
             /\ \E t \in ToolIds \ Existing : tools' = [tools EXCEPT ![t] = call]
    BY <1>8, <2>2, PromiseEffect DEF CloudCreate
  <2> QED
    BY <1>8, <2>1, <2>2 DEF CloudCreate
<1>9. CASE UNCHANGED <<payload, tools, reply, pc>>
  BY <1>9, PromiseStutter
<1> QED
  BY <1>1, <1>2, <1>3, <1>4, <1>5, <1>6, <1>7, <1>8, <1>9
     DEF Next, Service, Callers, StatusCaller, Cloud, Handler, QueryHandler, vars,
         ServeManifest, EndContext, Push, CloudRefuse, LoseCall, Provision, Ask, AskRefused,
         CloudDescribe, DescribeReturns, DescribeFails, EndQuery, Collect

\* The create endpoint, with the registry, AGS and crashes, does what ToolPromise promises:
\* every behaviour of it is one of the promise.
THEOREM PromiseIsKept == Spec => KeepsPromise
<1>1. Init => Promise!Init
  <2> SUFFICES ASSUME Init PROVE Promise!Init
    OBVIOUS
  <2>1. tokens \in [Requests -> Tokens \cup {None}]
    BY SandboxToolAssumption DEF Init, tokens, PayloadType
  <2>2. phases = [r \in Requests |-> "idle"]
    BY DEF Init, phases, PhaseOf
  <2>3. makers = {}
    BY DEF Init, makers, Existing
  <2> QED
    BY <2>1, <2>2, <2>3, PromiseSteps
<1>2. TypeOK /\ Ledger /\ [Next]_vars => [Promise!Next]_(Promise!vars)
  BY NextPromise DEF PromiseStep
<1> QED
  BY <1>1, <1>2, TypeCorrect, LedgerHolds, PTL DEF Spec, KeepsPromise, Promise!SafeSpec

==============================================================================
