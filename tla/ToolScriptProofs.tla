--------------------------- MODULE ToolScriptProofs ---------------------------
(* Theorems about ToolScript: the scripts see the server as SandboxTool    *)
(* describes it, and what they tell their users is true, for any number of *)
(* users, crashes and status calls.                                        *)
EXTENDS ToolScript, SandboxToolProofs

Watching(c) == at[c] \in {"polling", "asking", "sleeping"}

(* The tool a script watches is the one its caller was given; the status   *)
(* call in its slot is about that tool; its verdict is the tool's state.   *)
WatchInOrder(c) ==
    /\ tool[c] # None => Replied(c) /\ reply[c].accepted /\ reply[c].tool = tool[c]
    /\ Watching(c) => tool[c] # None
    /\ at[c] = "asking" => /\ asked[c] \in {None, tool[c]}
                           /\ told[c] # None => told[c].tool \in {None, tool[c]}
    /\ exit[c] \in {"active", "failed"} =>
          /\ at[c] = "exited"
          /\ tool[c] # None
          /\ status[tool[c]] = (IF Succeeded(c) THEN "ACTIVE" ELSE "FAILED")

ScriptInv ==
    /\ at \in [Requests -> {"tool", "posted", "polling", "asking", "sleeping", "exited"}]
    /\ tool \in [Requests -> ToolIds \cup {None}]
    /\ DOMAIN exit = Requests
    /\ \A c \in Requests : WatchInOrder(c)

ServerInv == TypeOK /\ Ledger /\ Truthful

--------------------------------------------------------------------------------
(* A script is one of the callers SandboxTool allows.                      *)
LEMMA ScriptIsCaller == TypeOK /\ ScriptInv /\ [ScriptNext]_allVars => [Next]_vars
<1> SUFFICES ASSUME TypeOK, ScriptInv, [ScriptNext]_allVars PROVE [Next]_vars
  OBVIOUS
<1>1. CASE Service \/ UNCHANGED allVars
  BY <1>1 DEF Next, allVars
<1>2. ASSUME NEW q \in Queries, StatusCaller(q) PROVE Next
  BY <1>2 DEF Next, Callers
<1>3. ASSUME NEW c \in Requests, Script(c) PROVE [Next]_vars
  <2>1. CASE PostTool(c)
    BY <2>1 DEF PostTool, Next, Callers
  <2>2. CASE Poll(c)
    <3>1. tool[c] \in ToolIds
      BY <2>2 DEF Poll, ScriptInv, WatchInOrder, Watching
    <3>2. CASE Ask(c, tool[c]) \/ AskRefused(c, "UNAUTHORIZED")
      BY <3>1, <3>2, <1>2, ToolScriptAssumption DEF StatusCaller, QueryRefusals
    <3> QED
      BY <2>2, <3>2 DEF Poll
  <2>3. CASE PollAnswered(c)
    BY <2>3, <1>2, ToolScriptAssumption DEF PollAnswered, StatusCaller
  <2>4. CASE UNCHANGED vars
    BY <2>4
  <2> QED
    BY <1>3, <2>1, <2>2, <2>3, <2>4 DEF Script, PostFails, PostAnswered, PostBroken, Wake, TimeUp
<1> QED
  BY <1>1, <1>2, <1>3 DEF ScriptNext

LEMMA NextServer == ServerInv /\ [Next]_vars => ServerInv'
BY NextTypeOK, NextLedger, NextTruthful DEF ServerInv

\* a caller is answered once
LEMMA ReplyStays ==
    ASSUME TypeOK, Ledger, [Next]_vars, NEW r \in Requests, Replied(r)
    PROVE  reply'[r] = reply[r]
<1>1. pc[r] = "answered"
  BY DEF Ledger, ReplyInOrder
<1>2. ASSUME NEW s \in Requests, NEW response, pc[s] # "answered", Answer(s, response)
      PROVE  reply'[r] = reply[r]
  BY <1>1, <1>2 DEF Answer, TypeOK
<1>3. CASE reply' = reply
  BY <1>3
<1> QED
  BY <1>2, <1>3 DEF Next, Service, Callers, StatusCaller, Cloud, Handler, QueryHandler, vars,
       requestVars, Receive, ServeManifest, ResolveDone, ResolveFails, CreateReturns,
       CreateReturnsNoId, CreateFails, EndContext, Push, CloudCreate, CloudRefuse, LoseCall,
       Provision, Ask, AskRefused, CloudDescribe, DescribeReturns, DescribeFails, Collect, Crash

(* Whatever the server does, and whoever else asks, the call in a script's *)
(* slot stays the script's.                                                *)
LEMMA SlotStays ==
    ASSUME TypeOK, NEW c \in Requests,
           Service \/ \E q \in Queries \ Requests : StatusCaller(q)
    PROVE  /\ asked'[c] \in {None, asked[c]}
           /\ told'[c] # None => told'[c] = told[c] \/ told'[c].tool = asked[c]
<1> DEFINE Same == /\ asked'[c] \in {None, asked[c]}
                   /\ told'[c] # None => told'[c] = told[c] \/ told'[c].tool = asked[c]
<1> SUFFICES Same
  OBVIOUS
<1>0. c \in Queries
  BY ToolScriptAssumption
<1>1. CASE UNCHANGED <<asked, told>>
  BY <1>1
<1>2. ASSUME NEW q \in Queries, QueryHandler(q) PROVE Same
  BY <1>0, <1>2 DEF QueryHandler, DescribeReturns, DescribeFails, EndQuery, Tell, TypeOK
<1>3. ASSUME NEW q \in Queries \ Requests, StatusCaller(q) PROVE Same
  BY <1>0, <1>3 DEF StatusCaller, Ask, AskRefused, Tell, Collect, TypeOK
<1>4. CASE Crash
  BY <1>0, <1>4 DEF Crash, TypeOK
<1> QED
  BY <1>1, <1>2, <1>3, <1>4
     DEF Service, Cloud, Handler, requestVars, queryVars, ServeManifest, ResolveDone,
         ResolveFails, CreateReturns, CreateReturnsNoId, CreateFails, EndContext, Push,
         CloudCreate, CloudRefuse, LoseCall, Provision, CloudDescribe

--------------------------------------------------------------------------------
(* The scripts' own steps.                                                 *)

LEMMA InitScriptInv == ScriptInit => ScriptInv
BY SandboxToolAssumption, ToolScriptAssumption
   DEF ScriptInit, Init, ScriptInv, WatchInOrder, Watching

\* what a script was answered stays true while others move, and so does its verdict
LEMMA AnswerStays ==
    ASSUME ServerInv, ScriptInv, [Next]_vars, NEW c \in Requests, tool[c] # None
    PROVE  Replied(c)' /\ reply'[c].accepted /\ reply'[c].tool = tool[c]
<1>1. Replied(c) /\ reply[c].accepted /\ reply[c].tool = tool[c]
  BY DEF ScriptInv, WatchInOrder
<1>2. reply'[c] = reply[c]
  BY <1>1, ReplyStays DEF ServerInv
<1> QED
  BY <1>1, <1>2 DEF Replied

LEMMA VerdictStays ==
    ASSUME ServerInv, ScriptInv, [Next]_vars, NEW c \in Requests, exit[c] \in {"active", "failed"}
    PROVE  status'[tool[c]] = IF Succeeded(c) THEN "ACTIVE" ELSE "FAILED"
<1>1. \A t \in ToolIds : status[t] \in Provisioned => status'[t] = status[t]
  BY ToolsStay DEF ServerInv, Truthful
<1>2. tool[c] \in ToolIds /\ status[tool[c]] = IF Succeeded(c) THEN "ACTIVE" ELSE "FAILED"
  BY DEF WatchInOrder, ScriptInv
<1> QED
  BY <1>1, <1>2 DEF Provisioned

\* a script that does not move keeps its order if its slot is kept
LEMMA IdleScript ==
    ASSUME ServerInv, ScriptInv, [Next]_vars, NEW c \in Requests,
           UNCHANGED <<at[c], tool[c], exit[c]>>,
           asked'[c] \in {None, asked[c]},
           told'[c] # None => told'[c] = told[c] \/ told'[c].tool = asked[c]
    PROVE  WatchInOrder(c)'
BY AnswerStays, VerdictStays DEF ScriptInv, WatchInOrder, Watching, Succeeded

LEMMA NextScriptInv == ServerInv /\ ScriptInv /\ [ScriptNext]_allVars => ScriptInv'
<1> SUFFICES ASSUME ServerInv, ScriptInv, [ScriptNext]_allVars PROVE ScriptInv'
  OBVIOUS
<1>1. [Next]_vars /\ TypeOK
  BY ScriptIsCaller DEF ServerInv
<1>2. CASE (Service \/ \E q \in Queries \ Requests : StatusCaller(q)) /\ UNCHANGED scriptVars
  <2>1. \A c \in Requests : WatchInOrder(c)'
    BY <1>1, <1>2, SlotStays, IdleScript DEF scriptVars
  <2> QED
    BY <1>2, <2>1 DEF ScriptInv, scriptVars
<1>3. CASE UNCHANGED allVars
  <2>1. \A c \in Requests : WatchInOrder(c)'
    BY <1>1, <1>3, IdleScript DEF scriptVars, allVars, vars, queryVars
  <2> QED
    BY <1>3, <2>1 DEF ScriptInv, scriptVars, allVars
<1>4. ASSUME NEW c \in Requests, Script(c) PROVE ScriptInv'
  <2>1. /\ c \in Queries
        /\ WatchInOrder(c)
    BY ToolScriptAssumption DEF ScriptInv
  <2>2. \A d \in Requests \ {c} : UNCHANGED <<at[d], tool[d], exit[d]>>
    BY <1>4 DEF Script, PostTool, PostFails, PostAnswered, PostBroken, Poll, PollAnswered, Wake,
                TimeUp, Exit, ScriptInv
  <2>3. \A d \in Requests \ {c} : UNCHANGED <<asked[d], told[d]>>
    <3>1. CASE UNCHANGED queryVars
      BY <3>1 DEF queryVars
    <3>2. CASE Ask(c, tool[c]) \/ AskRefused(c, "UNAUTHORIZED") \/ Collect(c)
      BY <1>1, <2>1, <3>2, ToolScriptAssumption DEF Ask, AskRefused, Tell, Collect, TypeOK
    <3> QED
      BY <1>4, <3>1, <3>2 DEF Script, PostTool, PostFails, PostAnswered, PostBroken, Poll,
                PollAnswered, Wake, TimeUp, vars, Receive
  <2>4. \A d \in Requests \ {c} : WatchInOrder(d)'
    BY <1>1, <2>2, <2>3, IdleScript
  <2>5. /\ at' \in [Requests -> {"tool", "posted", "polling", "asking", "sleeping", "exited"}]
        /\ DOMAIN exit' = Requests
    BY <1>4 DEF Script, PostTool, PostFails, PostAnswered, PostBroken, Poll, PollAnswered, Wake,
                TimeUp, Exit, ScriptInv
  <2>6. WatchInOrder(c)' /\ tool' \in [Requests -> ToolIds \cup {None}]
    <3>1. CASE PostTool(c) \/ Wake(c)
      <4>1. /\ UNCHANGED <<tool, exit>>
            /\ at[c] # "exited" /\ at'[c] \in {"posted", "polling"}
            /\ at'[c] = "polling" => Watching(c)
        BY <3>1 DEF PostTool, Wake, ScriptInv, Watching
      <4>2. tool'[c] # None => Replied(c)' /\ reply'[c].accepted /\ reply'[c].tool = tool'[c]
        BY <1>1, <4>1, AnswerStays
      <4>3. Watching(c)' => tool'[c] # None
        BY <2>1, <4>1 DEF WatchInOrder, Watching
      <4>4. at'[c] # "asking" /\ exit'[c] \notin {"active", "failed"}
        BY <2>1, <4>1 DEF WatchInOrder
      <4> QED
        BY <4>1, <4>2, <4>3, <4>4 DEF ScriptInv, WatchInOrder
    <3>2. CASE PostFails(c) \/ PostBroken(c) \/ TimeUp(c)
      <4>1. UNCHANGED tool /\ at'[c] = "exited" /\ exit'[c] \in {"notCreated", "timeout"}
        BY <3>2 DEF PostFails, PostBroken, TimeUp, Exit, ScriptInv
      <4>2. tool'[c] # None => Replied(c)' /\ reply'[c].accepted /\ reply'[c].tool = tool'[c]
        BY <1>1, <4>1, AnswerStays
      <4>3. ~Watching(c)' /\ at'[c] # "asking" /\ exit'[c] \notin {"active", "failed"}
        BY <4>1 DEF Watching
      <4> QED
        BY <4>1, <4>2, <4>3 DEF ScriptInv, WatchInOrder
    <3>3. CASE PostAnswered(c)
      <4>1. CASE reply[c].accepted
        <5>1. /\ tool' = [tool EXCEPT ![c] = reply[c].tool]
              /\ at'[c] = "polling" /\ exit' = exit /\ pc[c] = "answered"
              /\ UNCHANGED <<reply, status>>
          BY <3>3, <4>1 DEF PostAnswered, ScriptInv, vars, requestVars, cloudVars
        <5>2. Replied(c) /\ reply[c].tool \in ToolIds
          BY <4>1, <5>1 DEF ServerInv, Ledger, ReplyInOrder
        <5>3. exit[c] \notin {"active", "failed"}
          BY <2>1, <3>3 DEF PostAnswered, WatchInOrder
        <5> QED
          BY <4>1, <5>1, <5>2, <5>3, SandboxToolAssumption
             DEF ScriptInv, WatchInOrder, Watching, Replied
      <4>2. CASE ~reply[c].accepted
        <5>1. UNCHANGED tool /\ at'[c] = "exited" /\ exit'[c] = "notCreated"
          BY <3>3, <4>2 DEF PostAnswered, Exit, ScriptInv
        <5> QED
          BY <1>1, <2>1, <5>1, AnswerStays DEF ScriptInv, WatchInOrder, Watching
      <4> QED
        BY <4>1, <4>2
    <3>4. CASE Poll(c)
      <4>1. /\ UNCHANGED <<tool, exit>> /\ Watching(c)
            /\ at'[c] \in {"asking", "sleeping"}
        BY <3>4 DEF Poll, ScriptInv, Watching
      <4>2. at'[c] = "asking" => /\ asked'[c] \in {None, tool[c]}
                                 /\ told'[c] # None => told'[c].tool \in {None, tool[c]}
        <5>1. CASE Ask(c, tool[c])
          BY <1>1, <2>1, <5>1 DEF Ask, Idle, TypeOK
        <5>2. CASE AskRefused(c, "UNAUTHORIZED")
          BY <1>1, <2>1, <5>2 DEF AskRefused, Idle, Tell, TypeOK
        <5>3. CASE at' = [at EXCEPT ![c] = "sleeping"]
          BY <5>3 DEF ScriptInv
        <5> QED
          BY <3>4, <5>1, <5>2, <5>3 DEF Poll
      <4> QED
        BY <1>1, <2>1, <4>1, <4>2, AnswerStays, VerdictStays
           DEF ScriptInv, WatchInOrder, Watching, Succeeded
    <3>5. CASE PollAnswered(c)
      <4>1. /\ UNCHANGED <<tool, status>> /\ Watching(c)
            /\ at'[c] \in {"sleeping", "exited"}
            /\ told[c] # None /\ told[c].tool \in {None, tool[c]}
        BY <2>1, <3>5 DEF PollAnswered, Exit, ScriptInv, Watching, Collect, cloudVars, WatchInOrder
      <4>2. exit'[c] \in {"active", "failed"} =>
              /\ at'[c] = "exited"
              /\ told[c].status = IF exit'[c] = "active" THEN "ACTIVE" ELSE "FAILED"
        BY <2>1, <3>5 DEF PollAnswered, Exit, ScriptInv, WatchInOrder
      <4>3. told[c].status \in {"ACTIVE", "FAILED"} => status[tool[c]] = told[c].status
        BY <2>1, <4>1, SandboxToolAssumption DEF ServerInv, Truthful, Provisioned
      <4>4. tool[c] # None /\ Replied(c)' /\ reply'[c].accepted /\ reply'[c].tool = tool'[c]
        BY <1>1, <2>1, <4>1, AnswerStays DEF WatchInOrder
      <4> QED
        BY <4>1, <4>2, <4>3, <4>4 DEF ScriptInv, WatchInOrder, Watching, Succeeded
    <3> QED
      BY <1>4, <3>1, <3>2, <3>3, <3>4, <3>5 DEF Script
  <2> QED
    BY <2>4, <2>5, <2>6 DEF ScriptInv
<1> QED
  BY <1>2, <1>3, <1>4 DEF ScriptNext

--------------------------------------------------------------------------------
(* What the scripts tell their users.                                      *)

LEMMA InitServerInv == ScriptInit => ServerInv
BY InitTypeOK, InitLedger DEF ScriptInit, Init, ServerInv, Truthful, OnlyToolsHaveStates

LEMMA ScriptInvHolds == ScriptSpec => [](ServerInv /\ ScriptInv)
<1>1. ServerInv /\ ScriptInv /\ [ScriptNext]_allVars => ServerInv' /\ ScriptInv'
  BY ScriptIsCaller, NextServer, NextScriptInv DEF ServerInv
<1> QED
  BY <1>1, InitServerInv, InitScriptInv, PTL DEF ScriptSpec

\* The server a script meets is SandboxTool: every step of the composition is one of its
\* steps or leaves it alone, so what is shown of the server holds of it here.
THEOREM ServerIsSandboxTool == ScriptSpec => Init /\ [][Next]_vars
<1>1. ScriptInit => Init
  BY DEF ScriptInit
<1>2. ServerInv /\ ScriptInv /\ [ScriptNext]_allVars => [Next]_vars
  BY ScriptIsCaller DEF ServerInv
<1> QED
  BY <1>1, <1>2, ScriptInvHolds, PTL DEF ScriptSpec

\* the tool a script watches was made from its request or from one of the same token
LEMMA WatchedToolIsMine ==
    ASSUME ServerInv, ScriptInv, NEW c \in Requests, tool[c] # None
    PROVE  LET maker == tools[tool[c]].req IN maker = c \/ SameToken(maker, c)
BY DEF ServerInv, Ledger, ReplyInOrder, AnswerInOrder, ScriptInv, WatchInOrder

\* Exit code 0 means ACTIVE, "failed" means FAILED, and of the user's own tool.
THEOREM VerdictHolds == ScriptSpec => []VerdictIsTrue
<1>1. ServerInv /\ ScriptInv => VerdictIsTrue
  BY WatchedToolIsMine DEF ScriptInv, WatchInOrder, VerdictIsTrue
<1> QED
  BY <1>1, ScriptInvHolds, PTL

\* Users of different creations never watch the same tool, however their scripts interleave.
THEOREM WatchersAreApart == ScriptSpec => []NobodyWatchesAnothersTool
<1>1. ServerInv /\ ScriptInv => NobodyWatchesAnothersTool
  BY WatchedToolIsMine DEF NobodyWatchesAnothersTool, SameToken
<1> QED
  BY <1>1, ScriptInvHolds, PTL

--------------------------------------------------------------------------------
(* The watch loop's clock pays for every call but the last.                *)

PollsPaid(c) ==
    /\ polls[c] \in Nat /\ elapsed[c] \in Nat
    /\ at[c] \in {"tool", "posted"} => polls[c] = 0
    /\ at[c] = "polling" => polls[c] * PollInterval <= elapsed[c]
    /\ at[c] \in {"asking", "sleeping"} =>
          polls[c] > 0 /\ (polls[c] - 1) * PollInterval <= elapsed[c]
    /\ polls[c] > 0 => (polls[c] - 1) * PollInterval < PollTimeout

PollInv ==
    /\ DOMAIN at = Requests /\ DOMAIN polls = Requests /\ DOMAIN elapsed = Requests
    /\ \A c \in Requests : PollsPaid(c)

LEMMA NextPollInv == PollInv /\ [ScriptNext]_allVars => PollInv'
<1> SUFFICES ASSUME PollInv, [ScriptNext]_allVars PROVE PollInv'
  OBVIOUS
<1>1. CASE UNCHANGED scriptVars
  BY <1>1 DEF PollInv, PollsPaid, scriptVars
<1>2. ASSUME NEW c \in Requests, Script(c) PROVE PollInv'
  <2>1. PollsPaid(c) /\ DOMAIN at = Requests /\ DOMAIN polls = Requests /\ DOMAIN elapsed = Requests
    BY DEF PollInv
  <2>2. /\ \A d \in Requests \ {c} : UNCHANGED <<at[d], polls[d], elapsed[d]>>
        /\ DOMAIN at' = Requests /\ DOMAIN polls' = Requests /\ DOMAIN elapsed' = Requests
    BY <1>2, <2>1 DEF Script, PostTool, PostFails, PostAnswered, PostBroken, Poll, PollAnswered,
                Wake, TimeUp, Exit
  <2>3. PollsPaid(c)'
    <3>1. CASE PostTool(c) \/ PostFails(c) \/ PostAnswered(c) \/ PostBroken(c)
      <4>1. at[c] \in {"tool", "posted"} /\ at'[c] \in {"posted", "polling", "exited"}
        BY <2>1, <3>1 DEF PostTool, PostFails, PostAnswered, PostBroken, Exit
      <4>2. UNCHANGED <<polls, elapsed>>
        BY <3>1 DEF PostTool, PostFails, PostAnswered, PostBroken
      <4> QED
        BY <2>1, <4>1, <4>2, ToolScriptAssumption DEF PollsPaid
    <3>2. CASE Poll(c)
      <4>1. /\ at[c] = "polling" /\ elapsed[c] < PollTimeout /\ UNCHANGED elapsed
            /\ polls'[c] = polls[c] + 1 /\ at'[c] \in {"asking", "sleeping"}
        BY <2>1, <3>2 DEF Poll
      <4>2. polls'[c] - 1 = polls[c] /\ polls'[c] > 0
        BY <2>1, <4>1 DEF PollsPaid
      <4> QED
        BY <2>1, <4>1, <4>2, ToolScriptAssumption DEF PollsPaid
    <3>3. CASE PollAnswered(c) \/ TimeUp(c)
      <4>1. /\ UNCHANGED <<polls, elapsed>> /\ at'[c] \in {"sleeping", "exited"}
            /\ at'[c] = "sleeping" => at[c] = "asking"
        BY <2>1, <3>3 DEF PollAnswered, TimeUp, Exit
      <4> QED
        BY <2>1, <4>1 DEF PollsPaid
    <3>4. CASE Wake(c)
      <4>1. PICK lag \in 0 .. MaxLag : elapsed' = [elapsed EXCEPT ![c] = @ + PollInterval + lag]
        BY <3>4 DEF Wake
      <4>2. /\ at[c] = "sleeping" /\ at'[c] = "polling" /\ UNCHANGED polls
            /\ elapsed'[c] = elapsed[c] + PollInterval + lag
        BY <2>1, <3>4, <4>1 DEF Wake
      <4>3. polls[c] * PollInterval = (polls[c] - 1) * PollInterval + PollInterval
        BY <2>1, ToolScriptAssumption DEF PollsPaid
      <4> QED
        BY <2>1, <4>2, <4>3, ToolScriptAssumption DEF PollsPaid
    <3> QED
      BY <1>2, <3>1, <3>2, <3>3, <3>4 DEF Script
  <2> QED
    BY <2>2, <2>3 DEF PollInv, PollsPaid
<1> QED
  BY <1>1, <1>2 DEF ScriptNext, allVars

\* Every status call but the last is paid with a full interval of the poll timeout.
THEOREM PollsHold == ScriptSpec => []PollsAreBounded
<1>1. ScriptInit => PollInv
  BY ToolScriptAssumption DEF ScriptInit, PollInv, PollsPaid
<1>2. PollInv => PollsAreBounded
  BY DEF PollInv, PollsPaid, PollsAreBounded
<1> QED
  BY <1>1, <1>2, NextPollInv, PTL DEF ScriptSpec

===============================================================================
