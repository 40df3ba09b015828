----------------------------- MODULE ToolPromise -----------------------------
(***************************************************************************)
(* What POST /api/v1/sandbox/tools promises its callers, with no server,   *)
(* registry, network or process in sight: a request takes effect at most   *)
(* once; requests that share a client token take effect at most once       *)
(* together; "accepted" means the effect is there; "refused" means it is   *)
(* not and never will be; and a request whose outcome is "unknown" may     *)
(* still take effect later, which is why a retry needs a token.            *)
(***************************************************************************)
CONSTANTS Requests, Tokens, None

VARIABLES
    token,   \* token[r]: client token of r, or None
    phase,   \* phase[r]: what the caller of r knows
    made     \* the requests that created a tool

vars == <<token, phase, made>>

\* the requests r counts as the same creation as
Twins(r) == {s \in Requests : s = r \/ (token[r] # None /\ token[s] = token[r])}

Init ==
    /\ token \in [Requests -> Tokens \cup {None}]
    /\ phase = [r \in Requests |-> "idle"]
    /\ made = {}

Open(r) ==
    /\ phase[r] = "idle"
    /\ phase' = [phase EXCEPT ![r] = "open"]
    /\ UNCHANGED <<token, made>>

\* the tool comes to exist, while the caller waits or after it stopped waiting
Effect(r) ==
    /\ phase[r] \in {"open", "unknown"}
    /\ Twins(r) \cap made = {}
    /\ made' = made \cup {r}
    /\ UNCHANGED <<token, phase>>

Accept(r) ==
    /\ phase[r] = "open"
    /\ Twins(r) \cap made # {}
    /\ phase' = [phase EXCEPT ![r] = "accepted"]
    /\ UNCHANGED <<token, made>>

Refuse(r) ==
    /\ phase[r] \in {"idle", "open"}
    /\ r \notin made
    /\ phase' = [phase EXCEPT ![r] = "refused"]
    /\ UNCHANGED <<token, made>>

\* one outcome goes unknown, or all those a process was working on at once
GiveUp(S) ==
    /\ S # {}
    /\ \A r \in S : phase[r] = "open"
    /\ phase' = [r \in Requests |-> IF r \in S THEN "unknown" ELSE phase[r]]
    /\ UNCHANGED <<token, made>>

Next ==
    \/ \E r \in Requests : Open(r) \/ Effect(r) \/ Accept(r) \/ Refuse(r)
    \/ \E S \in SUBSET Requests : GiveUp(S)

\* a request that arrived comes to an end
Close(r) == phase[r] = "open" /\ (Accept(r) \/ Refuse(r) \/ GiveUp({r}))

SafeSpec == Init /\ [][Next]_vars
Spec == SafeSpec /\ \A r \in Requests : WF_vars(Close(r))

==============================================================================
