--------------------------- MODULE CubesandboxCli ---------------------------
(***************************************************************************)
(* cubesandbox-cli.sh: one run of the operator's script against CubeMaster,*)
(* the service that builds templates and distributes them to nodes.        *)
(*                                                                         *)
(* The script runs under "set -euo pipefail".  Bash switches errexit off   *)
(* in everything called from the condition of an if, so cmd_watch dies of  *)
(* a command that fails in it, unless sync-node is what called it.         *)
(***************************************************************************)
EXTENDS Naturals, Sequences

CONSTANTS
    Templates,     \* template ids
    Commands,      \* command lines considered, a subset of CommandType
    Lists,         \* template lists CubeMaster may answer with
    Layouts,       \* ways its JSON may be laid out, a subset of LayoutType
    PollInterval,  \* sleep between two polls, five seconds in the code
    WatchTimeout,  \* the timeout cmd_watch is given or defaults to
    MaxCall,       \* bound of the time a call takes; curl sets none
    None           \* no number, no exit code, nothing told yet

Verbs == {"create", "redo", "sync-node", "build", "watch"}

(* What is left of a command line: its verb and template, whether nodes    *)
(* are named (--node), --failed-only, watching, --include-non-ready, the   *)
(* --limit, and whether build was confirmed (-y, or "yes" typed in).       *)
CommandType == [verb : Verbs, template : Templates, nodes : BOOLEAN,
                failedOnly : BOOLEAN, watch : BOOLEAN, nonReady : BOOLEAN,
                limit : Nat \cup {None}, confirmed : BOOLEAN]

\* "},{" between two objects, or blanks or a newline in between
LayoutType == {"compact", "spaced"}

ASSUME CubesandboxCliAssumption ==
    /\ Commands \subseteq CommandType
    /\ Lists \subseteq Seq([id : Templates, ready : BOOLEAN])
    /\ Layouts \subseteq LayoutType
    /\ PollInterval \in Nat \ {0}
    /\ WatchTimeout \in Nat
    /\ MaxCall \in Nat
    /\ None \notin Nat

VARIABLES
    cmd,      \* the command line
    at,       \* where the script is
    listed,   \* the list sync-node got, with its layout
    chosen,   \* the templates to work on, in order
    todo,     \* those not done yet, the current one first
    good,     \* the number counted as submitted
    failed,   \* those noted as failed
    elapsed,  \* cmd_watch's clock: it counts the sleeps
    clock,    \* the time the current watch has taken (observation only)
    polls,    \* status calls of the current watch (observation only)
    told,     \* build status last received (observation only)
    exit,     \* exit code
    jobs,     \* redo and create jobs CubeMaster has accepted
    build     \* build[t]: state of t's build

script == <<at, listed, chosen, todo, good, failed, elapsed, clock, polls, told, exit>>
vars == <<cmd, script, jobs, build>>

\* the set -e context cmd_watch and submit_redo run in
Errexit == cmd.verb # "sync-node"

Init ==
    /\ cmd \in Commands
    /\ at = "start"
    /\ listed = [entries |-> <<>>, layout |-> "compact"]
    /\ chosen = <<>>
    /\ todo = <<>>
    /\ good = 0
    /\ failed = <<>>
    /\ elapsed = 0
    /\ clock = 0
    /\ polls = 0
    /\ told = None
    /\ exit = None
    /\ jobs = {}
    /\ build = [t \in Templates |-> IF cmd.verb = "watch" THEN "building" ELSE "none"]

Exit(code) == at' = "exited" /\ exit' = code

--------------------------------------------------------------------------------
(* The subcommands up to their first call.                                 *)

\* mutant of RedoIsTargeted: the guard against an empty body is missing
RedoIsTargeted_Unguarded == TRUE

\* the guard of redo: without nodes or --failed-only it would rebuild all
RedoIsTargeted == cmd.nodes \/ cmd.failedOnly

StartRefused ==
    /\ at = "start"
    /\ \/ cmd.verb = "redo" /\ ~RedoIsTargeted
       \/ cmd.verb = "build" /\ ~cmd.confirmed
    /\ Exit(1)
    /\ UNCHANGED <<cmd, listed, chosen, todo, good, failed, elapsed, clock, polls, told,
                   jobs, build>>

Start ==
    /\ at = "start"
    /\ cmd.verb = "redo" => RedoIsTargeted
    /\ cmd.verb = "build" => cmd.confirmed
    /\ at' = CASE cmd.verb = "sync-node" -> "listing"
               [] cmd.verb = "watch"     -> "watching"
               [] OTHER                  -> "submitting"
    /\ IF cmd.verb = "sync-node"
       THEN UNCHANGED <<chosen, todo>>
       ELSE chosen' = <<cmd.template>> /\ todo' = <<cmd.template>>
    /\ UNCHANGED <<cmd, listed, good, failed, elapsed, clock, polls, told, exit, jobs, build>>

--------------------------------------------------------------------------------
(* sync-node.                                                              *)

Ids(entries) == [i \in DOMAIN entries |-> entries[i].id]

\* the ids in the pieces of a list that mention READY, one after the other
ReadyOnes(entries) ==
    LET kept[n \in 0 .. Len(entries)] ==
            IF n = 0 THEN <<>>
            ELSE IF entries[n].ready THEN Append(kept[n - 1], entries[n].id)
            ELSE kept[n - 1]
    IN kept[Len(entries)]

(* The list is cut at "},{" and the pieces that mention READY are kept: a  *)
(* list with blanks between its objects is one piece.                      *)
ReadyIds(entries, layout) ==
    IF layout = "compact" THEN ReadyOnes(entries)
    ELSE IF \E i \in DOMAIN entries : entries[i].ready THEN Ids(entries)
    ELSE <<>>

Limited(ids) ==
    IF cmd.limit = None \/ cmd.limit > Len(ids) THEN ids ELSE SubSeq(ids, 1, cmd.limit)

ListFails ==
    /\ at = "listing"
    /\ Exit(1)
    /\ UNCHANGED <<cmd, listed, chosen, todo, good, failed, elapsed, clock, polls, told,
                   jobs, build>>

GetList ==
    /\ at = "listing"
    /\ \E entries \in Lists, layout \in Layouts :
          LET ids == Limited(IF cmd.nonReady THEN Ids(entries)
                                             ELSE ReadyIds(entries, layout)) IN
          /\ listed' = [entries |-> entries, layout |-> layout]
          /\ chosen' = ids
          /\ todo' = ids
          /\ IF ids = <<>> THEN Exit(0) ELSE at' = "submitting" /\ UNCHANGED exit
    /\ UNCHANGED <<cmd, good, failed, elapsed, clock, polls, told, jobs, build>>

\* mutant of Done: sync-node stops at the first template that fails
Done_StopsAtFailure(code) ==
    /\ IF cmd.verb = "sync-node" /\ code = 0 /\ Len(todo) > 1
       THEN at' = "submitting" /\ UNCHANGED exit
       ELSE Exit(code)
    /\ good' = good + 1 - code
    /\ todo' = Tail(todo)
    /\ UNCHANGED failed

(* submit_redo is over for the current template: sync-node counts its      *)
(* result and goes on, the other subcommands end with it.                  *)
Done(code) ==
    IF cmd.verb = "sync-node"
    THEN /\ good' = IF code = 0 THEN good + 1 ELSE good
         /\ failed' = IF code = 0 THEN failed ELSE Append(failed, Head(todo))
         /\ todo' = Tail(todo)
         /\ at' = IF Len(todo) = 1 THEN "summary" ELSE "submitting"
         /\ UNCHANGED exit
    ELSE Exit(code) /\ UNCHANGED <<good, failed, todo>>

Summary ==
    /\ at = "summary"
    /\ Exit(IF failed = <<>> THEN 0 ELSE 1)
    /\ UNCHANGED <<cmd, listed, chosen, todo, good, failed, elapsed, clock, polls, told,
                   jobs, build>>

--------------------------------------------------------------------------------
(* submit_redo, and create's own POST.                                     *)

(* The fields of the body that say what to rebuild.  CubeMaster takes a    *)
(* redo with none of them for a rebuild on every node (RedoModeAll).       *)
Body ==
    CASE cmd.verb = "create"    -> {"image"}
      [] cmd.verb = "sync-node" -> {"distribution_scope"}
      [] cmd.verb = "build"     -> {}
      [] OTHER -> (IF cmd.nodes THEN {"distribution_scope"} ELSE {})
                  \cup (IF cmd.failedOnly THEN {"failed_only"} ELSE {})

\* CubeMaster takes the job
TakeJob(t) ==
    /\ jobs' = jobs \cup {[template |-> t, body |-> Body]}
    /\ build' = [build EXCEPT ![t] = "building"]

(* Accepted with a job id: create, and whoever asked for it, now watches.  *)
Submit ==
    /\ at = "submitting"
    /\ TakeJob(Head(todo))
    /\ elapsed' = 0
    /\ clock' = 0
    /\ polls' = 0
    /\ told' = None
    /\ IF cmd.watch THEN at' = "watching" /\ UNCHANGED <<good, failed, todo, exit>>
                    ELSE Done(0)
    /\ UNCHANGED <<cmd, listed, chosen>>

\* mutant of SubmitFails: curl's exit code is not looked at
SubmitFails_Ignored ==
    /\ at = "submitting"
    /\ Done(0)
    /\ UNCHANGED <<cmd, listed, chosen, elapsed, clock, polls, told, jobs, build>>

(* Refused, unreachable, answered without a job id, or accepted and the    *)
(* answer lost: the same failure for the script.                           *)
SubmitFails ==
    /\ at = "submitting"
    /\ TakeJob(Head(todo)) \/ UNCHANGED <<jobs, build>>
    /\ Done(1)
    /\ UNCHANGED <<cmd, listed, chosen, elapsed, clock, polls, told>>

--------------------------------------------------------------------------------
(* cmd_watch.                                                              *)

Fields == {"status", "progress", "message"}

\* mutant of SleepOn: a poll that fails costs no time
SleepOn_Free == UNCHANGED <<at, elapsed, good, failed, todo, exit>>

SleepOn ==
    /\ elapsed' = elapsed + PollInterval
    /\ UNCHANGED <<at, good, failed, todo, exit>>

\* a call, and the sleep after it if there was one
Spend == \E d \in 0 .. MaxCall : clock' = clock + d + (elapsed' - elapsed)

PollFails ==
    /\ at = "watching"
    /\ elapsed < WatchTimeout
    /\ polls' = polls + 1
    /\ SleepOn
    /\ Spend
    /\ UNCHANGED <<cmd, listed, chosen, told, jobs, build>>

(* An answer with some of the fields.  Reading one it lacks fails, which   *)
(* ends the script where errexit is on and leaves it empty where not.      *)
PollAnswered ==
    /\ at = "watching"
    /\ elapsed < WatchTimeout
    /\ polls' = polls + 1
    /\ \E present \in SUBSET Fields :
          LET status == IF "status" \in present THEN build[Head(todo)] ELSE "unknown" IN
          /\ told' = status
          /\ \/ Errexit /\ present # Fields /\ Exit(1) /\ UNCHANGED <<elapsed, good, failed, todo>>
             \/ /\ Errexit => present = Fields
                /\ \/ status = "ready" /\ Done(0) /\ UNCHANGED elapsed
                   \/ status = "error" /\ Done(1) /\ UNCHANGED elapsed
                   \/ status \notin {"ready", "error"} /\ SleepOn
    /\ Spend
    /\ UNCHANGED <<cmd, listed, chosen, jobs, build>>

WatchTimesOut ==
    /\ at = "watching"
    /\ elapsed >= WatchTimeout
    /\ Done(1)
    /\ UNCHANGED <<cmd, listed, chosen, elapsed, clock, polls, told, jobs, build>>

\* CubeMaster finishes a build, or gives up on it
BuildEnds(t) ==
    /\ build[t] = "building"
    /\ \E s \in {"ready", "error"} : build' = [build EXCEPT ![t] = s]
    /\ UNCHANGED <<cmd, script, jobs>>

Next ==
    \/ StartRefused \/ Start
    \/ ListFails \/ GetList \/ Summary
    \/ Submit \/ SubmitFails
    \/ PollFails \/ PollAnswered \/ WatchTimesOut
    \/ \E t \in Templates : BuildEnds(t)

Spec == Init /\ [][Next]_vars

--------------------------------------------------------------------------------
(* Properties.                                                             *)

\* every variable keeps its type
TypeOK ==
    /\ cmd \in Commands
    /\ at \in {"start", "listing", "submitting", "watching", "summary", "exited"}
    /\ chosen \in Seq(Templates) /\ todo \in Seq(Templates) /\ failed \in Seq(Templates)
    /\ at \in {"submitting", "watching"} => todo # <<>>
    /\ good \in Nat /\ elapsed \in Nat /\ clock \in Nat /\ polls \in Nat
    /\ told \in {None, "unknown", "none", "building", "ready", "error"}
    /\ exit \in {None, 0, 1}
    /\ \A j \in jobs : j.template \in Templates /\ j.body \subseteq
                       {"image", "distribution_scope", "failed_only"}
    /\ build \in [Templates -> {"none", "building", "ready", "error"}]

Elements(s) == {s[i] : i \in DOMAIN s}
Submitted == {j.template : j \in jobs}

(* CubeMaster is never told to rebuild on every node unless the operator   *)
(* asked for exactly that and confirmed it: the serving nodes are not      *)
(* disturbed by a command line that is merely incomplete.                  *)
NoUnaskedRebuild ==
    \A j \in jobs : j.body = {} => cmd.verb = "build" /\ cmd.confirmed

(* When sync-node ends, every template it chose is counted once, as a      *)
(* success or by name as a failure, and its exit code says whether there   *)
(* were failures: one bad template neither hides nor stops the others.     *)
SummaryAddsUp ==
    at = "exited" /\ cmd.verb = "sync-node" /\ chosen # <<>> =>
        /\ good + Len(failed) = Len(chosen)
        /\ Elements(failed) \subseteq Elements(chosen)
        /\ exit = 0 <=> failed = <<>>

(* A success is real: exit code 0 (or, in sync-node, a template not named  *)
(* as failed) means that CubeMaster has the job, and that the build is     *)
(* ready if it was watched.                                                *)
SuccessIsReal ==
    exit = 0 \/ at = "summary" =>
        \A t \in Elements(chosen) \ Elements(failed) :
            /\ cmd.verb # "watch" => t \in Submitted
            /\ cmd.watch => build[t] = "ready"

(* sync-node distributes only templates that were READY when listed, as    *)
(* the help text says.                                                     *)
OnlyReadyIsSynced ==
    cmd.verb = "sync-node" /\ ~cmd.nonReady =>
        \A t \in Submitted : \E i \in DOMAIN listed.entries :
            listed.entries[i].id = t /\ listed.entries[i].ready

(* A watch polls no more often than its timeout and interval allow, and    *)
(* takes no longer than its timeout, a sleep and what its calls took: the  *)
(* calls are not counted in the timeout, and curl sets them no limit.      *)
WatchIsBounded ==
    /\ polls > 0 => (polls - 1) * PollInterval < WatchTimeout
    /\ clock < WatchTimeout + PollInterval + polls * MaxCall

(* A watch that is told the build is ready ends in success.                *)
ReadyIsReported == told = "ready" => exit # 1

=============================================================================
