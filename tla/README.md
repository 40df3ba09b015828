# Verification of cube_sandbox_image_server

TLA+ modules, TLC configurations and TLAPS proofs for the service in `src/`: an
HTTP server that has container images copied between registries and creates
sandbox tools in Tencent Cloud's control plane (called AGS below), and the shell
scripts that drive it.  Paths below are relative to the repository.

## The system

| Part | State it keeps | Operations | Where |
|---|---|---|---|
| create endpoint | none between requests | `POST /api/v1/sandbox/tools` | `internal/logic/cubeSandboxImage/createsandboxtoollogic.go` |
| status endpoint | none | `GET /api/v1/sandbox/tools/status` | `getsandboxtoolstatuslogic.go` |
| image-sync endpoint | none | `GET /api/v1/images/sync` | `syncimagelogic.go` |
| image-sync client | its configuration | `Sync`: bounded retries of one HTTP GET | `internal/client/imagesync/client.go` |
| registry resolver | its credentials | `ResolveCommand`: an image's Entrypoint or Cmd | `internal/client/registrycommand/client.go` |
| request builder | none | defaults, trims and validates a create request | `sandboxtool_request.go` |
| API-key middleware | hashes of the keys | admits or answers 401 | `internal/middleware` |
| service context, configuration | read once | defaults and validation at start | `internal/svc`, `internal/config` |
| routes, readiness, main | which instances serve | start, stop | `internal/handler/routes.go`, `cubesandboximageserver.go` |
| user script | a run's variables | `sync`, `tool`, `watch` | `sync_image_and_create_tool.sh` |
| operator script | a run's variables | `watch`, `create`, `redo`, `sync-node`, `build` | `cubesandbox-cli.sh` |

A create request passes the middleware, `httpx.Parse`, the blank-image check, one
call to the image registry (its own timeout), the request builder and one call to
AGS (its own timeout).  A status request makes one AGS call.  A sync request makes
up to `MaxAttempts` calls to an upstream service under one total timeout.  Requests
share nothing inside the server; they meet in the registry (a tag can be pushed
again) and in AGS (tool names are unique, client tokens identify a creation).  The
script's `tool` posts once and then polls the status endpoint.

What makes it hard is outside the process.  An AGS call can take effect after the
server stopped waiting, the caller can hang up at any point, the process can be
restarted between any two steps, an image can change between two creations, four
clocks race in a sync call, and the script sees all of this through a curl without
a timeout.  `PROJECT.json` lists these hazards by source line.

What makes each part correct, in a sentence:

- create: an accepted answer names a tool that is there; a refusal the server or AGS
  decided is final; an ambiguous code claims nothing; a token makes retries safe;
  the start command is never a cached one; a request given up while the registry is being
  asked leaves nothing behind, not even later; every request is answered.
- status: ACTIVE or FAILED is told of a tool only when it is so; every call is answered.
- image sync: attempts are bounded and each is over by its place in the schedule; only transient
  failures are retried, and the call gives up early only on a final answer or an ended context; a
  504 means that a deadline passed; a call whose context ends during a wait asks nothing more.
- request builder: what is sent obeys the documented rules and no rule is applied to one form
  of a field while another form is sent; what is refused broke a rule.
- configuration and middleware: what serves satisfies what the endpoints rely on; the keys and
  the allow list admit exactly what the file listed at the start; a key can be rotated without
  a caller being refused.
- user script: exit code 0 means that the user's own tool is ACTIVE, or that the image is in the
  target registry; polling is bounded; it ends.
- operator script: no rebuild of every node unless confirmed; a success it reports is real;
  sync-node counts every template once.

## Modules

| Module | Models | Extends / composes |
|---|---|---|
| `ToolPromise` | what the create endpoint promises: token, what the caller knows, what exists | |
| `SandboxTool` | both tool endpoints, the registry, AGS, disconnects, restarts | implements `ToolPromise` |
| `SandboxToolProofs` | proofs about `SandboxTool`, and of the refinement | `SandboxTool` |
| `ToolScript` | `cmd_tool` and `cmd_watch` of the user script | `SandboxTool` |
| `ToolScriptProofs` | proofs about it, on top of those about the server | `ToolScript`, `SandboxToolProofs` |
| `ImageSync` | `SyncImage` and `imagesync.Client.Sync` | |
| `ImageSyncProofs` | proofs about `ImageSync` | `ImageSync` |
| `Backoff` | `retryDelay`, with its proofs | |
| `SyncScript` | `cmd_sync` of the user script, and the upstream's copies | `ImageSync` |
| `SyncScriptProofs` | proofs about it | `SyncScript` |
| `RawText` | text before and after `strings.TrimSpace` | |
| `RegistryCommand` | `validCommand` and the choice of `ResolveCommand` | `RawText` |
| `ToolRequest` | `buildCreateSandboxToolRequest` and all it calls | `RegistryCommand` |
| `ToolRequestProofs` | proofs about both | `ToolRequest` |
| `Service` | config file, start, stop, middleware, routes, checks of a sync call | `RawText` |
| `KeyRotation` | the key rotation of `README.md` over several instances | `Service` |
| `KeyRotationProofs` | proofs about both | `KeyRotation` |
| `CubesandboxCli` | the five subcommands of the operator script, against CubeMaster | |
| `CubesandboxCliProofs` | proofs about it | `CubesandboxCli` |
| `MCSandboxTool`, `MCToolScript`, `MCSyncScript`, `MCToolRequest`, `MCKeyRotation`, `MCCubesandboxCli` | instances for TLC | |

### SandboxTool

`pc[r]` follows the goroutine of request `r`: `unsent`, `resolving` (inside
`ResolveCommand`), `creating` (inside `CreateSandboxToolWithContext`), `answered`, or
`lost` when the process died.  Each action ends where the code leaves the process:

| Action | Code |
|---|---|
| `Receive` | middleware, parsing, blank-image check (lines 38-49) |
| `ServeManifest` | the registry fixes the manifest the config is read from |
| `ResolveDone` | `ResolveCommand` returned; command chosen, request built, call made (50-73) |
| `ResolveFails` | any error of `ResolveCommand` (51-55) |
| `CreateReturns`, `CreateReturnsNoId`, `CreateFails` | the three ends of the AGS call (74-92, 95-107) |
| `EndContext` | caller gone, or the HTTP server's timeout |
| `CloudCreate`, `CloudRefuse`, `LoseCall`, `Provision`, `Push` | AGS, the network, the registry (external) |
| `Ask`, `AskRefused`, `CloudDescribe`, `DescribeReturns`, `DescribeFails` | the status handler around its AGS call |
| `Crash` | every running handler is gone, calls in flight are not |

The call stays in `inbox` when the handler stops waiting: AGS may act on it at any later
time.  `since` records the registry's version when the request arrived; only a property
reads it.  What is wrong with a request is a set of `Defects`, so the order of the checks
decides the answer.  A call under an ended context never leaves the process (net/http
checks the context first), hence `ResolveDone` adds to `inbox` only when `ctx` is live.

AGS is modelled from how the code uses it and what `README.md` says of `clientToken` and
of names: a known token returns its tool, a used name is refused, anything else becomes a
tool in state CREATING which later is ACTIVE or FAILED for good.  Deletion of tools is not
reachable through this code.  AGS remembers a token as long as its tool exists.

`Ledger` is the inductive invariant: a request is in at most one place.  Its create call is
in the inbox and unanswered, or has become exactly one tool whose id is its answer, or
neither; and the reply agrees with the answer.

### ImageSync

One call with its goroutine (`pc`), context, age, the timer of the current attempt or
wait, the loop variable and the last error.  The steps are those of `doRequest`: `Do`
returns or fails, the body is read or not, and then the decision whether to retry, taken
from the context *after* the failure (`AfterDoFailed`, `AfterReadFailed`), so that the
context can end between the failure and the decision.  `waitForRetry` may take either
branch of its select when both are ready.  `Tick` advances time only while the goroutine is
blocked and nothing it waits for is due: computation takes no time, and a timer is served
before time goes on.  Redirects an HTTP client follows inside one attempt are part of it.
That the total timeout ends a call is an assumption of the clock (Go's timers fire) and no property;
what the loop adds to it is `ScheduleIsKept`: the timer of an attempt is armed once, for headers and
body together, and the waits are those of the schedule, so the n-th attempt is over when n attempt
timeouts and the waits between them have passed, however large the total timeout is.
The per-attempt timeout is `http.Client.Timeout`; its error satisfies
`errors.Is(err, context.DeadlineExceeded)`, which is why `FailureReply` maps it to a 504.

### Backoff

`retryDelay` as the loop it is.  Go's int64 durations do not wrap here: `DelayFits` bounds
every product by twice the five-second ceiling, for any number of attempts.

### ToolScript

The script's state is where it is (`at`), the tool it watches, and `elapsed`, read from the
clock after each sleep.  Its create call is the `SandboxTool` request of the same name and
its status calls use the query slot of that name, so its steps are joint steps with the
server's `Receive`, `Ask`, `AskRefused` and `Collect`.  The query slots that no script owns are
other users of the status endpoint, who may ask about any tool (`StatusCaller`).  A call that fails to reach the server is
a step of the script alone.  `MaxLag` bounds what one call adds to the clock.

### SyncScript

One run of `sync` around one call of `ImageSync`.  `Server(Next)` lets the server's steps happen
once the script has called, and never for a script that gave up before its curl; `body` is the JSON of the last complete 2xx response, `Relayed` its
fields after `SyncImage` copied them (a field left out decodes to zero), and `IsSuccess` the
script's three checks.  `jobs` counts copies the upstream is busy with: a request that was sent
may start one, and a copy goes on when the attempt, the call or the script is over.  The upstream
is assumed to say success, with the image's name, only of an image that is there.  The path's
three parts are parsed or asked for again; with no terminal to ask, the script gives up.

### RawText, RegistryCommand, ToolRequest

A text is what `TrimSpace` leaves of it and whether blanks surround it, which is all the builder
tells apart beyond membership in a few classes (`ToolNames`, `Over200`, `Timeouts`, `Absolute`, …,
the constants of `ToolRequest`).  `stage` is the function of the builder that runs, in the code's
order, with the check of the image and the registry call in front; the four lists whose
entries must be unique (`env`, `ports`, `tags`, `mounts`) are walked one element per step by
`Walk`, with the code's map as `seen`.  `req` starts as the body and ends as what is sent.
Optional pointers are empty texts and lists; `persistent` and `readOnly` are the one place where
"omitted" differs from false.  `SubmitSent` submits the result once more, for `SentIsStable`.
`InOrder` is the independent reference: the rules as `README.md` and the API description
state them, without order or loop.

In `SandboxTool` the same code appears as its outcome only (`Builds`, `ResolveDone`).

### Service, KeyRotation

`Load` lays a file over the defaults, `Starts` is everything that can keep `main` from serving:
the range tag of `MaxAttempts` (looked at only when the file gives the field), `validateConfig` and
the two constructors.  `live` holds the config of every instance that serves; `Edit` changes the
file under them.  `Answer` says what an instance does with a call: middleware, route, and for a
sync call the checks of `SyncImage` up to the client.  A missing list and an empty one are one
value; both keep the server from starting.  Hashes are taken to be equal when the keys are.  The
AGS SDK's constructor is taken to succeed.

`KeyRotation` restricts the edits of the key list to the three steps of `README.md` (add the new
key, move the callers, delete the old one), with `fresh` for the instances started since the list
was last edited, and adds one slip: the new key is written with a blank next to it, so the server
does not start until that is mended.  Everything else in the file is edited at will, rightly or
wrongly (`EditRest`), and instances stop and start at any time.

### CubesandboxCli

One run of `cubesandbox-cli.sh`, from its parsed command line (`cmd`) to its exit code.
`todo` is the array `for tpl in` walks; the single-template subcommands put one template in
it.  `Submit` and `SubmitFails` are the POST of `submit_redo` and of `create`; a failure may
leave the job behind, when only its answer was lost or lacked a job id.  Bash's errexit is
part of the control: the script runs under `set -euo pipefail`, `json_get` of a missing field
fails, and so the assignment from it ends the script, except below `if submit_redo` in
`sync-node`, where bash switches errexit off (`Errexit`).  The READY filter is modelled by
what it does to a list with and without blanks between its objects; lists whose objects
nest others are not considered.  CubeMaster's rule that an empty body means every node is
the script's own comment (lines 233, 366).  `elapsed` is the script's clock, which counts sleeps;
`clock` is the real one, which no action reads, and `MaxCall` bounds what one call adds to it.

### ToolPromise

The abstract endpoint: a request is idle, open, accepted, refused or unknown to its caller,
and `made` holds the requests that created a tool.  `Effect` may happen while the request is
open or after its outcome became unknown, never after a refusal, and at most once per client
token.  `SandboxTool` implements it under the mapping at its end.

## Runs

| Run | Instance | Shows |
|---|---|---|
| `create` | 2 requests, 6 kinds of payload, 2 tool ids, 1 re-push, 1 restart; symmetry | all safety of the create endpoint, and that it implements `ToolPromise!SafeSpec` |
| `script` | 2 users, timeout 2, interval 1, lag up to 1, 1 restart; symmetry | a verdict is about the user's own tool, bounded polling |
| `live` | 1 user with a timeout of 4, 1 other status caller, 2 tool ids, 1 restart | every request and query ends (`ToolPromise!Spec` with its fairness), the script ends, a final status is true, a request given up early leaves nothing |
| `sync` | the script around one call: 3 attempts of 3 ticks, total 8, waits 1 and 2, 5 kinds of body | the schedule, retrying and giving up, waits, the answer's code; exit code 0 means the image is there; the script ends |
| `backoff` | intervals 0-12, ceiling 5, attempts 1-10 | the loop equals clamped exponential growth |
| `request` | some 5000 bodies, one part varied at a time, lists of up to 3, all lists at once; each result sent again | the builder refuses exactly what breaks a rule, sends what it checked |
| `request_entrypoint` | as `request` | a violation, see below |
| `rotation` | 2 instances, 2 callers, some 300 files (key and allow lists of up to 2, each field at its boundaries), both orders of the keys; symmetry | what serves is valid; keys and allow list are exact; no caller is refused during a rotation |
| `cli` | all subcommands and options, lists of 0, 1 and 3 templates, up to three polls per watch, calls of up to one interval | no unasked rebuild, honest counts and exit codes, bounded polling |
| `cli_ready`, `cli_watch` | as `cli` | violations, see below |

Bounds.  The create properties relate at most two requests, so two requests that may share
a name, a token, both or neither meet every conflict; one re-push separates an old version
from a new one; one restart catches any set of handlers at once, and a second could only
catch requests that arrive later.  With three attempts the sync loop has a first, a middle
and a last iteration; two full attempts and a wait fit in the total of eight and three do
not, which is the proportion of the example configuration (600 s, 300 s, three attempts).
A list with two entries has a collision and a third entry shows that the walk goes on; each
stage of the builder reads fields no other stage writes (except that `command` is filled from the
image first), so its parts are varied one at a time.  Instances share only the file; two of them
are an old and a new one, or a serving and a stopped one, at the same time, and the theorems about
the rotation hold for any number.
The backoff run goes past the ten attempts the configuration allows and past twice the
ceiling.  The properties listed under Proofs hold without any of these bounds (`MaxPushes` and
`MaxCrashes` are arbitrary numbers there).

Symmetry permutes requests and tool ids, only in runs whose properties are invariants, action
properties and the safety half of the refinement; `GoneLeaveNothing` (once this, for ever that)
is therefore checked in `live`, which has one request and no symmetry, and proved for any number
of requests.  Deadlock is not
checked where everything that was asked may be answered, which is each run's normal end.

Fairness.  Weak fairness on each handler's own steps: it is a goroutine, and each outside
call it makes has a timeout (`Registry.RequestTimeout`, `TencentCloud.RequestTimeout`,
`ImageSync.AttemptTimeout`; `validateConfig` refuses values that are not positive), so a
failing step is always enabled while it waits.  In `ImageSync` time itself and the timers are
fair.  Nothing is assumed of the registry, AGS, the upstream or the callers; the liveness
properties hold although these may stay silent for ever.  The scripts run until they end.

In `SyncScript` the answer of a call that is finished arrives (`CallReturns` is fair); that the
connection breaks is possible, never assumed.

The operator script has no liveness property: its curl calls have no time limit and nothing
in the repository bounds them.  Its watch counts its sleeps only, so `WatchIsBounded` says what
holds of the real time: the timeout, a sleep, and whatever each of the calls took.

The violations.  `cubesandbox-cli.sh:275` says that sync-node distributes READY templates only; a list with a
blank between two objects is not cut, and one READY template in it takes all others along.
The status loop of the same script has defaults for missing fields (lines 101, 102) which
errexit never lets it reach: a build reported ready without a `message` ends the run with 1.
`README.md:49` says
that Cmd is used when Entrypoint is empty; one blank element anywhere makes `validCommand` drop
the whole Entrypoint (`EntrypointIsUsed` excuses the case of a blank program).
An answer beyond `MaxResponseBytes` is never retried, a 429 or 5xx included (`client.go:136`);
that is the size limit `README.md:26` names next to its retry rule, and no violation of it.
The behaviours of the script can be reproduced with a stand-in for curl.

## Proofs

| Theorem | Says |
|---|---|
| `SandboxToolProofs!TypeCorrect`, `LedgerHolds` | types, and the inductive invariant |
| `AcceptedIsReal`, `RejectedIsFinal`, `GoneAreForgotten` | `AcceptedToolExists`, `RejectionIsFinal`, `GoneLeaveNothing` |
| `RetryIsSafe`, `ConflictHolds`, `CommandsAreFresh` | `TokenRetryIsSafe`, `ConflictIsForeign`, `CommandIsFresh` |
| `StatusHolds` | `StatusIsTruthful`, for any number of callers and crashes |
| `PromiseIsKept` | `KeepsPromise`: the create endpoint implements `ToolPromise` |
| `ToolScriptProofs!ServerIsSandboxTool` | the theorems above hold of the server the scripts meet |
| `VerdictHolds`, `PollsHold` | `VerdictIsTrue`, `PollsAreBounded` |
| `WatchersAreApart` | users of different creations never watch one tool (`NobodyWatchesAnothersTool`, which no run checks) |
| `ImageSyncProofs!TypeCorrect` | types, and the attempt counter's range |
| `ScheduleHolds`, `RequestsAreBounded` | `ScheduleIsKept`, `SentIsBounded`, for any attempts and delays |
| `TimeoutsAreReal`, `WaitsAreFull` | `TimeoutIsReal`, `BackoffIsWaited` |
| `RetriesAreJustified`, `NoEarlyGivingUp`, `EndedWaitsAreFinal` | `RetriesOnlyTransient`, `GivesUpForCause`, `EndedWaitIsFinal` |
| `CallsAreFinite` | every step of a call brings it nearer to its end: no livelock, whatever the upstream does |
| `SyncScriptProofs!ServerIsImageSync` | the theorems above hold of the call the script makes |
| `VerdictHolds` | `SyncVerdictIsTrue`, for any attempts, timeouts and upstream |
| `ToolRequestProofs!TypeCorrect` | types, and the loops' ranges |
| `UniqueAsSent`, `ResolvedCommandBuilds` | `SentIsUnique`, for lists of any length; `ImageCommandIsNotRefused`, for every image |
| `VerdictIsTheRules` | `RefusedForCause`: the loops decide what the rules over whole lists say, for every body |
| `CompleteAsSent`, `StableAsSent` | `SentIsComplete`; `SentIsStable`: normalisation is idempotent |
| `CommandAsChosen`, `CleanEntrypointIsUsed` | the start command AGS is told; `EntrypointIsUsed` where the Entrypoint has no blank element |
| `KeyRotationProofs!RotationIsService` | a rotation is a behaviour of `Service` |
| `TypeCorrect`, `ValidHolds`, `KeysHold`, `AllowListHolds` | types, `ServingIsValid`, `KeysAreExact`, `AllowListIsExact`, for every set of files |
| `RotationHolds` | `RotationIsSmooth`, for any number of instances and callers |
| `Backoff!NoOverflow`, `CeilingHolds` | no overflow (`DelayFits`), result at most the ceiling |
| `BackoffIsExponential` | `DelayIsExponential`, for every interval, ceiling and attempt |
| `CubesandboxCliProofs!RebuildIsAskedFor`, `WatchHolds` | `NoUnaskedRebuild`, for every command line, list and layout; `WatchIsBounded` |
| `SyncNodeAddsUp`, `SuccessHolds` | `SummaryAddsUp`, `SuccessIsReal`, for lists of any length and any CubeMaster |
| `CompactListIsFiltered` | `OnlyReadyIsSynced` where the list has no blanks: what the run `cli_ready` finds is confined to the layout |
| `SyncNodeReportsReady` | in `sync-node`, where errexit is off, a watch told "ready" counts a success |

The first four `Service` theorems are about `Service!Spec` and reach the run `rotation`
through `RotationIsService`, as those about `ImageSync!Spec` reach the run `sync` through
`ServerIsImageSync`.

Assumptions: `SandboxToolAssumption` (the bounds are numbers; `None`, `OwnCommand`, tool ids and
error codes are told apart from each other), `ImageSyncAssumption` (positive timeouts and
attempts, delays are numbers; what `NewServiceContext` enforces, see `ServingIsValid`),
`BackoffAssumption`, `ToolScriptAssumption` (the interval and the timeout are positive, each user has
a query slot), `RawTextAssumption` (no text is empty), and `ToolRequestAssumption`,
`ServiceAssumption`, `KeyRotationAssumption` and `CubesandboxCliAssumption` (the types of their
constants, that the defaults are texts, that the two keys differ), and `DefaultsAssumption` (the
defaults the builder fills in pass its own checks, and the words it compares with are in the case it
brings a text to: without it `SentIsComplete` would be false).

The argument for the create endpoint: `RejectionIsFinal` is not inductive alone, since a
refusal says nothing about calls in flight.  `Ledger` adds that a call in the inbox is
unanswered and its request is past the builder, and that a tool is its request's answer; then
a local refusal is written only where neither a call nor a tool can exist, and an AGS refusal
is the answer that took the call out of the inbox.  The refinement rests on the same ledger: AGS
can only act on a call that is unanswered, so its request is open or its outcome unknown, and a
tool of the same token would have been returned instead.  `Truthful` adds to it that a tool's final
state never changes and that a list in transit shows no final state but the present one;
`FreshInv` that the registry has only moved on since a request arrived; `Gone` that a request given
up in front of the registry stays without call and tool and is told of none; `ForeignTool` that what
AGS found to hold the name belongs to another creation and stays so.  A script's invariant
(`WatchInOrder`) ties the tool it watches to the reply its request got, and its verdict to that
tool's state; since its steps are steps of the server's callers, the server's invariants carry
over.  For the builder, `WalkedApart` says of
each list, while it is walked and after, that its elements up to `index` differ pairwise and that
`seen` holds their keys; uniqueness of what is sent is its last instance.  `Rules` splits the rules
and the request by stage: the stages that ran found their clauses obeyed and left their fields as they
would leave them again, those to come still see the body; `HalfWay` says the same of the walked part
of a list.  At the end this is `RefusedForCause`, `SentIsComplete` and, with the first round's result
as the second's body, `SentIsStable`.  For the
service, `Loaded` (every serving instance holds what `Load` made of some file that starts) gives
everything by what `Starts` implies.  `RotationInv` adds to it, per phase, which keys the file and
each instance have: in phase "both" a fresh instance has both keys and a stale one the old, and
callers only hold the new key once all are fresh.  For the image sync, `Accounts` links
`age`, `timer` and `idle` at each place of the loop, which gives the full waits.  `OnSchedule` adds
what the timer still has to run: age and timer together never exceed the schedule of the attempt,
whose recursion is unfolded by induction.  `Counted` says that under a live context every attempt
but the one being dispatched was sent, so a call that gives up without cause would have made them
all; `Ended` that nothing raises `sent` again once the context ended in a wait, since the attempt
the select may still start only finds that it ended.  `Remaining` counts what is left of a call
(ticks to the deadline, the end of its context, attempts, places of the loop) and falls at every
step.  For the backoff, `Doubled` says that the running delay is `interval * 2^(i-1)`; the laws of
powers it needs come from the library's only fact about them, that a set of n elements has 2^n
subsets.  For `sync-node`, `Accounted` splits what was chosen: each template is still to do, noted
as failed, or counted, and then really submitted and, if watched, ready; a template being submitted
again loses its build's state, but it is still to do.  `ReadyOnes` is a recursive function; what it
returns for every list is shown by induction, as is `Schedule`, with a set of numbers in the place
of a predicate (`SetInduction`, from the least element of a nonempty set: the library's own induction theorems take
an operator, which the provers cannot instantiate).

Only model-checked: what must happen under fairness (`EveryQueryAnswered`, `EveryScriptExits`,
`SyncScriptExits`, `KeepsPromiseLive`), which is out of the prover's reach.  Every other property of
a passing run is a theorem.  The three properties that the code violates are refuted by
the runs; `CompactListIsFiltered`, `SyncNodeReportsReady` and `CleanEntrypointIsUsed` prove what of
them is left, and so where each disagreement ends.

## Not modelled

- The registry protocol and the parsing of image references (libraries), the AGS SDK.
- `internal/apperror`: the formatting of a code and a message as JSON, without state.
- The readiness probe, which always answers 200, and the logging.
- The API description (`cube_sandbox_image_server.api`, `yapi.json`) except through the types of
  `internal/types`, and `httpx.Parse` beyond whether it accepts a request.
- Option parsing and display of both scripts.
- What two overlapping copies of one image do to each other in the upstream: they are counted
  and bounded (`SentIsBounded`, `jobs`), and a copy never removes an image.

## Plan

1. Falling measures, as `CallsAreFinite` has one, for the create endpoint, the operator script and
   the user script: of each liveness property the part that needs no fairness.
2. If the code comes to retry AGS calls or to cache a resolved command, the mutants
   `CreateFails_Retries` and `ServeManifest_Cached` show which promises that gives up.
