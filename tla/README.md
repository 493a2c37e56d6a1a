# tekton-toolbox in TLA+

This directory holds TLA+ models of the services in this repository, TLC
configurations that check them on small instances, and proofs, checked with
TLAPS, of what holds of them for every instance. Paths like `pkg/...` below are
relative to the repository's sources; `PROJECT.json` maps every definition that
stands for code to its file and lines.

## 1. The system

The repository contains Tekton interceptors and some helpers around them. A
GitHub webhook passes a chain of interceptors (README, "Simple flow"):

    webhook -> kube-pipeline-config -> github-pipeline-config -> pipeline-config-trigger
               (ConfigMap)             (.tekton.yaml)            (creates PipelineRuns)

Each interceptor answers `{continue, status, extensions}`; the event listener
puts the extensions into the next request, so a pipeline configuration grows
along the chain and is turned into PipelineRuns at its end. Tekton reports the
life of TaskRuns as cloud events, which `github-status-sync` turns into GitHub
check runs; these link to logs that `gcs-log-proxy` serves from a bucket.

| component | state it keeps | operations | interacts with | what is hard | what makes it correct |
|---|---|---|---|---|---|
| **github-status-sync** `pkg/cloudeventsync`, `pkg/githubstatussync` | process-wide map `trss` (last status by TaskRun UID), counter `es`; no lock | `Process`, `checkRunStatusChanged`, `Sync`, conclusions and statuses | event listener calls it, it calls GitHub | concurrent handlers on the map, record-then-post, redelivery, reordering, restarts | a status that is recorded or acknowledged reaches GitHub; GitHub shows the last one, in the right colour |
| **kube-pipeline-config** `pkg/kubepipelineconfig` | `sync.Map` of parsed configurations | watch goroutine, `Get`, `Close`, request merge | API server (watch and get), the chain | late fetches against watch events, broken watches, expiry, restart | the cache follows the ConfigMap; what is returned was its content |
| **pipeline-config-trigger** `pkg/pipelineconfigtrigger` | a limited pool shared by all requests | `Process`, `Create`, `create`, shutdown | API server, the pool | partial failure, cancellation, pool closed while requests are open | OK means all of them; nothing is created after the answer; every request is answered |
| **pipeline-config** `pkg/pipelineconfig`, `pkg/pipelinemerge`, `pkg/pipelinerun`, `pkg/pipelineresolver` | the configuration in memory while `PipelineRuns` runs | filters, merge of three parts, evaluation of metadata and parameters; `Merge` of two configurations | used by the three interceptors and the validator | memory shared by the merges, slices by name, panics in reflection | each PipelineRun is what its three parts say, whatever was built before it; all of a request's are handed on to be created, or none |
| **server lifecycle** `internal/serversignals` | two errgroups, a timer | `StartAndWaitSignalsThenShutdown`, `WaitSignalsThenShutdown`, `Shutdown`, `ListenAndServe` | every `cmd/*/main.go` with a server | four goroutines that may return the error, the force-stop timer, a return before requests have ended | a server that is told to stop ends, and cleanly |
| **gcs-log-proxy** `pkg/gcslogproxy`, `pkg/logproxy` | pool shared by requests | list, fetch all pieces, join | bucket, pool | order of pieces, cancelled units, mapping of errors | the log is complete and in order, 404 and 500 where they belong |
| **cluster interceptor updater** `internal/clusterinterceptorupdater` | Secret with the server's certificate, ClusterInterceptor's caBundle | create certificate, update caBundle | API server, lister cache, other replicas | replicas that start together, stale lister, a Secret that is deleted | the caBundle names the Secret's certificate, and every replica ends up serving |
| **github-pipeline-config** `pkg/vcspipelineconfig`, `pkg/githubpipelineconfig` | none | one GitHub call, merge | GitHub, the chain | error without a response, triggers merged by name | the repository's triggers extend the central ones and change no other |
| **triggers handler** `pkg/triggers` | none | decode, `Process`, encode | HTTP | - | a handler's error becomes its status code |
| **config-validator** `cmd/config-validator` | two files in memory | merges them and builds every PipelineRun, without filters and evaluation | file system | says something about requests it has not seen | what it says of a configuration holds for every request |
| **glue** `internal/{viperconfig,chimiddleware,knativeinjection}`, `pkg/githubtransport` | none | wiring | - | - | - |

`PROJECT.json` lists the same components with their status and, under
"hazards", each place in the code where something can go wrong that a test
would hardly reach, with the properties that cover it or the reason why none does.

## 2. The modules

| module | models | with |
|---|---|---|
| `CloudEventSync` | github-status-sync | `MCCloudEventSync`, `CloudEventSyncProofs`, `CloudEventSyncSerialProofs` |
| `KubePipelineConfig` | kube-pipeline-config | `MCKubePipelineConfig`, `KubePipelineConfigProofs` |
| `TriggerPromise` | what pipeline-config-trigger promises (abstract) | |
| `PipelineTrigger` | pipeline-config-trigger, its pool and shutdown; implements `TriggerPromise` | `MCPipelineTrigger`, `PipelineTriggerProofs` |
| `PipelineBuild` | `Config.PipelineRuns` with the memory its merges share | `PipelineBuildProofs` |
| `ConfigChain` | the configuration along the chain of interceptors, and in config-validator; composes `PipelineBuild` | `MCConfigChain`, `ConfigChainProofs` |
| `LogPromise` | what gcs-log-proxy promises (abstract) | |
| `LogProxy` | gcs-log-proxy, its pool, the changing bucket and the shutdown; implements `LogPromise` | `MCLogProxy`, `LogProxyProofs` |
| `ServerSignals` | the life of a server: both groups, timer, signal | |
| `CertUpdater` | `PrepareTLS` in several replicas | |
| `Interceptors` | composes `ServerSignals` and `CertUpdater`: replicas that start, serve, stop and start again | `MCInterceptors`, `InterceptorsProofs` |

All parameters are CONSTANTS with named assumptions. A `_Suffix` on an operator's
name marks a mutant: the definition after it with one plausible bug. No run uses
it; it shows that the property that `PROJECT.json` gives with it is not vacuous.

### CloudEventSync

A handler goes through `lookup`, `store` or `count`/`counted`, `sync`, `post`,
`posted`, `answer`. The steps are split where another goroutine or a failure
can come in between:

- `Lookup` is the read of `trss` and the comparison, `Store` the write. The Go
  runtime may end a process that does both at once, which is `MapRace`. The
  other outcomes of that race are the interleavings of the two steps.
- `es++` is `CountRead` and `CountWrite`.
- `Sync` decides before the call: a TaskRun that cannot be converted is dropped
  without an error, one whose annotations are no templates with one.
- `CreateCheckRun` happens at GitHub; the call then returns, or fails with or
  without GitHub having created the check (`CallSucceeds`, `CallFails`).
- `ReceiveOther` stands for requests without a TaskRun.

The sender (Tekton's event sink and the event listener) is external: it emits
a TaskRun's events along Tekton's life cycle, and may deliver one again. GitHub
is external too: `board` is the check that it shows, the last one created.
`Delivery` says how much order the sender keeps: `any`, `fifo` (an event
arrives after the one before, which may still be in a handler) or `serial` (it
waits for the answer). No code in this repository enforces an order; the
properties say which order they need. `posted`, `dropped`, `acked` and `skips`
are history variables that no action reads.

### KubePipelineConfig

A ConfigMap is the sequence of its versions (`log`), a cache entry the number of
a version. `WatchEvent` is one turn of the watch loop; `Reconnect` is what the
retry watcher does when it loses its connection before the first event, because
it then starts over with an empty resource version. Later losses resume at the
last event. `WatchGone` and `WatchClosed` are the two ways the loop meets an
event whose object is no ConfigMap, so that the unchecked assertion ends the
process; `Boot` starts it again. A handler follows `Get`: two loads, the fetch,
the store, and the assertion on the second load's value, which panics (`Panic`,
answered 500 by the Recoverer). What it got is merged with the configuration in
the request, which ends well, with an error or in a panic of its own
(`MergePanic`). `shadow` (what the watch alone would have made of
an entry) and `outdated` are history variables.

### PipelineTrigger and TriggerPromise

A request's handler goes `new`, `queue`, `wait`, `end`. Each PipelineRun it
asks for is a unit: a goroutine (`spawned`) enters the pool under its read lock
(`sending`), puts the unit into the channel of capacity `2 * Workers`
(`queued`), a worker runs it (`running`), the API server creates the
PipelineRun (`applied`), and the result is there (`done`). Shutdown follows
`cmd/pipeline-config-trigger/main.go` and `serversignals`: a signal goes to two
channels (`Signal`), so that the context of all requests is cancelled (`Cancel`)
before, while or after the server shuts down. `Close`/`Closed` close the pool,
which waits for the lock and then cancels what is left (`Drain`), and `Exit` may
come at any moment after the signal, because `ListenAndServe` returns when the
shutdown begins. (`ServerSignals` has these steps one by one.)
The pool (`go-playground/pool`) is external and modelled by what its documented
`LimitedPool` does with queue, workers and lock.

`TriggerPromise` is the contract: PipelineRuns of a request appear while the
request is open, none twice, and OK means that all of them exist. The
refinement mapping is the identity on `want`, `made` and `answer`.

### PipelineBuild

One step is one filter, one merge or one evaluation of parameters. What this
module keeps is who shares memory with whom. It rests on how mergo v0.3.15
treats its destination (external): a nil pointer or slice takes over the
source's; a pointer that is not nil is merged through; the transformer of
`pkg/pipelinemerge/slice.go` runs only for slices that are not nil. So the first
part with `timeouts` lends its pointer, the first part with elements its array,
and later parts write there. `spare` is the capacity left in an array, which
decides whether an `append` stays in it. Parameters have names, but are slices of
pointers: they are appended whatever their names, and `Reconcile` evaluates them
in place. A map is copied key by key into one of the run (`label` is the value of
one key), and evaluated there, before the parameters; an error of either ends the
request.

A value is named by the configuration (`"central"`, `"local"`), the part
(`<<0, 0>>` defaults, `<<t, 0>>` a trigger's defaults, `<<t, k>>` a pipeline)
and the place that gave it. `mode` says who builds: pipeline-config-trigger, or
config-validator, which looks at no filter (`Verdict`) and evaluates nothing
(`Evaluated`). `Choice` abstracts a part to one field of each kind: a pointer (`timeouts`), one
key of the maps in its metadata (`label`), a slice of structs with names (`items`, in the code `workspaces` and the like), a
slice of structs without (`bare`: `taskRunSpecs`), a slice of pointers
(`params`). A parameter's value, and a label, is text, an expression (`expr`), an
expression whose value is an expression again (`nested`), one whose value does
not evaluate (`poison`) or one that does not evaluate itself (`undefined`).

`Finish` is the end of the request. What `PipelineRuns` returns is all that was
built, or an error and nothing, and `interceptor.Process` calls `Create` with it
only in the first case: `handed` is how many PipelineRuns that call was given.
What becomes of them there is `PipelineTrigger`.

### ConfigChain

A request passes `ReadCentral` (kube-pipeline-config's step), `ReadLocal`
(github-pipeline-config's, when it is in the chain) and `Decode`, and then
`PipelineBuild` goes on. config-validator does the same with its two files. The
configuration is JSON between interceptors, so `ext` is a value and nothing is
shared until `Load` decodes it. `MergeConfig` is `Config.Merge`: the
transformer merges the triggers, and the lists in the common defaults, by name;
but two triggers of one name are merged inside without the transformer, so that
there lists replace lists (`MergeTrigger`, `LaterList`). The transformer is
that of `PipelineBuild`, whose `merge` takes items and triggers. The validator
merges in memory, but nothing of one file gets into two places of the result,
so there is nothing to share either. A trigger's name is optional: 0 stands for none. `ReadFails`
(an error), `ColdGet` (the panic of kube-pipeline-config's `Get` when it has to
fetch, as `KubePipelineConfig` has it) and `NoResponse` (the panic of
github-pipeline-config's error path) are the ways in which an interceptor ends
the chain, and `fault` notes which.

### LogProxy and LogPromise

Objects are numbers in the order of their names. `List` is the listing and the
batch: one unit for each object that was listed; `sort.Strings` is `Sort`. A
worker starts a unit, `Fetch` reads what the bucket has by then, and `Collect`
takes results in any order, as they come from the batch's channel. A unit that
the closed pool cancelled, or in which the closed client panicked, has no
value: `CollectPanics` is the type assertion on it, made before the error is
looked at, and the Recoverer answers 500. All errors of fetches are joined into
one of a type that the handler does not know, so that only a listing is ever
answered 404. The shutdown closes client and pool in goroutines of their own,
and the process may end at once. The bucket changes under the request
(`Change`).

`LogPromise` is the contract: OK comes with the log as the bucket had it at one
moment, every piece once and in order, 404 only when there is no bucket. The
refinement maps its moment (`snapshot`) to what the request listed, a panic to
500, and the body to `buf` once the answer is 200.

### ServerSignals, CertUpdater and Interceptors

`ServerSignals` has one step for each thing the four goroutines of the two
errgroups do. The first error is the outer group's result and cancels its
context (`Raise`); `main` takes every error but `http.ErrServerClosed` for a
failure (`ExitOf`). A signal is sent to knative's channel, which cancels the
base context, and to the server's, if `signal.Notify` was called already
(`Notify`); one that comes before leaves a server running with a cancelled
context until the kubelet kills it (`Kill`). `http.Server.Shutdown` waits for
requests until its context is cancelled, which is as soon as `Serve` returns
(`GroupOver`).

`CertUpdater` is `PrepareTLS`, one action for each call: Secret, ClusterInterceptor
from the lister, create or update with the resource version that the lister had.
Certificates are numbered as they are generated. Every error ends the process
(`"fatal"`). The lister is a copy (`seen`) that `Sync` brings up to date at any
time until it is read. `late` notes that the caBundle was last written from
a Secret that was gone by then.

`Interceptors` runs both for a set of replicas that share Secret and
ClusterInterceptor: `Boot` (Kubernetes starts a container, again and again),
`Prepare`, `StartServer`, `Run`, signals, broken listeners, failed calls, and
the operator who deletes the Secret, as the README tells him to.

## 3. The runs

| run | configuration | shows |
|---|---|---|
| `ce_any` | 1 TaskRun of every kind, 2 handlers, 3 events, any order, 1 failed call, 1 redelivery, 1 crash | `TypeOK`; a recorded or acknowledged status was posted, will be, or its post was given up (`RecordedIsAccountedFor`, `AckedIsAccountedFor`); lost counts but no invented ones (`CounterNeverExceedsSkips`); no check is green or red that should not be (`ConclusionMatchesOutcome`) |
| `ce_serial` | 2 TaskRuns, 2 handlers, 2 events each, serial, 1 failed call, 1 redelivery | `AckedIsShown`, `NoCheckRepeated`, and the liveness property `EndIsShown` |
| `ce_lost` | 1 handler, 1 failed call, 1 redelivery | **violated**: `AckedIsPosted` |
| `ce_order` | 2 handlers, 2 events, fifo, no fault | **violated**: `SettledBoardIsCurrent` |
| `kube` | 1 labelled ConfigMap with 4 versions, 2 handlers, 1 restart, early losses | `TypeOK`, `ReturnedWasContent`, `StaleOnlyByLateFetch`, and the liveness property `EventuallyCurrent` |
| `kube_cold_get` | 1 handler, 2 ConfigMaps, one without the label | **violated**: `FetchedIsReturned` |
| `kube_stale` | 1 handler and the watch, 2 versions | **violated**: `CaughtUpIsCurrent` |
| `trigger` | 2 requests for up to 2 PipelineRuns each, 1 worker, every kind of request, shutdown at any moment | `TypeOK`, the refinement `KeepsPromise`, and the liveness property `ServedIsAnswered` |
| `build` (`ConfigChain.cfg`) | two central pipelines in one trigger or two, every combination of filters and of 8 defaults, 7 trigger defaults and 9 pipelines; and central configurations of at most one pipeline with each of 8 local ones; trigger and validator | `TypeOK`; the merge adds the local triggers by name and changes no other, if names are distinct (`MergedByName`); a PipelineRun is what its parts say after pipelines that wrote to nothing shared, its parameters by name where no name comes twice (`RunAfterTameOnes`); what a pipeline itself gives always wins, and its metadata is its own (`OwnPartWins`); whether merges panic depends on nothing that is shared, so the validator foresees it, unless names are repeated in a pipeline's parts and in those of one before (`PanicIsForeseen`); the request ends as its configurations say (`OutcomeIsExplained`); PipelineRuns are handed on to be created only when nothing of the whole request fails, however late, and then all of them (`AllOrNothing`) |
| `build_shared` (`ConfigChainShared.cfg`) | the same | **violated**: `RunsAreIndependent` |
| `log_proxy` | 2 requests that share a piece, 2 objects, 1 worker, 2 changes of the bucket, failing calls, shutdown at any moment | `TypeOK`; a request is refused only for a failure of its own calls, a piece that was removed, or the shutdown (`RefusedForItsOwnReason`); the refinement `KeepsLogPromise`; the liveness property `ListedIsAnswered` |
| `interceptors` | 2 replicas, 2 certificates, a Secret that is deleted, 1 signal, 1 failed call or listener | `TypeOK`; a server that was told to stop exits cleanly, unless its listener broke or it was killed (`CleanExitWhenTold`); the caBundle names the Secret's certificate once a replica is through with it, unless it was written late (`RegeneratedIsTrusted`); the liveness properties `EndedServerEnds` and `EventuallyServing` |

The runs that expect a violation state what the documentation says, and TLC
shows that the code does otherwise; `findings` in `PROJECT.json` quotes the
lines. In short:

- A status is recorded before it is posted, so a failed post is never repaired:
  the redelivered event is skipped and answered OK (`ce_lost`).
- Two handlers of one TaskRun may post in the wrong order, and nothing corrects
  what GitHub then shows (`ce_order`).
- `kubepipelineconfig.Get` panics on every cold fetch, because it returns the
  value of the second load and not what it fetched (`kube_cold_get`).
- The same `Get` may store a version older than the watch's (`kube_stale`).
- What one pipeline overrides or evaluates turns up in the next PipelineRun of
  the request (`build_shared`).

The passing runs therefore state the strongest things that are left: with
`dropped`, `outdated`, `Tame` and `ParamsApart` they name the exact exception and
show that there is no other one.

One disagreement is such an exception and has no run of its own. A pipeline's
parameter does not override the default of that name, although the documentation
calls defaults default values (`docs/pipeline-config.md:13`, `104`) and the tests
of the merge assert an override by name, of slices of structs
(`pkg/pipelinemerge/slice_test.go:11-42`, `81-122`). `ParamSlice` is a slice of
pointers, which are appended (`slice.go:62`), so that the PipelineRun has both.
`AsExpected` says what the parameters should be by name (`ExpectedParams`); it
requires exactly these where no name comes twice in a pipeline's three parts
(`ParamsApart`), and otherwise only that they are among those the PipelineRun
has. Without that exception `RunAfterTameOnes` is violated in `build`.

**Bounds.** Two handlers are enough for every race in the code, as each of them
is between two accesses to one entry; handlers are symmetric. Three events let
a status return after another one, and arrive in every order. Four versions let
a ConfigMap be created, broken, repaired and deleted around one fetch. One
worker for two units per request makes the channel (2 places) fill up and
senders wait while the pool is closed. In `build`, two pipelines are the least
that can disturb each other, within one trigger and across two, and each kind of
field occurs in every part, present and absent, so that both nil and non-nil
destinations are met in every merge. The local configurations are one for each
way to meet a central one: pipelines for a trigger that exists, other defaults
for it, a new trigger before one that exists, no filter, no names, a name twice,
a slice without names; they are combined with smaller central ones, because what
they change is over when the build begins. In `log_proxy`, two pieces come in
either order, one worker makes a request wait for the other's units, and two
changes remove a listed piece and write another. In `interceptors`, two replicas
race for both objects; with two certificates the Secret is deleted once, between
any two steps of either; one fault may hit any call or listener, and the signal
any moment from before `Notify` to after the listener broke.

**Deadlock** is checked except where the instance really stops: bounded
senders fall silent, requests are all answered, a build ends. `interceptors`
and `kube` are checked for deadlock. `ReceiveOther`,
`ReceiveBad` and `Receive` keep the others going, as they would keep a server.

**Fairness.** Weak fairness of the handlers' steps is Go's scheduler, together
with GitHub and the API server answering or failing. `CloudEventSync` adds
strong fairness of receiving: the server starts a goroutine for each request,
so none waits for the bound `Handlers`. `KubePipelineConfig` assumes that the
API server delivers the watch's events and that Kubernetes starts an ended
container again. `PipelineTrigger` assumes the steps of units, of handlers past
`Process`, and the end of `Close`; `LogProxy` the steps of units and answers
(the code gives each fetch a minute). `Interceptors` assumes that goroutines
run, that the API server answers, that calls with a cancelled context fail and
that Kubernetes starts an ended container again; not that requests end, that the
timer fires or that a grace period runs out. Nothing is assumed of senders, of signals,
crashes or writes to ConfigMaps: those need not happen.

## 4. The theorems

Every theorem holds for all values of the constants under the modules' named
assumptions.

| module | theorem | says |
|---|---|---|
| `CloudEventSyncProofs` | `TypeCorrect`, `RecordedAccounted`, `AckedAccounted`, `CounterSound`, `ConclusionsRight` | `[]TypeOK`, `[]RecordedIsAccountedFor`, `[]AckedIsAccountedFor`, `[]CounterNeverExceedsSkips`, `[]ConclusionMatchesOutcome` |
| `CloudEventSyncSerialProofs` | `AckedShown`, `NothingRepeated` | `[]AckedIsShown`, `NoCheckRepeated`, both assuming `Delivery = "serial"` |
| `KubePipelineConfigProofs` | `TypeCorrect`, `ReturnsContent`, `StaleOnlyLate` | `[]TypeOK`, `[]ReturnedWasContent`, `[]StaleOnlyByLateFetch` |
| `PipelineTriggerProofs` | `TypeCorrect`, `ImplementsPromise` | `[]TypeOK`, `Spec => Promise!Spec` |
| `LogProxyProofs` | `TypeCorrect`, `Refusals`, `ImplementsLogPromise` | `[]TypeOK`, `[]RefusedForItsOwnReason`, `Spec => Promise!Spec` |
| `InterceptorsProofs` | `TypeCorrect`, `CleanExits`, `CaBundleFollows` | `[]TypeOK`, `[]CleanExitWhenTold`, `[]RegeneratedIsTrusted` |
| `ConfigChainProofs`, with the lemmas of `PipelineBuildProofs` | `TypeCorrect`, `LocalMergedByName`, `OutcomeExplained`, `OwnPartsWin`, `PanicForeseen`, `TameOnesAsExpected`, `AllOrNone` | `[]TypeOK`, `[]MergedByName`, `[]OutcomeIsExplained`, `[]OwnPartWins`, `[]PanicIsForeseen`, `[]RunAfterTameOnes`, `[]AllOrNothing` |

**CloudEventSync.** What is accounted for stays so
(`AccountedForStable`): a pending status is posted or given up, also when the
process ends. The invariants alone are not inductive, because an answer is
justified by a comparison two steps earlier: `HandlersJustified` says that a
handler that decided to skip, or will answer OK, does so for a status that is
accounted for, and that the value of `es` it read is below the number of skips.
The conclusions are right because the terminal event of a TaskRun is its last:
a message that says how its TaskRun ended (`Truths`) stays true, and only such
messages travel and are served (`AllTruthful`).

With serial delivery more holds. `OneByOne`: every message is one that was sent,
a TaskRun has at most one handler, and none receives a message older than one
that was received before. `Agree`, on top of it: unless a handler is working on
a TaskRun, its entry in the store is what GitHub shows, or its post was given
up. An answer OK is then an answer to the newest message, and a post is
always of something new. The overtaking that `ce_order` exhibits is what
the assumption excludes.

**KubePipelineConfig.** `Inv` adds to `TypeOK` that every held version is well
formed (`HoldsValid`), that a process that is down holds nothing
(`DownIsEmpty`), that what the watch alone has made of an entry is right once
it has caught up (`ShadowFollows`), and that an entry outside `outdated` is
either that or a version the watch still has to come to (`EntryExplained`).
The last two together give `StaleOnlyByLateFetch`.

**PipelineTrigger.** `UnitOK` ties the progress of a unit to how often its
PipelineRun was created, `RequestOK` the handler's place to its units: none
before `Queue`, all done at the answer. From both, every step maps to a step of
`TriggerPromise` or a stutter.

**LogProxy.** `RequestOK` says that units belong to pieces, and that as long as
there is no error a piece that was taken is in its place; so the body of a 200
is the sequence of what was listed. That a finite set of numbers can be sorted
at all is a lemma (`Sortable`, by cardinality of what is smaller). `ReasonOK`
gives each failed unit its reason and carries it to the answer: with it the
refusals are explained. Each step then maps to a step of `LogPromise` or a
stutter.

**Interceptors.** `Inv` adds to `TypeOK` how the goroutines of a server stand to
each other (`LifeOK`: the group's first error is the listener's, because the
others only end once there is one), and for the certificates that a replica that
sees the Secret's certificate in its lister's caBundle will find it there, or
overwritten late (`CertOK`, `Trusted`). Without the latter
`RegeneratedIsTrusted` is not inductive: `ReadLister` skips the write for what
it saw.

**ConfigChain and PipelineBuild.** The theorems are about configurations of any
size: any number of triggers, pipelines, parameters and elements of slices. The
merge of slices is a loop, and the model's `Loop` a function of the index. The
library's induction takes an operator as parameter and cannot be used, but
"every set of numbers has a least one" (`Least`, from the well-foundedness of
`<`) can: with it the loop unrolls (`LoopUnrolls`), and what each element
preserves the whole loop does (`LoopInduction`). So the merge of distinct names
is the merge by name, and never runs out of range (`TransformerMerges`), and the
merges of two slices with the same names panic together, whatever they share
(`AlikeMerges`).

`ChainInv` gives the types, with `BuildInv`: the parts of a configuration, the
place of the current job among them, pointers that lead to parameters. On it
rest, in this order, each one inductive given those before:

- `ProgressInv` counts what is done: the pipelines before `job` are those that
  are built; the run holds the pointers of the sources it has merged; a
  parameter in memory is `undefined` or `poison` exactly by what it was and
  whether a pipeline before pointed to it; the run's label is the last that its
  merged sources give, and no label in memory is ever written. Hence the
  outcomes.
- `Owned`: merges write to defaults, never to a pipeline, and what the run
  shares is a prefix of what it holds. `Gathered`: if names are distinct, no
  write changes a name, and the run has the names of its sources and the values
  of the last. Hence `OwnPartWins`.
- `Foreseen`: until a name is repeated, the names in memory are the names as
  loaded, and those of the run are what merges in memory of their own yield
  (`Second`), so both panic or neither does. A repeated name that panics or
  renames is the exception `Renamed`.
- `Handing` and `InOrder`: what is handed on is all that was built, only at an
  end that is OK, and what is built is in the order of the pipelines. With the
  outcomes and what is foreseen, `AllOrNothing`: an end that is OK has no failing
  filter, label, parameter or merge anywhere in the request.
- `TameInv`: as long as all pipelines that are built were tame, only the sources
  the current run has taken may have been written (`Clean`), the run has what
  they give (`Gives`), and a parameter still to be evaluated has its value, or
  the text it evaluates to (`ParamsKept`). A tame pipeline overrides nothing, so
  it leaves everything as it was loaded to the next one. The run points to each
  parameter of its sources once (`RunPointsOnce`): where no name comes twice its
  parameters are those the sources give by name (`ParamsAsExpected`).

The assumptions are `NoneAssumption` (nil is no part), and that the choices and
local configurations the constants list are well formed (`ChoicesAssumption`,
`LocalsAssumption`).

**Only model-checked:** the liveness properties `EndIsShown`,
`EventuallyCurrent`, `ServedIsAnswered`, `ListedIsAnswered`, `EndedServerEnds`
and `EventuallyServing` (liveness under fairness is outside the prover).
Every other property of a passing run is also a theorem.

## 5. What is not modelled

- Texts, links, durations and annotations of check runs; logging; the decoding
  of requests, beyond whether it fails; the CEL language, beyond whether a value
  evaluates and to what kind of value.
- In `CloudEventSync`, an answer that is lost while its handler goes on (the
  server's write timeout), and payloads: events of one type are equal, as they
  are for the code.
- In `KubePipelineConfig`, a connection lost in the middle of the initial list
  of several ConfigMaps.
- In `PipelineBuild`, more than one key of the labels and annotations (a map of
  the run's own is filled and evaluated key by key: `label` is any one of them),
  pointers inside elements of slices (they behave like `timeouts`) and array
  parameters. With a name twice in one part the merge may address the wrong
  element (`slice.go:56`), also in an array that is shared: its result is
  modelled, but only `PanicIsForeseen` and `OutcomeIsExplained` speak of it, and
  the former except when a pipeline before has repeated a name too (`Renamed`),
  whose write may have renamed an element.
- In `ConfigChain`, what the merged configuration shares with the cache of
  kube-pipeline-config while it is encoded (`pkg/triggers/request.go:35`: the
  cached one is the source of the merge, which writes to its destination only,
  but for names that repeat). Local triggers without a name, or with one that
  repeats, may be merged into a trigger they do not name: the model has it, and
  `MergedByName` excludes them (`LocalWellNamed`). Tekton's own validation of a
  PipelineRun, which config-validator calls, is external.
- In `LogProxy`, the pages of a listing (it is one step), the content of a piece,
  and the server's write timeout.
- In `ServerSignals`, a second signal, which knative answers with `os.Exit`: a
  kill at any time stands for it.
- In `CertUpdater`, what the Secret's keys contain: `X509KeyPair` does not fail.
- The triggers handler and the glue keep no state and decide nothing that takes
  more than one step.

## 6. Plan

All modules that were planned are written: `CloudEventSync`,
`KubePipelineConfig`, `PipelineTrigger` with `TriggerPromise`, `PipelineBuild`,
`ConfigChain`, `LogProxy` with `LogPromise`, `ServerSignals`, `CertUpdater` and
`Interceptors`. What would add most next:

1. `PipelineTrigger` and `LogProxy` composed with `ServerSignals`, in place of
   the single step `Exit`; both now let the process end at any moment after the
   signal, which allows more than the composition would.
2. An answer that the write timeout cuts off while its handler goes on, in
   `CloudEventSync`.
3. An abstract specification of a request, which maps two configurations to
   PipelineRuns in one step: `ConfigChain` implements it where all pipelines are
   tame, and `TameInv` is the invariant that a proof of it would need.
