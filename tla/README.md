# A TLA+ model of the Kubernetes/OpenShift MCP server

The server exposes Kubernetes clusters to MCP clients as tools, prompts and
resources. Two things make it hard. One is everything that changes underneath the
calls: SIGHUP reloads, kubeconfig edits, clusters that gain and lose APIs, issuers
that cannot be reached, several goroutines that re-apply the toolsets, and a
configuration that lives in several places at once. The other is what one call
leaves behind when one of its many requests is refused, denied, declined or
cancelled. These modules model both, action by action and request by request.

## 1. The system

### Components

| Component (source) | State it keeps | Operations | Interacts with |
|---|---|---|---|
| MCP server (`pkg/mcp/mcp.go`, `tools_gosdk.go`) | SDK registries, `enabledTools/Prompts/Resources/Templates`, `configuration` (atomic), `reloadMu` | `NewServer`, `ReloadConfiguration`, `reapplyToolsets`, `applyToolsets`, tool dispatch, `Close` | called by the SIGHUP goroutine, by watch callbacks and by the SDK |
| Tool surface (`tool_filter.go`, `tool_mutator.go`, `prompt_mutator.go`, `pkg/prompts`) | none (pure) | mutators, filters, prompt merge | configuration, provider (targets, default target, GVKs) |
| Watchers (`pkg/kubernetes/watcher`) | `started`, channels, timer, `lastKnownState` | `Watch`, poll or event loop, debounce, callback, `Close` | fsnotify, shared discovery cache, provider |
| Kubeconfig provider (`provider_kubeconfig.go`, `manager.go`) | managers per context, default context, watcher instances, `mu` | `reset`, `managerForContext`, `WatchTargets`, target queries | watchers, tool calls |
| Process and SIGHUP (`pkg/kubernetes-mcp-server/cmd/root.go`) | signal channel, flags, `logSink` | `Complete`, `Validate`, `Run`, SIGHUP goroutine, `stop` | MCP server, `cfgState`, `oauthState`, sink |
| OAuth state (`pkg/oauth`), config state (`pkg/config/state.go`) | one atomic pointer each | `Load`, `Store`, snapshot comparison, provider creation | HTTP middleware, token exchange |
| HTTP authorization (`pkg/http/authorization.go`) | none between requests | the middleware | both states, the issuer |
| Single-cluster, kcp and ACM hub providers | managers, watchers, watch goroutine | as the kubeconfig provider; list and watch of managed clusters | API servers |
| Rate limiting and other middleware (`pkg/mcp/middleware.go`) | per-session limiters | check, reaper | live configuration |
| Token exchange (`pkg/tokenexchange`, `provider_token_exchange.go`) | cached STS configuration | strategy choice, exchange | OAuth state, configuration, provider |
| Tool dispatch (`tools_gosdk.go`, `prompts_gosdk.go`) | none between calls | filter, tool level confirmation, handler, answer | toolsets, configuration snapshot |
| Access control, validators, confirmation (`pkg/kubernetes/accesscontrol_round_tripper.go`, `*_validator.go`, `pkg/confirmation`) | none / per request | checks before a request is sent | discovery, elicitation |
| Configuration loading (`pkg/config`) | none | read, merge drop-ins, validate | files, flags |
| Log sink (`pkg/logging`) | writer, file, `mu` | `Write`, `Reload`, `Close` | everything that logs |
| Toolsets (`pkg/toolsets/*`, `pkg/helm`, `pkg/kubevirt`, `pkg/ocp/mustgather`, ...) | mostly none; must-gather keeps loaded archives | one handler per tool | derived Kubernetes client |

`PROJECT.json` lists every component with its status, and every hazard with the
line where it bites and the properties that cover it.

### The behaviours that are hard

* **Several writers of one surface.** A SIGHUP, the kubeconfig watcher and the
  cluster watcher may all be inside `applyToolsets`; one of them may fail.
* **Copies of the configuration.** The MCP server, the log sink, `cfgState` and
  `oauthState` are updated one after the other, and any update may fail.
* **State that is read twice.** A watcher records the cluster state in a second
  read, the middleware loads two atomics, a call resolves its tool before it
  loads the configuration.
* **Goroutines that stop each other.** `reset` closes the watcher whose callback
  it runs in; `Close` waits for a goroutine; shutdown drains the SIGHUP handler.
* **Outages.** Discovery and issuers fail and recover; failures must not be
  recorded as success.
* **Calls of many requests.** A handler sends up to some twenty requests; any one
  may fail, need the user's consent or meet a cancelled context, and the objects
  the handler made for itself must go all the same.
* **Histories followed by a watch.** The ACM provider must not lose or repeat an
  event however its watch ends, while calls race to build managers.
* **Values read before a lock.** The rate limiter compares settings it read
  earlier, and spends tokens of a bucket that may be gone from the map.

## 2. Modules and how they correspond to the code

| Module | Models | Proofs |
|---|---|---|
| `TransactionalReload` | abstract specification: one installed configuration, candidates answered once | |
| `ToolsetReload` | `applyToolsets` and everyone who calls it, tool dispatch and snapshot | `ToolsetReloadProofs` |
| `ToolSurface` | the pure computation of the exposed tools and prompts | `PureFunctionsProofs` |
| `DebouncedWatcher` | `Kubeconfig` and `ClusterState` watchers | `DebouncedWatcherProofs` |
| `KubeconfigProvider` | the kubeconfig provider, its watcher instances and the calls | `KubeconfigProviderProofs` |
| `SighupReload` | start-up, SIGHUP goroutine, OAuth and config state, middleware, shutdown | `SighupReloadProofs` |
| `HandlerCode` | the language handlers are written down in | |
| `Confirmation` | confirmation rules and the fallback | |
| `ToolCalls` | one call from dispatch to answer, with every check a request passes | `ToolCallsProofs` |
| `HandlerDisciplines` | how handlers are written, as conditions on their code | `ToolCallsProofs` |
| `CoreHandlers` | `pkg/toolsets/core`, `config`, cluster diagnostics and the `pkg/kubernetes` functions they use | |
| `NetworkHandlers` | netedge, OVN-Kubernetes, CNI diagnostics | |
| `VirtualMachineHandlers` | `pkg/kubevirt` and its toolset | |
| `PlatformHandlers` | Helm, Tekton, OADP, kcp, the must-gather plan | |
| `ServiceHandlers` | Kiali and NetObserv | |
| `ArchiveHandlers` | the tools on must-gather archives | |
| `AccessControl` | how the round tripper reads a URL and what it denies | `PureFunctionsProofs` |
| `ArchiveQueries` | the search in a pod's archived log | `PureFunctionsProofs` |
| `PureFunctions` | asks the three modules above about one input after another, and states what they promise | `PureFunctionsProofs` |
| `AcmHub` | the ACM provider: list, watch, lazily built managers | `AcmHubProofs` |
| `RateLimit` | the per-session rate limiter, its reaper and its shutdown | `RateLimitProofs` |

`MC*` modules give the constants their values for TLC. The map from definitions
to source lines is in `PROJECT.json`.

**ToolsetReload.** One action per phase of `applyToolsets` that another goroutine
can observe: lock, collect (per kind), convert or fail, read the previous names,
remove and add item by item, warm the caches, store the configuration, write the
bookkeeping, watch. `candidate[p] = Nil` is the nil argument of
`reapplyToolsets`. What a configuration yields is the constant operator
`Surface`; `MCToolsetReload` instantiates it with what `ToolSurface` computes, so
the two modules are composed in the run, and the proofs hold for every surface.

**ToolSurface** translates the mutators and filters in the order of
`collectApplicableTools`, including the renaming of `targets_list` and the
difference between a nil and an empty `enabled_tools` list. `ToolCalls` uses its
`IsToolApplicable`.

**DebouncedWatcher.** A critical section of `w.mu` is one action; the discovery
cache, the world, the channels and the timer are not protected by it and are
separate. The same module is instantiated for both watchers (`kind`). An
unreachable cluster is one of the states the world can be in (`Down`): discovery
then fails, `captureState` records what an empty answer gives, and the error is
not cached.

**KubeconfigProvider.** A manager is the version of the file it was built from.
`reset` is up to four actions (load, close the watchers, wait for their
goroutine, install) under `mu`; a lookup is a read under the read
lock and a recheck under the write lock. The inside of a watcher is left to
`DebouncedWatcher`; of it this module keeps that a timer may be armed by an event
that was received just before `Close`, that `Close` waits for the goroutine of a
running instance while `mu` is held, and that `Watch` may return early without
one (`"deaf"`, finding 1), so that this wait has no end.

**SighupReload.** One action per store the rest of the process can see. Settings
that behave alike are one field: `readOnly` stands for everything that is neither
OAuth nor logging, `certificateAuthority` for the outbound client's TLS settings.
A provider is the issuer, the certificate and the `require_tls` it was built from:
the client asks the configuration object it was given, which a reload replaces and
never changes, and the comparison of snapshots does not look at it. Discovery has
no time limit: with an issuer that accepts the connection and says nothing the
goroutine hangs (`"hung"`) until that issuer acts. The middleware is two
actions because it loads two atomics. `ApplyConfiguration` is the whole of
`ReloadConfiguration`, justified by the refinement proved for `ToolsetReload`: a
reload is accepted in one step or refused without a trace.

**HandlerCode and the handler modules.** A handler is a sequence of instructions,
one per request the Go function sends, in its order: `Do` for a request whose
error is returned, `Try` for one whose error is dropped, `Detached` and `Apart`
for one under `context.Background()`, `Attempt` for a called function and its
`rescue` for what an error in it does, `Finally` for `defer`, `Either` for a
branch on data. The data are left out: a condition on them is a choice, so a
handler of the model takes every path of the code and perhaps some that no data
would select. Loops go `MaxRounds` = 2 rounds (`Each`). The operators carry the
names of the Go functions, and a tool is an entry with its annotations, as in the
toolset's table; every tool and prompt of every toolset is there.

**ToolCalls** runs such code. `todo` is the rest of the handler; a request passes
cancellation, the denied kinds, the validators, the confirmation and the licence
check for Windows images in the order of the round tripper, and then the API
server carries it out, refuses it, or carries it out and the answer is lost (a
broken connection, a call cancelled in flight), which the handler takes for an
error. A step of a handler that can fail after its last request (printing or
decoding the object it got back) is a `Check` of its own. `owed` are temporary objects not yet removed,
`changed` what the call changed, `last` the last request that left. Two
configurations are kept: the one the server dispatches by and the one the
Kubernetes clients were built from, since a SIGHUP changes the first only. Calls
do not interact at this level, so one at a time is followed.

**AcmHub.** The hub's API server is a history and a resource version a position
in it; `Compact` makes versions unusable. The goroutine of `watchManagedClusters`
is one action per place where it can be overtaken: the check for cancellation,
the start of the watch, the receipt of an event (which keeps its version), its
application, the hub name, the callback. `managerForCluster` builds outside the
lock and looks again. `LocalName` is the literal `"local-cluster"` that
`GetDefaultTarget` falls back to, which need not be the name of the labelled
cluster.

**RateLimit.** Reading the configuration, the critical section and taking the
token are three actions, and time may pass between any two of them. Time is
counted in refill periods, and `ReapAfter` says how many of them ten minutes are
under each setting: none, when a token takes longer. `ideal`, which is not in the
code, is a bucket that is never reaped; `late` and `early` remember which buckets
were used after their `lastSeen`, and which sessions had a bucket reaped that may
not have been full.

**HandlerDisciplines** says what the tables of handlers have in common, without
running them: a read-only tool is made of harmless instructions, a change is the
last instruction of every branch, a temporary object is created right before a
body that its removal follows and rescues. Each discipline is an assumption that
TLC evaluates on all of the repository's tools and prompts before it explores a
state; a new handler that does not keep to one is reported by its assumption, and
what a discipline is worth is proved in `ToolCallsProofs`.

**AccessControl, ArchiveQueries.** Operators that follow the Go functions
(`parseURLToGVR` with its index arithmetic, the ring buffer of the log search),
each compared with what it is meant to compute.

**PureFunctions** puts inputs to them. The configuration and the provider are
replaced by any others, so that two configurations can be compared as the server
would meet them; a request is put to the round tripper; a log is searched, one
action per turn of the scanner's loop. `matched`, which is not in the code, is the
list of all matches so far.

Abstract specifications: `TransactionalReload`, which `ToolsetReload` implements
under the mapping in its `TR` instance (a reloader's candidate is pending until
its store, and a call has seen what its snapshot holds): TLC checks it with
fairness, TLAPS proves the safety part. For the rate limiter it is the one bucket
per session, carried along as `ideal`; for the ACM provider the history itself,
through `Present`.

## 3. What the runs check

| Run | Question | Result |
|---|---|---|
| `toolset_reload` | do a reload, a watch callback and a call leave registries, bookkeeping and configuration in agreement, with nothing refused ever registered and no unwarmed snapshot; is the protocol transactional, and does every apply return? | holds |
| `watcher` | concurrent closes, restarts, overlapping callbacks, failing reloads, outages of the cluster: no double close, no goroutine after `Close`; changes are applied, but for an API server that returns in the middle of a poll; events are reloaded | holds |
| `watcher_no_fsnotify` | does every `Close` return? | violated (finding 1) |
| `kubeconfig_provider` | lookups racing resets: default has a manager, no stale manager, targets cover contexts, tools advertise the right default, nobody is stuck but behind a watcher that has no goroutine | holds |
| `sighup` | edits, coalesced signals, refusals, outages, silent issuers, requests, shutdown: the copies agree between reloads, stale OAuth state is retried (`require_tls` of the client excepted), and as long as discoveries end the last signal wins and shutdown returns; the sink closes last | holds |
| `sighup_flags` | do command-line settings survive a reload? | violated (finding 2) |
| `tool_calls` | every tool and prompt under six configurations with refusals, lost answers, declined confirmations, cancellation and reloads: are confirmations never skipped or reused, are debug pods removed, do the read-only and destructive annotations tell the truth (`pods_run` excepted), does a failed call leave at most the one change whose answer was lost, do prompts survive what they can? | holds |
| `read_only_writes` | does read-only mode send no writes at all? | violated (finding 3) |
| `debug_pod_orphan` | are debug pods removed when deleting pods needs consent? | violated (finding 4) |
| `acm_hub` | events, compaction, refused and ended watches, racing calls: no event is lost or repeated, racing calls share a manager, the targets catch up with the hub | holds |
| `rate_limit` | requests, reaper, clock and reloads: when does a session notice that its bucket was reaped, and how often does a reload refill it? | holds |
| `pure_functions` | over all small inputs: distinct tool names, one target list, tightening a configuration only removes tools; every URL that client-go builds is read as what it means, and denied exactly when its kind is; the log search returns the last matches, wherever the log ends | holds |

The runs take from a few seconds to some two minutes (`kubeconfig_provider`,
`sighup`) and the passing ones reach between 7,711 (`pure_functions`) and
1,384,282 (`rate_limit`) distinct states.

Every property of a passing run has a mutant: a plausible mistake in the mapped
code, written next to the action it replaces, under which TLC finds the property
violated.

### Findings

1. `watcher_no_fsnotify`: `Kubeconfig.Watch` sets `started` and may return without
   a goroutine; `Close` then waits for ever.
2. `sighup_flags`: start-up overlays the flags on the file, a reload does not, so
   `--read-only` and the others are lost with the first SIGHUP.
3. `read_only_writes`: the documentation says that `read_only` prevents any write
   operation; the CNI and OVS diagnostics tools are annotated read-only and create
   and delete a privileged debug pod. (`ReadOnlyLeavesNothing`, which holds, says
   that nothing stays.)
4. `debug_pod_orphan`: the deferred delete of a debug pod carries no MCP session;
   when a confirmation rule matches deleting pods it is refused without anybody
   being asked, and the pod stays. Without such a rule it is always attempted.

### Statements the code does not keep, without a run of their own

These properties stay in their modules because they say where a guarantee ends.
TLC refutes each as soon as it is added to the run of its module.

* `CallUsesOneConfiguration` (`ToolsetReload`): SDK registration and configuration
  store are separate steps, so a call dispatched in between pairs a new tool with
  the old configuration.
* `MultiTargetMatchesKubeconfig` (`KubeconfigProvider`): a prompt call with an
  empty context name stores a manager under `""`, after which a one-context
  provider reports two targets.
* `ResetsEnd` (`KubeconfigProvider`): a reset that closes a watcher without a
  goroutine (finding 1) waits for ever with `mu` held, and every later call with
  it. `NobodyIsStuck` excepts exactly that.
* `RecoveryIsApplied` (`DebouncedWatcher`): an error of discovery is not cached, so
  when the API server comes back between the reload's read and the read that is
  recorded, the recovered state counts as applied although the tools were computed
  without a cluster, until the cluster changes again. `ChangesAreApplied` excepts
  exactly that (`TookOutageForState`).
* `ReloadedSettingsApply` (`SighupReload`): `cfgState` is stored before the new
  issuer's discovery, so requests under the new configuration are admitted by the
  old provider until discovery ends, and from then on if it fails.
* `RequireTLSIsLive` (`SighupReload`): `pkg/oauth/state.go` binds the client to the
  `require_tls` of the configuration it was built with, and a reload that changes
  nothing else of the provider keeps the client. No later SIGHUP detects it.
* `StopAlwaysReturns` (`SighupReload`): shutdown waits for a reload, and the reload
  for an issuer that accepts the connection and does not answer, both without a
  time limit.
* `NoPodIsOrphaned` (`ToolCalls`): a debug pod that was created while the answer
  got lost is not deleted: the handler returns before its `defer`.

`DestructiveDisabledDeletesNothing` names `pods_run` as an exception
(`TakesOver`). It is annotated as not destructive, and forces its apply under a
name the caller may choose, so with `--disable-destructive`, which "will disable
all destructive operations (delete, update, etc.)" (`README.md`), it can still
overwrite a pod, service or route.

`ChangesAreApplied` also needs `ReloadsArePrompt`: with it FALSE, a change between
the reload's read and the recorded one is missed whatever it is.
`ServedAsByOneBucket` excepts the sessions in `early`: ten minutes may not refill
a bucket (`rate_limit_rps` 0.001), or may be counted from before the last token
was taken, and then reaping hands out a full bucket instead of a half full one.
`TargetsFollowHub` excepts two cases of the ACM provider: it never
lists again, so a version that was compacted away during a pause of the watch is
asked for again and again; and when the first list has failed, a watch that ends
among its initial events is resumed past the clusters it has not yet reported.

Corners of `AccessControl` outside the inputs that `PathsAreUnderstood` speaks
of, from the code: subresources of a namespace and a cluster-scoped object named
`namespaces` are read as a namespaced request, a watch is read as a list, and a
denial is per version where the entry names one. `TailLines`, which cuts a whole
log (the search does not use it, and it is not modelled), counts the empty text
after a final newline as a line.

### Bounds, and why they are enough

* **ToolsetReload**: three configurations (one with a writing tool, one read-only
  with the list tools, one whose template does not convert), two provider states,
  two names per kind, one reloader, one watch goroutine, one call. Removal,
  replacement, addition and refusal all occur; a third contender for the lock adds
  only permutations. The theorems cover every size.
* **DebouncedWatcher**: three states (two in the violation run) and an
  unreachable one, which a change can enter and leave; `MaxChanges` = 3 and `MaxFailures` = 2: change, failed reload,
  change back and recovery fit. Two callbacks and two closers overlap.
* **KubeconfigProvider**: `MaxWrites` = `MaxResets` = 2, so a reset can race a
  reset; two contexts, a broken file, one call, the start-up goroutine and one
  timer goroutine. Deadlock is not checked: a reset that meets a watcher without a
  goroutine really stops the provider.
* **SighupReload**: no counters; the state space is finite as it is. Six files:
  open with a log file, an issuer, other scopes and `require_tls`, other
  certificate and audience, token passthrough, one that `Validate` refuses; plus
  an unreadable file. One whose tools are refused takes the path of the one that is
  not valid, and flags are the subject of `sighup_flags`, so the run has neither;
  the theorems cover both. One request: requests do not interact.
* **ToolCalls**: all tools and prompts; `MaxRounds` = 2 rounds of a loop, so that
  a round can fail after one that succeeded. Six configurations: the default,
  read-only, destructive disabled with validation, two denied kinds, rules with
  fallback deny, rules with fallback allow; a reload goes from any to any.
* **AcmHub**: two clusters (the hub itself and another), two calls, `MaxEvents` =
  2 and `MaxManagers` = 2: a cluster can be deleted while a call builds its
  manager, and return. `LocalName` is the labelled cluster's, as it usually is; the
  run has also been made with another cluster's and with nobody's. The theorems
  cover every size and name.
* **RateLimit**: two sessions, two requests, three entries, a setting that refills
  within the ten minutes (burst 1, `ReapAfter` 1) and one that does not (burst 2,
  `ReapAfter` 0): a bucket can be emptied, refilled, reaped full or half full, and
  discarded under a request. The theorems cover every size and setting.
* **Pure functions**: four tools and the two list tools cover every branch of the
  filters; each setting ranges over values on both sides of its tests (nil, empty
  and non-empty lists). Names of objects and namespaces include the words the URL
  parser looks for. `MaxLines` = 7 with tails up to 3 wraps the ring twice. The
  theorems cover every table, path prefix, log and tail.

Symmetry is used for `rate_limit` only, which checks no liveness.

### Fairness

Only goroutines that the Go scheduler runs get fairness; nobody is obliged to
edit a file, send a signal, call a tool or close a watcher, and nothing is obliged
to fail.

* `ToolsetReload.Spec`: weak fairness for the steps of an apply, strong for
  `Lock`, because `sync.Mutex` hands over to a starving waiter.
* `DebouncedWatcher.Fairness`: weak for loop, timer and callbacks; strong for
  `LoopStops`, because `select` chooses at random among ready cases.
* `KubeconfigProvider.Spec`: weak fairness for callbacks, calls and the watcher
  goroutine that was told to stop suffices, resets being bounded.
* `SighupReload.Spec`: weak fairness for the SIGHUP goroutine and for the deferred
  calls of shutdown. A silent issuer is not obliged to answer: no fairness for
  `DiscoveryEnds`. That discoveries do not hang for ever is the stated hypothesis
  of the two liveness properties (`DiscoveriesEnd`).
* `ToolCalls`, `RateLimit`, `PureFunctions`: none, they check safety only. The code
  sets no time limit around most requests, so that every call is answered is not
  for the model to say.
* `AcmHub.Fairness`: weak for the goroutine's own steps and the server's call of
  `WatchTargets`; strong for starting a watch and receiving an event: an API server
  does not refuse every request, nor end every stream before its next event.

`ReloadsArePrompt` in `DebouncedWatcher` says that a reload ends before the next
poll is due; it is an assumption of `ChangesAreApplied`.

## 4. What is proved

TLAPS checks these for every value of the constants.

* **ToolsetReload** (`TypeCorrect`, `SurfaceConsistent`, `NothingRefused`,
  `WarmSnapshots`, `Implements`). The surface property alone is not inductive:
  half-way through a commit the registry matches neither configuration. `IInv`
  adds mutual exclusion (`Exclusion`), what start-up still owes (`Startup`), that
  the holder's configuration cannot move under it (`Pinned`), that what was built
  is the surface of that configuration (`Collected`) and the progress of the
  commit kind by kind (`Committed`), and that a stored configuration is warm
  (`Warmed`). Assumptions: `Nil` is distinct, the goroutine sets are disjoint,
  `Surface` yields items.
* **DebouncedWatcher** (`TypeCorrect`, `CloseOnce`, `Stopped`). The invariant ties
  `started`, the two channels, the goroutine and the waiting closer together.
* **KubeconfigProvider** (`DefaultManager`, `Fresher`, `Covered`, `Advertised`).
  `IInv` adds that no manager is newer than the file and that an unchanged file is
  the loaded one (`Read`, `Map`; without them a call could create a target that
  the loaded file lacks), and that only the holder of `p.mu` sees the default
  context behind the map (`Locked`). `Advertised` needs `Pending`: while the tools
  name an old default, some callback is on its way to a reload. Assumptions: the
  names are distinct and contents are well-formed records.
* **SighupReload** (`WholeSnapshots`, `ReloadsTogether`, `AlwaysConfigured`,
  `SinkLast`). `IInv` adds what the goroutine knows at each program point
  (`Locals`), that the published configuration is valid (`Published`), the
  shutdown order (`Stopping`), and that a request waiting for the provider carries
  a configuration with an issuer (`Requests`). The key lemma is `SameProvider`:
  when the comparison sees no change, the provider kept is the one that would be
  built, but for the `require_tls` it enforces, which the statements leave open
  (`BuiltFor`) because the code does. Assumptions: an unreadable file is not a configuration and `Nil` is not
  an answer.
* **ToolCalls**, the checks (`ConfirmedTheorem`). For every table
  of tools and prompts, not just this repository's: the checks do not rely on what
  handlers do. `IInv` adds what a clearance is (`Clearance`): it belongs to the
  request at the head of the code, which no other instruction can move past while
  it stands, and every way a request ends takes it back. The helpers of the actions
  get a lemma each. It needs no assumption.
* **ToolCalls**, the handlers (`ReadOnlyTheorem`, `DestructiveTheorem`,
  `LastChangeTheorem`, `PromptTheorem`, `TemporaryTheorem`). For every table that
  keeps to the disciplines of `HandlerDisciplines`, and every setting, refusal,
  cancellation and reload. `StepRuns` says once what a step of a call can do to the
  code that is left: drop its head, enter a body or a branch, or fall to the
  innermost rescue; the lemmas about concatenation (`RescuesOfConcat`,
  `CaughtOfConcat`, `OnwardOfConcat`) say what that is when the code is in parts.
  Each theorem has its own invariant of the code left: it is all harmless
  (`ReadOnlyInv`); it has a change at its end only, and none was made before,
  or the one that was is the last request and its answer was lost (`LastInv`); it is a subject's requests and then code that drops errors
  (`PromptInv`); it is gentle, or a create is still ahead, or made, or it only forces
  applies and is `pods_run` (`GentleInv`); every object owed has its removal ahead on the way down and in
  the rescue in force (`TidyCall`). Nesting needs no induction: a discipline is a
  set of instructions that is closed under what its members run (`Closed`), and
  TLC evaluates that it is.
  `TemporaryTheorem` has one hypothesis more, `CleanupsNeedNoAnswer`: no rule asks
  for consent to the removals. The settings of `tool_calls` satisfy it; those of
  `debug_pod_orphan` do not, and that run shows the hypothesis is needed.
* **PureFunctions** (`DistinctToolNamesTheorem`, `OneTargetListTheorem`,
  `TighteningTheorem`, `PathsTheorem`, `DeniedPathsTheorem`, `GrepTheorem`).
  Surface: `ExposedAt` and `ExposedIf` say which tools are exposed, lemmas on the
  mutators what they leave alone; `TighteningTheorem` needs no assumption,
  the other two that different tools have different names, none of them a name the
  mutator makes, and that only the two list tools list targets and are harmless and
  unconditional (`ToolAssumption`). Paths: a lemma per form of URL (core or named
  group, namespaced or not, collection, object or subresource, with a prefix of any
  length) places every segment; assumptions: a subresource is one of an object,
  no group or version is called `namespaces` (`RequestAssumption`), and discovery
  gives a resource one kind (`KindAssumption`). Search: the answer alone is not
  inductive, as it does not say where the ring's places come from; `IInv` adds that
  the ring is the last matches turned by `ringIdx` (`RingHolds`, `Turned`).
* **AcmHub** (`HistoryTheorem`, `SharedTheorem`). `IInv` adds where the watch is
  (`Position`): at the version the goroutine holds while the stream is open, and
  about to apply the event of that version, so that an event is applied exactly
  when the version moves past it. The lemmas `PresentAdded`, `PresentDeleted`,
  `PresentSame` and `PresentStable` say what one event does to the clusters there
  are. Assumptions: the marks for missing values are distinct from versions,
  managers and clusters.
* **RateLimit** (`OneBucketTheorem`, `ResetsTheorem`). `EntriesAreApart` keeps an
  entry with one session although requests hold entries the map has dropped;
  `BucketsAreIdeal` adds that a bucket is never emptier than the ideal one, equal
  to it outside `early`, and, unless a token was taken late, has at least as many
  tokens as refill periods passed since its last use, which makes an expired one
  full when the burst refills in time. `ResetsToCome` counts the resets that
  outdated requests can still cause. Assumptions: finitely many requests, and
  bursts of at least one token (zero is replaced by the default).

Every invariant and every action property of a passing run is stated by one of
these theorems. Only model-checked: everything temporal (liveness, and refinement
under fairness, are outside the prover's reach), and that this repository's tables
meet the assumptions above, which TLC evaluates at the start of every run that
uses them. A mistake in a table (a read-only tool that updates something, two
tools of one name) therefore shows as a false assumption, and a mistake in the
code that runs or filters them as a violated property.

## 5. What is not modelled, and why

* **HTTP server and well-known endpoints**: `net/http` serves; the middleware
  around it limits sizes and times per request and keeps no state.
* **Token exchange**: one HTTP request per call; of its state, the two separate
  loads of OAuth state and configuration are those `SighupReload` shows for the
  authorization middleware.
* **Single-cluster and kcp providers**: they follow the kubeconfig provider with
  one manager, or with workspaces for contexts. What is particular to them (a
  reset without a lock, watchers closed before the last step that can fail) is
  listed under the hazards; no document says what should hold then.
* **Configuration files**: parsing, the merge of drop-ins and the extended
  sections. The validation rules that tie the OAuth settings together are in
  `SighupReload`.
* **Answers**: what handlers compute from the objects they read, formatting and
  wording, output tables. The schema and RBAC validators' own rules repeat what
  the API server decides and are one choice in `ToolCalls`.
* **Must-gather**: the index and the MCP resources. The archive that is loaded is
  a variable of the process, which one session can replace under another: a hazard
  without property, as no document promises an archive per session.
* **Log sink** writers and rotation, telemetry, metrics, log redaction: they
  observe the system and do not steer it.
* **Vendored libraries** (client-go, the MCP SDK, Helm, OIDC) appear only as the
  code uses them, marked external in the map. Time is abstracted to timers that
  may fire once armed. The content of certificates is not
  modelled.
