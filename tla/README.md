# Verification of kyverno-authz

TLA+ models of the Kyverno Authz Server, the TLC runs that check them on small
instances, and TLAPS proofs for every instance.  Paths below are relative to the
repository (`pkg/...` is `src/pkg/...` here).

## 1. The system

One process serves authorization decisions, over plain HTTP or as an Envoy
external authorizer.  Its parts:

| part | state it keeps | operations | talks to |
|---|---|---|---|
| composite policy store (`pkg/engine/sources/composite_source.go`) | policies with their exceptions and an event counter; exceptions with the policies they refer to; one mutex | `Load`, `handlePolicy`, `handlePolex`, `keyFunc` | called by two controllers and by every request |
| kube policy source (`pkg/engine/sources/kube.go`) | the SDK's compile cache | load, key, look up, build | the store, the compiler |
| compiler and compiled policies (`pkg/engine/compiler`) | none after compilation | `Compile`, `Evaluate` | CEL |
| static and external sources (`pkg/utils/sources.go`, `pkg/engine/sources/fs.go`, `pkg/utils/ocifs`) | the policies read at start-up, compiled once | `LoadPolicies`, `Load` | files, git, OCI registries |
| HTTP and Envoy front ends (`pkg/authz`) | none | `ServeHTTP`, `Check` | engine, events, metrics |
| events (`pkg/events`) | a channel of 50 events per subscriber, a ring buffer of results, three counters, the live report | `Push`, event loop, flush worker | API server |
| server lifecycle (`pkg/server`, `pkg/signals`, `pkg/commands/serve`) | contexts, wait groups, requests in flight | start, sync, cancel, drain | everything |
| validation webhook (`pkg/webhook/validation`, `commands/serve/*/validation-webhook`) | none | validate create, update, delete | the compiler |
| webhook certificates (`pkg/certmanager`) | files in a directory, the `caBundle` | bootstrap, patch; renewal by `kyverno/pkg` | API server |
| sidecar injector (`pkg/sidecar`, `pkg/webhook`) | the sidecar read at start-up | review, inject | API server |
| CEL libraries (`pkg/cel`) | none | parse and read MCP requests, decode tokens | policies at evaluation |

The hard parts are the ones where several goroutines meet: the two controllers
and all requests in the store, the requests in the compile cache, the event loop
and the flush worker in the ring buffer, the servers with the goroutines that shut
them down; where replicas meet: the certificates that one renews while another
starts; and where one thing fails among several: a file of a source, an exception
of a policy, a task of a command.  `PROJECT.json` lists the hazards at their lines.

How they interact.  Two controllers call `handlePolicy` and `handlePolex`; every
request calls the kube source, which calls `Load` and `keyFunc` of the same store
under the same mutex, and ranges over the store's maps without it.  A front end
runs the engine on what the source returns, pushes one event and records one
decision.  The event loop turns events into counters and buffered results; the
flush worker (or, without an interval, the loop itself) copies both to the API
server.  A command starts its manager and servers in one wait group with one
context: whichever ends first cancels the others.  What reaches the cluster has
passed the validation webhook, which runs the compiler that the kube source runs
again with the exceptions; what comes from files passes it only at the first
request.

What makes each part correct: the store keeps both directions of the
policy/exception link in agreement and follows the API server; the cache never
answers with something older than its key; an evaluation returns the outcome the
policy defines; a reply follows the first policy that had something to say, and
the observers agree with it; no event is lost without being counted as dropped,
and a report counts what it shows; what is valid in a file is loaded, and what
compiles finds the variables it names; nothing is served before the caches are synced,
no request is cut off silently, and a command that is told to stop ends; a replica
publishes a bundle that trusts what it serves.  Some of what the documentation says
beyond this the code does not do: section 4.

## 2. The modules

| module | code | role |
|---|---|---|
| `CompositeStore` | `composite_source.go` 12-125, `compositePolicyStore` and its two controllers | store, work queues, API server |
| `KubeSource` | `kube.go`, `keyFunc` and `Load` of `composite_source.go` | extends the store with requests and the compile cache |
| `CompiledPolicy` | `compiler/policy.go` | what an evaluation should return, declaratively |
| `PolicyEvaluation` | `compiler/policy.go` 35-165 | the loops, one turn at a time; `AuthzDecision` runs them |
| `AuthzDecision` | `authz/http/authorizer.go`, `authz/envoy/service.go`, both `server.go`, `events/iface.go` | one request from its arrival to its reply |
| `RingBuffer` | `events/ringbuf.go` | operators on the buffer's fields |
| `EventReport` | `events/openreports.go` | channel, event loop, flush worker, report |
| `Compiler` | `compiler/compiler.go` | compilation as operators on expressions |
| `PolicyLoading` | `utils/sources.go`, `sources/fs.go`, `utils/ocifs`, `webhook/validation/validator.go`, `kube.go` | from files and the cluster to compiled policies |
| `Commands` | `command.go` of the five commands under `commands/serve` | their set-up as sequences of steps |
| `TaskGroup` | | what a command promises of its goroutines |
| `Lifecycle` | `RunE` of the commands, `server/http.go`, `server/grpc.go`, `signals` | a command from its first line to its end |
| `AdmissionWebhooks` | `certmanager` | certificates of several replicas |
| `CelLibraries` | `cel/libs/mcp`, `cel/libs/jwt`, `cel/impl` | what a policy reads of one request |
| `MC*` | | the small sets TLC needs |
| `*Proofs` | | theorems about the module named before it; `KubeSourceProofs` has those of `CompositeStore` too |

Definitions marked `Fault` are variants of the definition below them with a
plausible mistake; no specification uses them.  They show that the properties can
fail (`mutants` in `PROJECT.json`).

### CompositeStore

`policies`, `exceptions` and `references` are the fields of the store;
`references[e]` is the `references` map of the state of exception `e`.  Each
method holds the mutex from its first to its last line and is one action, split
only by its branches: `HandlePolicyDelete`, `HandlePolicyUpdate`,
`HandlePolicyCreate`, `HandlePolexDelete`, `HandlePolexUpsert`.

A controller is level triggered: `TakePolicy` removes a key from the work queue
and reads the object *then*; the call happens later, so the store may be handed
an object the API server has already replaced.  One worker per controller means
one call in flight (`vpolWork`, `polexWork`).  Resyncs queue an unchanged object
again.  Resource versions come from one counter for all kinds (`apiRv`), as in
etcd.  `PolicyModes` is the evaluation mode the command's informer selects;
exceptions have no such selector and come in any of `Modes`.  `Restart` empties
the store and queues everything the API server holds, in no order.

### KubeSource

A request is `Load`, then for each policy in key order `ComputeKey`, and
`CacheHit` or a build: `CacheMiss`, `FindPolicyState` or `BuildFails`, a
`VisitException` per turn of the range, `CompilePolicy` or `CompileFails`.
Anything may happen between two of these.

- `Load` returns pointers.  `InStore` is a pointer to a state that is in the map,
  which sees later writes to it; `Detach` replaces it by a copy when the map
  drops the state.
- The build reads the policy and its exceptions without the mutex.  When an
  update in place raced with it, `Readable` allows any mixture of old and new
  version and mode; when an exception event wrote the map it ranges over
  (`torn`), the range may stop anywhere, and the process may die (`SourceRestart`).
- `BuildFails` returns between `Lock` and `Unlock` (`kube.go:45-49`): `lock` is
  never released.
- A compiled policy is the policy and the exceptions it was compiled with: two
  compilations differ only if these do.
- The cache of the SDK is outside the repository.  It is modelled from its use: a
  lookup by the text of the key, a store after a successful build, and `Evict` at
  any time.

`KeyString` builds the text as the code does, digit by digit; names are sequences
of characters so that a name may end in digits.  `ConfusedOnlyByDigits` says which
policies that text does not tell apart, and `ServedAsAsked` is violated because of them.

### CompiledPolicy and PolicyEvaluation

A request fixes what every CEL program returns, and variables are computed at
most once, so a policy is the record of these results.  `Outcome` says what it
means; `PolicyEvaluation` executes `match`, the exception loop and the rule loop.
It is no specification of its own: `Call` begins an evaluation, `Evaluation` is one turn
of a loop, `Leave` takes the result, and `AuthzDecision` does these for the policies
its dispatcher comes to.

### AuthzDecision

A response is what `object.ok` and `object.denied` say of it: ok, denied, neither, or -
the HTTP message is a struct with both fields (`types.go:53`), Envoy's is a oneof -
both.  `SaysOk` is what the default output expression asks, `SaysDenied` what handler,
events and metrics ask.

The two handlers with their early returns, deferred calls and local variables
`decision` and `source`.  `outs` is what dispatcher and breaker produced so far
(`CallPolicy`, `EvaluatePolicy`, `TakeOutcome` for each policy), `response` what the
resulter chose.  A policy that does not compile is not among those the source returns;
the engine passes over it as over one that says nothing (`SkipPolicy`, `Given`).  `requestStatus`, `recorded` and `events` are what the
metrics and the subscribers see.  The Envoy request count is labelled with the
status code of the response, which the model leaves out (`"code"`).

### RingBuffer and EventReport

`TakeEvent`, `BeginStore`, `EndStore`, `Advance` are the event loop.  Storing an
element takes two steps with the slot `Torn` between them, because a reader in
another goroutine may see half of it.  `Tick`, `Get`, `BeginValues`,
`ReadElement`, `EndValues`, `LoadCounter`, `Write`, `CallFails` are `pushReport`,
in the order of `Order`: an update copies the results before the counters, a new
report is a composite literal that loads the counters first.  `Values` reads
`count` when it makes its slice and again at each turn; the model does too.
`interval` is chosen once, so each run covers both configurations.

### Compiler and PolicyLoading

An expression is the type of its value (`Ill` if it does not parse, check or plan),
the variables it names (`uses`, as in `variables.x`) and those it names where the
checker does not look (`dynamic`, as in `dyn(variables).x`).  `Compile` keeps the order of the code: conditions
before any variable is registered, each variable after its predecessors, rules and
exceptions after all; and the loop over the exceptions that tests the error of an
earlier call, so that an exception that does not compile is dereferenced while nil
(`"panic"`).  The section behind it says what a program finds when it runs: match
conditions run without variables, the others compute a variable when they read it.

`PolicyLoading` runs one command's list of sources: `Lookup` or `LookupFails` per
URL (with the credentials of the pull secrets for `oci`); the walk, which reads an
entry document by document (`LoadDocument`) and goes on to the next (`NextEntry`);
`EndOfWalk` (`newStatic`); then one turn of `Load` per policy, in any
order, because the policies are in a map.  `NewOnce` keeps the first answer, so
each source has one `Load`.  `Documents` is what a file may hold.  Two facts of the
environment are assumed (`LoadingAssumption`): a JSON file is one document, and the
names of a policy's variables are different, because the CRD makes the name the
key of that list (`policies.kyverno.io_validatingpolicies.yaml:731-733`), which the
loader's schema and the API server enforce.  The cluster's policies pass `Valid` (the webhook) and
`BuildFromCluster` (the kube source, which adds the exceptions).

### Commands, Lifecycle and TaskGroup

A command is the sequence of those set-up steps that may return early, wait, or
start a task.  The sidecar injector runs its server itself; that is the same as
starting it as the only task.  `Lifecycle` has the main goroutine (`StepDone`,
`StepFails`, `StartTask`, `CachesSynced`, `SyncFails`, `SetUpDone`, `Return`), the
manager, the two servers (`probes`, `server`) with their closers, and the signals.
The deferred calls matter: `group.Wait` runs at every early return, and the second
`cancel` (`command.go:212`), deferred later and so run earlier, is what keeps that
wait from hanging when the caches do not sync.  Serve of HTTP returns when
`Shutdown` begins, that of gRPC when `GracefulStop` is done; only `Shutdown` gives
up.  The event loops listen to the context and are in no wait group, so they end
with the process, whatever they still hold.

`TaskGroup` is the abstract specification: members that start and end, one
cancellation, one outcome.  `Lifecycle` implements it (`ImplementsGroup`) under the
mapping of its last section: a task is a member, the end of the set-up is the end of
`Main`, `cancelled` is `told`, and a member has failed when its error variable is set
and it has ended.

### AdmissionWebhooks

Each replica bootstraps once: wait for the informer, poll the TLS secret, write the
files, read the authorities, patch the configuration with a read and a guarded
write.  Between any two calls the controllers - `kyverno/pkg`, modelled from what
the bootstrap reads of them - may add an authority or sign a new certificate, and
another replica may patch.

### CelLibraries

A body is whether the two structs unmarshal, its method and its params; the front
end parses it before the policies run, and an expression may parse it again, call
the getters on either request, or decode a token in both ways, in any order, while
the token may expire.  `BodiesAssumption`: the method is a field of both structs, so
a body that unmarshals into the second and not into the first has no method.

## 3. The runs

| run | question | result |
|---|---|---|
| `store` | are links and versions sound under every order of calls, and does the store follow the API server, through a restart? | holds |
| `source` | is the cache fresh while policies are replaced, deleted and created again during a request? | holds |
| `source_mutex_leak` | does the store still follow the API server with requests around? | **no** |
| `source_key_clash` | is every request answered with the policy it asked for? | **no** |
| `authz_decision` | do the loops compute the outcome, does the engine answer with the first response or error, does nothing pass that no policy allowed, and do decision, event and count agree with the reply? | holds |
| `report` | is no event lost, is the buffer right, do reports count what they show, does the report end up exact? | holds |
| `report_race` | may the buffer do without a mutex? | **no** |
| `lifecycle` | does every command serve in sync, cut off nothing silently, implement `TaskGroup`, and end? | holds |
| `policy_loading` | is what is valid loaded, does what compiles find its variables, and does the server compile what the webhook admits? | holds |
| `loading_invalid` | are the valid policies of a source answered although another one is not? | **no** |
| `admission_webhooks` | is what a replica serves trusted, nothing left behind, and does the bootstrap end? | holds |
| `cel_libraries` | do the policies see the request that was sent, and both decoders the same token? | holds |

Bounds, all named in the modules and set in the `.cfg` files:

- *store* (104,274 states): two policies and an exception show every pattern of
  references from one exception (none, one, both), the order in which it and they
  are reconciled, and that dropping one leaves the other; several exceptions of one
  policy are covered by the theorems `LinksSound` and `OnlyStoredLinked`.  Three
  writes create and change, deletions are free; one resync and one restart repeat any call in a later state.
  `MaxCounter` stops only resyncs: counters grow further through real writes.
- *source* (303,768): one request for two policies with an exception of either mode,
  two writes, any deletions, and a restart: a policy whose exception comes and goes, or
  a policy that is deleted and created again while a build holds its state (that both
  happen in one history is left to the theorems).  Two requests that race
  for an entry, and any number of writes, are covered by `CacheIsFresh` and
  `BuildsAreFresh`.  The names are `a` and `a1`, whose keys may have the same text; that
  takes the versions 15 and 5, three writes, which `source_key_clash` has (and no
  exception, mode or restart besides).
- *authz_decision* (325,860): three policies put an error before, between and behind
  responses.  For one policy the lists of match conditions, of exceptions and their
  conditions, and of rules have up to two elements, which puts every result before and
  behind every other; `EvaluationIsOutcome` covers all lengths.
- *report* (221,150): a buffer of two is full and wraps with three events, a channel
  of one overflows (the code's 50 and the configured size are parameters of the
  proofs), and one fault lets the report vanish, or the process restart, at any step.
- *lifecycle* (68,411): all configurations of the five commands.  Two requests in
  flight of two that arrive: one may end while the other keeps the drain waiting.
- *policy_loading* (174,363): trees with two files at the root (one of up to two
  documents), a text file and a directory with two files, one of which has a name that
  also occurs at the root; two sources for the independence of their answers; and
  policies of every kind the compiler tells apart (no, one or two conditions, no, one or
  two variables with every pattern of references, typed or dynamic ones in a circle and
  out of it, rules of each type).
- *admission_webhooks* (46,676): two replicas, three authorities - the one a certificate
  was signed with, the one it is renewed with, and one more - and two restarts.
- *cel_libraries* (1,011,840): every method, one key, arguments and list items of each
  kind the getters distinguish, two claims.

`CHECK_DEADLOCK FALSE` is set wherever the run ends by design: the API server stops
writing at `MaxRv`, an evaluation, a handler or a command is one run and then done, a
panic or a leaked mutex really stops the program.  `cel_libraries` can always go on
and checks for deadlock.

### Fairness

- Store: `TakePolicy`, `TakeException` are strongly fair: a work queue is first in,
  first out, so a key is taken however often others are queued; it is not
  continuously takeable while the worker is busy, hence strong.  `HandlePolicy`,
  `HandlePolex` are weakly fair: a worker that holds a call makes it.  In `KubeSource`
  this holds only while the mutex is free, as in the code.
- A request that has begun goes on (weak); none has to begin.
- Report: the event loop and the flush worker run (weak); `Get` and `Write` are
  strongly fair: a call that is retried for ever eventually succeeds.  Without that
  the report need not ever be written.  Nothing obliges an event to come, a context to
  be cancelled or a report to be deleted.
- Lifecycle: every goroutine runs, and the manager obeys its context (both weak).
  Nothing obliges a request to end, a signal to come or the caches to sync; so
  `AlwaysEnds` excepts the one case in which the code waits for a request without a
  bound, a gRPC server with requests in flight.
- Webhooks: the poll ends at its deadline and a call to the API server returns, with
  success or without.  `Setup` waits for the informer without a bound (`setup.go:49`),
  so `BootstrapEnds` starts behind it.

## 4. What disagrees with the documentation

Checked by runs that end in a counterexample:

1. **Mutex leak** (`source_mutex_leak`, `kube.go:47`).  A policy deleted between a
   request's key and its build leaves the store locked: no event and no request
   gets through any more.  `policy-sources.md:25` promises dynamic updates.
2. **Unsynchronized buffer** (`report_race`, `ringbuf.go:41`).  With a flush
   interval `Values` runs concurrently with `Push` and may index behind its slice;
   `openreports.go:39` says no mutex is needed "because in all cases we process
   events serially".
3. **Key clash** (`source_key_clash`, `composite_source.go:133`).  The key has no
   separators, so `a` at version 15 and `a1` at version 5 share `a150`, and one is
   served for the other; `policy-sources.md:25` promises the policies of the cluster.
   `ConfusedOnlyByDigits`, which is proved, says that this is the only confusion of names.
   Two versions of one policy may clash in the same way (version 1 after ten exception
   events, version 11 after none: `a110`): with etcd's versions, which have the same
   number of digits for long, this takes a cache entry that survives them.
4. **One invalid policy** (`loading_invalid`, `sources.go:58`).  It makes the whole external
   source answer with an error, once and for ever; `compiler.go:45` says that the
   payload is evaluated against any of the valid policies, and `policy-sources.md:123`
   that invalid documents are skipped.

Stated in the modules, and violated when put as the only invariant into the
configuration named:

| property (configuration) | what the code does | what it contradicts |
|---|---|---|
| `LoadsRecursively` (`MCPolicyLoading.cfg`) | the walk meets the files of a subdirectory and then reads their base names from the root (`fs.go:110`): a file is skipped, or the one of that name at the root loaded again | `policy-sources.md:118`: "loads all YAML and JSON files recusively" |
| `EarlierVariablesOnly` (`MCPolicyLoading.cfg`) | what is selected from `dyn(variables)` is not type checked (`compiler.go:114`): a variable may read itself or a later one | `http-policy-breakdown.md:171`: "earlier variables but not later ones" |
| `EarlyExceptionsLinked` (`MCCompositeStore.cfg`) | an exception reconciled before every policy it names is not stored (`composite_source.go:116`) | line 79: creating a policy links "any exceptions that already reference it" |
| `LinkedExceptionsMatch` (`MCCompositeStore.cfg`) | an update that drops a policy from an exception's references leaves the old version linked (`composite_source.go:114`) | `compiler.go:41`: exceptions "are guaranteed to be matching the policy" |
| `RevokedNotServed` (`MCKubeSource.cfg` with `JustA`, one mode, `MaxRv = 3`, no restart) | a policy deleted and created again during a request starts its counter again (`composite_source.go:133`): an old key hits an entry that holds an exception revoked before the request began | the comment at line 103.  What does hold is `RevokedNotServedInStore`: not while the served version is the one in the store |
| `DeniedIsNotLetThrough` (`MCAuthzDecision.cfg`) | the default output expression tests `has(object.ok)` (`server.go:64`): a response that sets both parts is answered with 200 and recorded as a denial (`authorizer.go:102`) | `http.md:52`: denied is "Set if request is denied" |
| `DeniedByDefault` (`MCAuthzDecision.cfg`) | when all rules return null the HTTP front end allows (`authorizer.go:96`) | `http-policy-breakdown.md:182`: "the request is denied by default" |
| `BrokenPolicyFails` (`MCAuthzDecision.cfg`) | a policy with failure policy `Fail` that does not compile is not loaded and denies nothing (`compiler.go:44`) | `http-policy-breakdown.md:37` counts parse and type check errors among the failures |
| `StatusOfTheResponse` (`MCAuthzDecision.cfg`) | the status label follows the result, not what the output expression makes of it (`authorizer.go:112`) | `http-metrics.md:21`: "Authorization status of the response" |
| `IdPreserved` (`MCCelLibraries.cfg`) | a request whose params do not parse keeps its method and loses its id (`types.go:108`) | `types.go:88-89`: method and id are preserved |

Further observations, which contradict no documented promise but are worth a look:

- `data/crds` embeds the schema of `ValidatingPolicy` only, so a `PolicyException` in a
  file never loads (`CrdKinds` in the configurations says so too).
- The kind of a reference is not checked when loading, as the comment at `sources.go:35`
  has it.
- An update of the report may list one result twice: `Values` has no mutex (2), and an
  event that is stored behind the copy moves what has been copied.  The summary may then be
  smaller than the list, though not than the results in it (`UpdateCountsItsResults`).
- The panic at `compiler.go:141-145` is reachable through the kube source: the webhook
  compiles policies without exceptions, and nothing validates exceptions.
- A stale replica may overwrite a newer `caBundle`, and a failed patch is only logged:
  each replica's bundle trusts its own certificate (`OwnCertificateTrusted`), the
  published one need not.  Renewals reach neither files nor bundle before a restart.
- `command.go:237` sets `nestedRequest` to true whatever the flag says.
- Decoding one token twice may answer differently: `Valid` depends on the clock.

## 5. What is proved

Every invariant and every action property that the passing runs check is also a
theorem, and so is the implementation of `TaskGroup`; what is left to TLC alone is
liveness.

All theorems hold for every value of the constants under the named assumptions
of the modules: `None` and the other marks differ from real values, every API
write advances the version, a policy name is a sequence of characters, the buffer
size is positive (`NewRingBuffer` panics otherwise), a command starts each task once,
syncs before it serves, and cannot return early behind a started task except from the
wait for the caches (`CommandsAssumption`, which TLC evaluates for all five commands),
and what section 2 says of documents, variables and bodies.  They do not use the
bounds' values.

- **KubeSourceProofs**, the store.  `TypeCorrect`.  `LinksSound`, `OnlyStoredLinked`:
  `LinksConsistent` alone is not inductive, because a delete must find *every* policy
  that holds the exception; with `LinkedAreStored` it is.  `VersionsAdvance`: an update
  in place advances the version only if what it stores is newer than what it replaces,
  which needs `VersionsOrdered`: store, call in flight and API server hold ever
  later versions of a policy, with a strict step across a deletion.
- **KubeSourceProofs**, the cache.  `SourceTypeCorrect`.  `SourceImplementsStore`: every
  step of the source is a step of the store or leaves it alone, so the store's theorems
  hold with requests around.  `CacheIsFresh`, `BuildsAreFresh`: the invariant is
  `SourceInvariant` = no key in the cache is ahead of the store
  (`CacheNotAhead`), entries under current keys are fresh, and per request
  (`RequestsSound`) its pointers, its key and its range.  The argument: a version
  that the store has left never returns (`Past`, `Outdated`), so a build only has
  to be right while its key is current, and then neither the policy nor its
  exceptions have changed since the key was computed - otherwise version or
  counter had.  This covers the data races as well: a build that could have read
  a mixture has a key that no later request computes.
- **KubeSourceProofs**, the text of a key.  `OnlyDigitsConfuse`: whatever the names are, a
  request is served the policy it asked for or one whose name differs from it by digits
  at its end; this is all that holds, as `source_key_clash` shows.
  The lemmas come first: the recursion that defines `Itoa` has one solution
  (`ItoaUnique`, `ItoaUpToExists`), which is injective (`ItoaInjective`); so equal texts
  of keys have names of which one is the other followed by digits (`TextTellsNames`), and
  two keys of one version of one policy differ in their text if they differ in the
  counter (`TextTellsCounters`).
- **KubeSourceProofs**, revocation.  `RevokedAreNotServed` holds for names that clash, too:
  a name mistaken for another is a different defect, and the property looks at answers
  whose version is that of the policy asked for.  The invariant `RevokedInv` adds to the above:
  a version belongs to one policy (`VersionsApart`, over all who know one: API server,
  calls, store, pointers, keys, cache and answers), so that a hit with the version of
  the stored policy is of that policy; what was revoked is not stored (`RevokedAbsent`);
  and `RequestsClean`: behind a request's key for the stored version, no entry in the
  cache and no build under way holds what was revoked for this request, nor behind
  *any* key of the stored version once the request holds an older one.  A key computed
  now is clean because the cache is fresh and the store links no exception that it
  does not hold (`CurrentIsClean`), and a range under such a key reads the store
  (`VisitRevoked`).
- **PolicyEvaluationProofs.**  One lemma for each kind of turn: it keeps `LoopInv`, what
  the turns so far have established in each of the three loops.
- **AuthzDecisionProofs.**  `EvaluationIsOutcome`, from `EvaluationInv`: `LoopInv` holds, and
  an evaluation runs only for the policy behind those whose outcomes the dispatcher has.
  `DecisionTypeCorrect`, `EngineIsVerdict`, `NonePassesWithoutOk`, `DecisionIsRecorded` and
  `ObserversTellTheSame`, from `DecisionInv`; its core is the lemma `PrefixDecides`: the first response or
  error of a prefix that is complete or ends in a response is that of the list.
- **EventReportProofs.**  `ReportTypeCorrect`, `RingIsSound`, `NoneLost`,
  `ReportsAreExact` from `ReportInv` = types, `RingInv` (`Holds`: the k-th element behind
  the start is the right one of the history; while a slot is being written `HoldsRest`:
  all but the one being overwritten), `SummaryInv` and `CopyInv` (without an interval,
  what `pushReport` has copied so far is what buffer and counters hold, since the loop
  waits for it) and `EventsAccounted`.  `Wraps` and `AdvancedHolds` do the modular
  arithmetic.  `UpdatesAreCounted` from `CountedInv`: whatever was ever in the buffer, or
  in a copy of it, is a trace of an event the loop has counted, so a summary that is
  loaded after the copy is never smaller than the number of distinct results of each kind
  in the copy, also while the loop goes on.
- **PolicyLoadingProofs.**  `LoadingTypeCorrect`, `RootIsLoaded`, `CompiledFailsOnlyDynamic`,
  `AdmittedPoliciesBuild`, and `LoadIsAllOrNothing`, which says what the code does instead of
  the documented behaviour (`loading_invalid`), from `LoadingInv` = shapes of the lists
  and sources (`ShapeInv`), what the walk so far has found (`WalkInv`), what the turns of
  a `Load` so far have compiled (`LoadInv`) and that the cluster holds only what the
  webhook accepted (`ClusterInv`).  That variables in a circle got there through `dyn(variables)` is
  the argument about the first of them, a least element among the positions: what it
  reads of the group it cannot have named (`VariablesAreOrdered`).
- **LifecycleProofs.**  `CommandImplementsGroup`: initial states map to initial states
  and each of the actions to a step of `TaskGroup` or a stutter.  `GroupKeepsPromises`: in
  the abstract group everybody is told once a task has ended, and a finished group has
  no member running and returns every failure; so every command keeps these promises
  (`CommandKeepsPromises`).  `LifecycleTypeCorrect`, `SyncedWhenServing`,
  `RequestsAreAnswered`.  The invariant `LifecycleInv` adds to the types: which tasks can
  have begun at each step of the set-up (`Begun`, without which an early return could
  meet a running task), how each server, its closer and its task go together
  (`ServersSound`), that a closer that is done has drained or has said that it did not
  (`RequestsSound`), and what is true of a process that has returned (`Over`).
- **AdmissionWebhooksProofs.**  `ServedIsTrusted` and `NoKeyLeftBehind`, from
  `WebhookInv`: besides the two properties, in which phase a replica has files
  (`FilesFollowPhase`); the argument is that authorities are only added and the
  certificate was read first.
- **CelLibrariesProofs.**  `RequestIsTheBody` and `DecodersAgree`, from `CelInv`: the request
  at hand and the one parsed again are what the body parses to, and each decoded token
  is what the decoder makes of the token at some moment of the clock.  `Seen` says what
  of the body is in a parsed request, `DecodedClaims` where the two switches differ.

Only model-checked:

- liveness: `PoliciesConverge`, `RevocationConverges`, `ReportCatchesUp`, `AlwaysEnds`,
  `BootstrapEnds`, because fairness (`ENABLED`) is out of the prover's reach;
- the counterexamples of section 4;
- that no run deadlocks where it should not (`cel_libraries`).

The induction theorems of the library take an operator as a parameter, which none of the
provers can instantiate.  Where an argument about data is needed (digits, variables,
prefixes of a list) it is made with a least counterexample (`LeastExists`) instead.

## 6. What is not modelled

- CEL beyond the types of an expression and the variables it reads: a program returns any
  result.
- The bytes of requests, responses and reports, the builders of Envoy and HTTP
  responses, and the `jwk`, `json` and `http` server libraries: conversions without
  state.
- Admission reviews of the sidecar injector (`sidecar.go`, `handlers/admission.go`): a
  function of the pod and of the sidecar read at start-up, without state of its own.
- Pulling and unpacking an OCI image, and opening files in its tar: network and
  format I/O.
- The Kubernetes event subscriber, which has the bounded channel of the modelled one
  and no state behind it; per-policy counters and latencies.
- Controller-runtime, the SDK's cache and `NewOnce`, the certificate controllers: not
  in the repository, modelled as far as its code uses them.
- Engine variables (client calls without state), flags and version output, charts and
  generated CRDs.

`PROJECT.json` gives the reason for each under `components`.

## 7. What is left

1. A composition of `AuthzDecision` with the source and the report, so that a policy
   written to the cluster is followed to the report of the requests it decided.
2. An abstract specification of the policy source - a request is answered with
   versions the API server held - implemented by `KubeSource` for names that no digits
   at their end tell apart.
