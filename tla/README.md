# Verification of the Application Connector module

TLA+ models of the Application Connector Manager repository: what its programs
do, the properties that make them correct, TLC runs that check them on small
instances and TLAPS proofs that establish them for every instance.

## 1. The system

| Part | Source | State it keeps | Operations |
|---|---|---|---|
| Application Connector Manager (ACM), an operator | `main.go`, `controllers/`, `pkg/reconciler/`, `api/v1alpha1/` | the `ApplicationConnector` resource (finalizer, deletion timestamp, condition *Installed*), the applied manifests, `DepsACK`, the registered watches, a work queue and informer caches | one reconciliation = one run of a state machine of `sFn...` functions: check Istio, register watches, add the finalizer, detect the domain, render, apply, network policies, verify; or delete and remove the finalizer |
| Compass Runtime Agent (CRA) | `components/compass-runtime-agent` | the `CompassConnection` resource, two secrets with credentials, an in-memory cache of connection data; `Application` resources and their secrets | establish the connection with a one-time token, renew the certificate, fetch the configuration, create, update and delete Applications and secrets |
| Central Application Gateway (CAG) | `components/central-application-gateway` | caches of Applications, secrets, reverse proxies, OAuth tokens and CSRF tokens | find the API a path names, add credentials, proxy the call, retry once after 401/403 with renewed tokens, rewrite redirects |
| Central Application Connectivity Validator (CACV) | `components/central-application-connectivity-validator` | a cache of client IDs and path prefixes per `Application` | fill the cache (`Init`), follow events (`Sync`), admit or reject a request |

The ACM installs the other three as Deployments and scales the CRA to zero until
the secret `compass-agent-configuration` exists. The CRA writes `Application`
resources, which the CAG reads on every call and the CACV caches.

What is hard in each part:

* **ACM** – every run works on an informer's copy that may be outdated; writes
  are refused when outdated (optimistic concurrency) or succeed with a lost
  answer; loops over objects fail half-way; the process may stop between any two
  calls; the next run is started by an event, a timer or a requeue, and a missing
  one means that the module is stuck. Correct means: installed only under the
  finalizer, never after the deletion began, no manifest left behind that could be
  deleted, *Ready* only for the current spec, and eventually settled.
* **CRA** – several resources are written one after the other (two secrets, the
  connection, its status), with a token that can be used once; a reconciliation
  changes a cached copy that may be outdated or never written; a synchronisation
  consists of many creates, updates and deletes that fail one by one, while users
  and the garbage collector change the same objects. Correct means: what is
  recorded is backed by stored credentials, a user's request is taken back only
  when served, and the cluster comes to agree with the Director without touching
  what users own.
* **CAG** – concurrent requests share cached proxies and tokens, a retry
  invalidates what another request is using, and caches fill each other with what
  is outdated. Correct means: a request reaches the API its path names with
  credentials of that API, is never repeated with what was refused, and the
  caches recover.
* **CACV** – `Init` runs in a goroutine beside the controller and writes what it
  listed before.

`PROJECT.json` lists every component with its status and every hazard at its line.

## 2. Modules

| Module | Content |
|---|---|
| `Reconciler` | the ACM: controller, work queue, informers, state machine, users and the rest of the cluster |
| `ReconcilerInv` | its inductive invariant, in named parts |
| `ReconcilerProofs` | the theorems and their proofs |
| `MCReconciler` | the instance that TLC checks |
| `CompassConnection` | the CRA: start, controller, supervisor, secrets, users and Compass |
| `CompassConnectionInv`, `CompassConnectionProofs` | its inductive invariant; its theorems and their proofs |
| `KymaSync` | the CRA: a round of the synchronisation of Applications and secrets |
| `RuntimeApplications` | the abstract specification that `KymaSync` implements |
| `KymaSyncInv`, `KymaSyncProofs` | the inductive invariant of `KymaSync`; its theorems and their proofs, the refinement included |
| `Gateway` | the CAG: concurrent requests, credentials, tokens, retry |
| `GatewayInv`, `GatewayProofs` | its inductive invariant; its theorems and their proofs |
| `GatewayRouting` | the CAG: from a path to the URL called, and from a redirect back |
| `GatewayRoutingInv`, `GatewayRoutingProofs` | its two inductive invariants; its theorems and their proofs |
| `GatewayPathProofs` | lemmas about the operators on paths: `Trim`, `TrimPrefix`, `joinPaths` |
| `ValidatorCache` | the CACV: cache, controller, `Init` goroutine, requests; with its inductive invariant `CacheInv` |
| `ValidatorCacheProofs` | its theorems and their proofs |
| `MCKymaSync`, `MCGateway`, `MCGatewayRouting` | the instances that TLC checks |

### Reconciler

*State.* `cr` is the resource on the API server; `content[o]` what manifest `o`
was last applied with (`Absent` if it is not on the cluster); `avail` the
Deployments that are available; `hooked` the Istio objects that carry the
`deletion-hook` finalizer of `application-connector-dependencies.yaml`; `pols`
the network policies. The manager's memory is `ack` (`DepsACK`) and `watched`.
`cache`/`cacheFresh` is the informer's copy of the resource and whether it has
the current resourceVersion, `genEvent` and `notif` are events on their way,
`queued` and `timer` the work queue. A run is `fn` (the state function that runs
next, `sFnUpdateStatus` standing for the closure with its `outcome`), `inst`
(`s.instance`), `fresh` (whether `inst` has the current resourceVersion),
`domainName`, `manifest` (what `sFnUpdate` rendered), `seen` (the workloads
shown available by the answers to the Patch calls), `idx` and `isErr` (the loops
of `sFnApply` and `deleteResourcesWithFilter`). `delFailed` is a history
variable: the objects whose last Delete call failed.

*Actions.* One per state function; the loops of `sFnApply` and of the deletion
are one action per API call (`PatchObject`, `DeleteObject`) and one for what
follows the loop (`ApplyDone`, `DeleteDone`), so that everything else may happen
between two calls. `stopWith` is the family `stopWith...` of `common.go`,
`EndRun` the end of `Run`. `Fault` makes a call fail; a failing write either
took effect (the answer was lost) or did not. `Restart` stops the process
anywhere. Users create, edit and delete the resource; Istio, the secret, the
`shoot-info` ConfigMap and the availability of workloads change; objects are
deleted behind the manager's back (`Drift`).

*Abstractions.* The condition's reason determines the state shown (`StateOf`).
A spec is a domain (or none), the network-policy flag and an opaque value for
log levels and timeouts; a rendering is the domain, that value and the replicas
of the runtime agent. `shoot` is the value of `domain` in the ConfigMap, or
`NoShootInfo` if the ConfigMap or the key is missing: only that is an error, an
empty value is rendered. A Service gets its cluster IP with the Patch, so only
Deployments keep a module from being ready. CRD manifests are never validated
(`IsApiXtV1Beta1CRDKind` compares the API version with the bare group). Error
and `Requeue: true` both put the key back; the rate limit is left out.
`Run` holds a mutex and there is one worker, so runs do not overlap.
`Istio` can be uninstalled only while none of the module's Istio objects is left,
because their finalizers hold the CRDs back.

### CompassConnection

*State.* Certificates are numbered as the Connector issues them. `certSecret` and
`caSecret` are the two secrets, `conn` the resource with the certificate whose
dates it records, `data` the memory (`connectionDataCache` and the clients that
subscribe to it), `cache`/`cacheFresh`/`queued` the informer and work queue. A
call of the supervisor is `pc`, `task`, `inst` (its copy) and `fresh`.

*Actions.* `StartAgent` and `StartManager` are `main`, which calls
`InitializeCompassConnection` before the manager runs and exits on an error; then
one action per call that leaves the process (`FetchConfiguration`, `SignCSR`, the
two secrets, the writes of the resource, the Director). Each may fail, with or
without effect; `Crash` stops the process between any two. Users ask for a resync
or a renewal, delete the resource, change the configuration; Compass moves, and
certificates become due and expire.

*Abstractions.* A time stamp is recent or old with regard to the minimal
synchronisation time. A token is fresh until `Configuration` was asked with it.
`ApplyConfiguration` is the round that `KymaSync` details; the two meet only in
whether it reported an error.

### KymaSync and RuntimeApplications

*State.* `director` and `label` are what the Director returns, `apps` and
`secrets` the cluster, with owners by uid. A round is `target` (normalised names),
`listed` (the one listing), `loop`/`todo`, and for one Application `kind`, `drop`,
`put`, `owner`, `err`. `leaked` is a history variable.

*Actions.* Every API call is an action: list, create, update and delete of the
resource, delete and upsert of one secret, the read of the uid. `CollectGarbage`
is the cluster's garbage collector.

*Abstractions.* A name is how often it begins with `mp-`, its rest, whether it has
only permitted characters and whether the API server takes it (`ValidName`). Normalised
names are valid; without normalisation an invalid one is refused in every round, and
`Converges` says that the other Applications settle all the same. Credentials and parameters are opaque values, among them blank
credentials, which are named but not stored.

*Refinement.* `RuntimeApplications` says what others may rely on: Compass changes
an Application only to what the Director wants, creates only free names, and
replaces or removes only names it owned when the round began. The mapping takes
the specs of the resources for `held`, the converted `target` for `wanted` and the
listed names for `claimed`; a Create may also fail at a name that a user took
meanwhile. It also shows the limit of the promise: a *claimed* name that a user
recreates during the round is overwritten or deleted.

### Gateway

*State.* `secret`, `accepted` and `dead` are the world (the credentials in each
secret, those of them that the external systems accept, tokens they do not), four
caches, and `req`, one record per caller. `first` and `firstCsrf` remember what the first
attempt carried.

*Actions.* `ServeHTTP`, `getSecret`, `addSecret`, `getOrCreateCacheEntry`,
`createCacheEntry`, the strategies (`addCustomToken`,
`addCredentials`, `GetToken`/`requestToken`/`addToken`), the CSRF token
(`AddCSRFToken`/`requestCSRFToken`/`addCSRFToken`), `RoundTrip` and
`invalidateCSRF`; a lookup and the write that follows it are separate actions, so
other requests come in between. Entries expire one by one.

*Abstractions.* An API names a secret (`SecretOf`), and several may name the same one.
Names, client ids, client secrets and URLs are sequences, so that the keys of the
caches are put together as in the code: the key of an OAuth token is client id, client
secret and URL (`tokenKey`), and APIs with the same credentials at the same OAuth
server share it. Request parameters and their secrets are left out. Serials only tell tokens in use apart: a server issues one that no
request, cache or external system still has (`FreshTokens`), and it takes its step
only while there is one, so the set of serials is a bound. The Applications are
constant here (`GatewayRouting` changes them), and one handler is modelled: the two
handlers have token and proxy caches of their own.

### GatewayRouting

*State.* `apps`, `appCache`, one proxy cache per handler, `proxies` (the reverse
proxies with their target and their `ModifyResponse`), `req`. `seen` is a history
variable.

*Actions.* `ServeHTTP` with the lookup of the Application, `getApplication` and
`addApplication`, `getOrCreateCacheEntry`, `createCacheEntry`,
`setModifyResponse`, `forward`, `respond`; `expireApplication`, `expireProxy`,
`ChangeApplication`, `Restart`.

*Abstractions.* A path is the sequence of its segments, a segment a sequence of
numbers, so that prefixes and concatenations are those of strings. A display name
is its normalised form and a variant. `ProxyIds` bounds the reverse proxies in use
at one time; one that nothing refers to is gone and its identity free again.
Setting `ModifyResponse` of a shared proxy
is one step: two requests that set it have one of the two values, as a word-sized
write on the supported platforms has.

### ValidatorCache

*State.* `apps` are the `Application` resources, `informer` the copies the
manager's client reads, `queue` and `worker` the controller, `init`, `listed` and
`todo` the goroutine that fills the cache, `appCache` the cache, `req` the
requests. `known` is a history variable: the client IDs each Application has had.

*Actions.* `Sync` is `SyncGet` (the read) and `SyncApply` (the write); `Init` is
`InitList`, one `InitSync` per Application and `InitDone`. The cluster and the
other of the two go on in between. `Deliver` hands a change to the informer and
the queue, `Resync` is the `SyncPeriod` of the manager, `Restart` loses
everything in memory. A request reads the cache in `Validate`
(`getCompassMetadataClientIDs`, `hasValidSubject`) and again in
`mapRequestToProxy`.

*Abstractions.* A certificate header is the set of CommonNames of its subjects; a
missing or malformed one is the empty set, since both end without forwarding.
Whether the path has one of the prefixes is left open. The kinds of rejection and
the reverse proxies are left out.

## 3. Runs

The runs of `Reconciler` use two module objects (a Deployment, an object without the `part-of`
label), one Istio object, one network policy and two specs: one with a domain,
one that leaves the domain to the cluster and enables the policies. That is the
smallest instance in which a loop has a first, a middle and a last element,
which the lost delete error needs, and in which an edit changes everything a
spec can change.

| Run | Bound | Shows |
|---|---|---|
| `reconciler_safety` | 3 changes, 1 fault, a complete cluster at first | the inductive invariant, types, the three invariants and three action properties below |
| `reconciler_liveness` | 2 changes, 1 fault | `Converges`, `DeletionCompletes`, `OutageReported` |
| `deletion_leak` | 2 changes, 1 fault | violated: `FinalizerDeletesResources` |
| `connection` | 2 URLs, 1 change, 1 fault, 1 outdated reconciliation | three invariants, three action properties and three liveness properties of `CompassConnection` |
| `application_sync` | 3 names, 1 bundle, 3 configurations, 2 changes, 1 fault | `OnlyFailuresLeak`, `CredentialsInUseStay`, the refinement `RuntimeSpec`, `Converges` |
| `gateway_safety` | 2 callers without tokens of their own, 3 APIs (two with OAuth and one secret, one of them with CSRF tokens; basic), 1 change, no fault | `NeverResent`, `RoutedToItsApi` |
| `gateway_liveness` | 1 caller, 3 APIs (OAuth with CSRF, basic with callers' tokens, none), 2 changes, 1 fault | `Answered`, `RequestsAreServedAgain` |
| `stale_token` | 1 caller, no reported lifetimes | violated: `StaleTokensAreReplaced` |
| `gateway_routing` | 2 callers, both handlers, 1 Application with 2 contents, 1 change, 1 fault | `PathDefinesApi`, `RedirectsComeBack`, `RoutesSettle` |
| `ambiguous_names` | two APIs with the same key | violated: `PathDefinesApi` |
| `redirect_lookalike` | a location that begins with the target's characters | violated: `RewrittenMeansBeneath` |
| `validator` | 1 Application, 1 client ID, 1 request, 4 changes, 1 fault | `CachedIdsWereTrue`, `ForwardedOnKnownIds`, `CacheCatchesUp`, `DeletedAppsLeave` |

`MaxEdits` and `MaxChanges` bound the changes by users and the rest of the world,
`MaxFaults` failing calls and restarts, `MaxStale` the reconciliations started on
one outdated copy. For the ACM three changes are a creation, a deletion and one
more (an edit in between, a recreation, Istio going away). For the connection one
change and one fault already give a request that meets an outdated copy, a crash
between two writes, or a renewal that is not recorded. The names of
`application_sync` are one that is not valid, one that is, and what both are
normalised to, so that refused names, duplicates and changes of the label occur; the
Director starts with few of them (`InitOfFew`), the rest comes with its changes. One
configuration has everything, one blank credentials, one credentials of a bundle
without an API definition. Two callers are what the gateway's races need.
`gateway_safety` starts from a state in which the secrets and one of the proxies are
already cached (`InitWarm`), which saves steps that do not matter to tokens; a failing
call there would only end a request, which its callers' next requests show as well,
and faults and restarts are part of `gateway_liveness`. There are more serials than
the callers and the caches can hold of one kind. In `validator` entries of
different Applications do not affect each other, a foreign name in a certificate
is like a foreign client ID, and its safety is proved for all sets anyway; four
changes are a creation, an update, a deletion and a recreation.

The runs of the gateway check for deadlock: a caller can always ask again. The
others do not, because the system may stop: the ACM and the validator with the
bounds used up and nothing to do, `KymaSync` when the Director returns two
Applications whose names become the same, and `CompassConnection` when the
resource is deleted between the initialisation and the start of the informer,
after which no event and no resync concerns it.

Properties that hold:

* `PatchOnlyUnderFinalizer`, `NoInstallAfterDeletionBegan`, `ReadyMatchesSpec`:
  what a run on an outdated copy may not do.
* `OnlyFailedDeletesLeak`: of the manifests in `r.Objs` and `r.Deps`, a resource
  without finalizer leaves behind only those whose Delete call failed. The network
  policies (`r.OptionalObjs`) are not among them: the deletion does not visit them,
  and those that are enabled at that time stay.
* `AckedDepsAreWatched`: `DepsACK` is not set by a half-done registration.
* `Converges`, `DeletionCompletes`, `OutageReported`: the module settles, a
  deletion ends, an outage is shown.
* `EstablishedMeansStored`, `RecordedNotNewerThanUsed`, `MaintenanceHasClient`:
  the resource, the secrets and the memory of the CRA agree as far as a restart,
  the renewal and a reconciliation need it, wherever the process stopped.
* `ResyncIsServed`, `RefreshIsServed`, `ConnectedIgnoresToken`: a user's request
  is not taken back unserved, and no lagging informer makes an established
  connection spend a token.
* `FailedConnectionIsRetried`, `RenewalHappens`, `ResyncHappens`: these happen,
  unless Compass no longer accepts the agent or the resource is gone.
* `OnlyFailuresLeak`, `CredentialsInUseStay`, `RuntimeSpec`, `Converges` (of
  `KymaSync`): see the refinement above; errors that are overwritten or secrets
  that the garbage collector takes are repaired by a later round. A secret in use
  stays if it belongs to the Application that names it; one of a replaced
  Application of the same name, which the round left unchanged, is taken by the
  garbage collector, and `Converges` says that a later round writes it again.
* `NeverResent`, `RoutedToItsApi`, `Answered`, `RequestsAreServedAgain`: the
  retry is with new tokens; a request goes to its API with credentials of this API,
  or with a token that its OAuth server issued for these credentials, although
  another API with the same secret may have asked for it; every request ends, and
  the caches recover.
* `PathDefinesApi`, `RedirectsComeBack`, `RoutesSettle`: the URL called was
  registered under the names of the path; a redirect beneath the target that was
  called is rewritten and leads, through the same reverse proxy, to the location
  named; both caches catch up with the Applications. When an API has moved, a cached
  proxy may still call the old target while a request has set `ModifyResponse` for the
  new one (`proxy.go:78`): then redirects are not rewritten, or lead elsewhere.
  `RedirectsComeBack` leaves out exactly this case, and `RoutesSettle` says that it ends.
* `CachedIdsWereTrue`, `ForwardedOnKnownIds`: whatever order `Init`, `Sync` and a
  request take, a decision rests on client IDs the Application has had, never on
  a missing entry.
* `CacheCatchesUp`, `DeletedAppsLeave`: the resync repairs entries that `Init`
  overwrote with older ones; Applications deleted after `Init` leave the cache.

What a document, comment or test states and the code does not do, with a run each
(`findings` in `PROJECT.json` quotes the lines): an error of Delete is overwritten
by the next iteration; an OAuth token that only the CSRF token endpoint refuses is
never replaced; the key of the proxy cache does not tell all APIs apart; a
redirect is rewritten when its path only begins with the target's characters.

Further disagreements met while modelling, without a run: network policies are off
by default and can be disabled (`docs/user/03-15-network-policies.md:6` says they
cannot); a domain that cannot be detected leaves the status *Processing*; without
the Istio CRDs a deletion is neither shown nor started; entries of the validator's
cache never expire, and one that `Init` writes after its Application was deleted
stays until a restart (its README speaks of a time to live); Application names are
normalised unless the label `isNormalized` is `true`, although
`docs/user/technical-reference/runtime-agent/03-20-configuring-runtime.md:33`
says the opposite; the second attempt of a request with an
`Access-Token` header carries the stored credentials, because the first attempt
removes the header; a trailing slash of a `Location` is lost when the caller
follows it, and ports are not compared.

*Fairness.* `Fairness` says that a queued key is reconciled and a run goes on
(controller-runtime's worker), that informers deliver (watches reconnect and
relist) and that timers fire. Nothing is assumed of users, faults or restarts;
both are bounded, so they stop. `RolloutSpec` adds that the Deployment controller
rolls out what was applied; `OutageReported` does not use it. `CacheFairSpec`
says the same of the validator's worker, informer and `Init`, and that the resync
comes round; `SyncGet` is strongly fair per name because the work queue is first
in, first out while the one worker is busy and idle in turn. For the CRA: the
process is restarted by its Deployment and goes on, the informer delivers, the
manager resyncs with a period longer than the minimal synchronisation time (180 s
and 15 s as deployed), rounds are repeated and the garbage collector works. For
the CAG: a request in progress goes on, since calls of external systems have a
timeout and reads of the cluster, which have none of their own, are ended by the API
server; cache entries expire, and changed credentials are eventually registered. Nothing is
assumed of callers.

Every property of a passing run has a mutant: an operator that changes the code
the way a plausible bug would (a dropped check, a wrong constant, a missing
requeue) and under which TLC finds the property violated. The mutants stand just
before the definitions they change.

## 4. Proofs

`ReconcilerProofs` proves, for every number of manifests, dependencies and
policies, every set of specs and any bound on faults and changes:

| Theorem | Statement |
|---|---|
| `InductiveInvariant` | `Spec => []IInv` |
| `TypeCorrect` | `Spec => []TypeOK` |
| `OnlyFailedLeak` | `Spec => []OnlyFailedDeletesLeak` |
| `AckedMeansWatched` | `Spec => []AckedDepsAreWatched` |
| `PatchedUnderFinalizer` | `Spec => PatchOnlyUnderFinalizer` |
| `DeletionIsFinal` | `Spec => NoInstallAfterDeletionBegan` |
| `ReadyIsForTheSpec` | `Spec => ReadyMatchesSpec` |

`ValidatorCacheProofs` proves, for all sets of Applications, client IDs and
requests and any bound on changes and faults, `CacheSpec => []CacheInv`
(`CacheInvariant`) and from it `CacheTypeCorrect`, `CachedIdsAreTrue` and
`ForwardedIsJustified` for the three invariants of `validator`.
`ForwardedOnKnownIds` is not inductive: it needs that the cache, what `Init` and
`Sync` have read, and the informer hold only client IDs of the history
(`CachedIdsWereTrue`), and that `Init` applies only what it listed.

`CompassConnectionProofs`, for every set of URLs and all bounds:

| Theorem | Statement |
|---|---|
| `InductiveInvariant` | `Spec => []IInv` |
| `TypeCorrect` | `Spec => []TypeOK` |
| `EstablishedIsStored` | `Spec => []EstablishedMeansStored` |
| `RecordedIsUsed` | `Spec => []RecordedNotNewerThanUsed` |
| `MaintenanceFindsClient` | `Spec => []MaintenanceHasClient` |
| `ResyncServed` | `Spec => ResyncIsServed` |
| `RefreshServed` | `Spec => RefreshIsServed` |
| `TokenIsLeftAlone` | `Spec => ConnectedIgnoresToken` |

`KymaSyncProofs`, for all names, bundles, configurations and bounds:

| Theorem | Statement |
|---|---|
| `InductiveInvariant` | `Spec => []IInv` |
| `TypeCorrect` | `Spec => []TypeOK` |
| `OnlyFailuresLeakSecrets` | `Spec => []OnlyFailuresLeak` |
| `SecretsInUseStay` | `Spec => CredentialsInUseStay` |
| `ImplementsRuntime` | `Spec => RuntimeSpec`, the refinement of `RuntimeApplications` |

`GatewayProofs`, for any number of callers, APIs, endpoints and tokens:

| Theorem | Statement |
|---|---|
| `InductiveInvariant` | `Spec => []IInv` |
| `TypeCorrect` | `Spec => []TypeOK` |
| `GoesToItsApi` | `KeysTellApart /\ Spec => []RoutedToItsApi` |
| `RepeatedWithNewTokens` | `Spec => []NeverResent` |

`GatewayRoutingProofs`, for any number of callers, Applications, calls and locations:

| Theorem | Statement |
|---|---|
| `TypeInvariant` | `Spec => []TInv` |
| `TypeCorrect` | `Spec => []TypeOK` |
| `RoutingInvariant` | `KeysTellApart /\ Spec => []RInv` |
| `PathLeadsToItsApi` | `KeysTellApart /\ Spec => []PathDefinesApi` |
| `RedirectsLeadBack` | `KeysTellApart /\ PathsAreClean /\ Spec => []RedirectsComeBack` |

Assumptions. For `Reconciler`: `SizesAssumption` (at least one manifest),
`KindsAssumption` (Deployments are among the module's own objects),
`SpecsAssumption` (the special values are none of the ordinary ones). Every module
has `BoundsAssumption` or `LimitsAssumption` (bounds are numbers), and one or more
that say that sets are not empty where something is taken from them and that a
special value such as `Nil` or `NoApp` is none of the others. Three say more.
`NamesAssumption` of `KymaSync`: what a name is normalised to is a name too, and a
name that needs no normalising is valid.
`ContentsAssumption` of `GatewayRouting`: an Application has finitely many entries.
`ApisAssumption` of `Gateway`: an API with credentials names a secret, and every
secret may hold some. TLC evaluates all of them in every run.

`KeysTellApart`, of `Gateway` and of `GatewayRouting`, is not guaranteed by the code,
so it is a hypothesis of the theorems that need it and no assumption of a module:
`ambiguous_names` shows names that violate it and what comes of it. The theorems say
that this is the only way in which a request reaches a foreign API. The invariant of
`Gateway` behind `NeverResent` needs no such hypothesis. `PathsAreClean` excludes an API whose
last name is normalised to nothing and a location with two slashes in a row, which
`JoinPath` does not give back. The constants of `gateway_routing` satisfy both.

The argument for `Reconciler`. None of the properties is inductive. `TypeOK` needs `SpecsKnown`:
the resource and its copies, where they exist, have a spec.
`CopyInv` is the heart: a copy with the current version agrees with the resource
(`CurrentCopies`); an outdated copy that could be installed - it has the
finalizer and no deletion timestamp - exists only while the resource still has
its finalizer and no deletion is recorded (`OutdatedCopies`), because removing
the finalizer and recording the deletion both need a *current* copy that is being
deleted, and the cache is never behind the copy of a run. `RemovalInv` says how
far the deletion loop has come, `ReadyInv` what a run has applied when it reaches
`sFnVerify`. Each part has a lemma with one case per action; the three action
properties follow from the invariant and from who changes the objects
(`WhoInstalls`) and who writes *Ready* (`WhoWritesReady`).

The argument for `CompassConnection`. Every copy of the resource - the stored one,
the informer's, the one a call works on - records a certificate that is already in
the cluster secret, and none that is newer than the client's (`CertsInv`), because
the certificate is stored before the client takes it, and taken before the resource
records it. Hence an established connection has a stored certificate, and an agent
that has seen it established has a client (`ClientInv`). A flag is lost only by
writing an old copy, which the resource version refuses: a copy with the current
version differs from the resource only in flags that the call has served
(`CacheInv`, `ServedInv`).

The argument for `KymaSync`. A round works from a listing that may be old. A loop
visits only Applications that it is for (`TodoInv`); one that the round has not
changed yet is what was listed, or a user's (`ListedInv`), and a user's that has
taken the name since has a new uid, which no secret has as its owner (`UserInv`,
`UidInv`). So the secrets that an update finds are those the listed spec names, and
what the new spec does not name is what the update deletes (`SecretsInv`). The
refinement follows step by step, with the invariant for the names that a round has
claimed.

The argument for `Gateway`. When keys tell apart, what a request has belongs to its
API (`OwnInv`), and what a cache holds to the API or to the client of its key
(`CacheInv`; together `RouteInv`). `NeverResent` is about other
requests that refill a cache between two attempts. A token enters a cache once,
right after it was issued; while it is pending no cache and no other request has it
(`PendingInv`), so no one was refused with it, and what enters a cache differs from
everything that was refused there (`RefusedInv`). What the second attempt takes is
then new to the request (`RenewedInv`).

The argument for `GatewayRouting`. A proxy is there as long as something refers to
it (`LiveInv`). All who refer to a proxy mean one API (`OneApiInv`), so that it goes
where this API was registered and whoever sets its `ModifyResponse` sets it for the
path of this API and for a target it has had (`ProxyInv`): as long as the API keeps its
target, sharing the proxy is harmless for the way back. With the
lemmas of `GatewayPathProofs` - a path is taken apart into the names and the rest it
was put together from (`TakenApart`), and `joinPaths` puts back what `TrimPrefix`
takes off (`PutBack`), and what has the segments of the target begins with its path
(`BeginsWith`) - a redirect is rewritten and leads to the location that was named.

The inductive invariants were checked with TLC before they were proved: that of
`Reconciler` is a property of `reconciler_safety` and that of `ValidatorCache` the
conjunction of three properties of `validator`; the others were
checked with the constants of the runs, `IInv` of `CompassConnection` on 168,792
states (and on 8,098,550 with two faults and two changes), of `KymaSync` on
437,023, `IInv` and `RouteInv` of `Gateway` on 3,817,515 (with OAuth for the third API
too), `RInv` of `GatewayRouting`
on 354,192.

Only model-checked: the liveness properties (`Converges`, `DeletionCompletes`,
`OutageReported`, `FailedConnectionIsRetried`, `RenewalHappens`, `ResyncHappens`,
`Answered`, `RequestsAreServedAgain`, `RoutesSettle`, `CacheCatchesUp`,
`DeletedAppsLeave`), since the prover handles neither fairness nor `ENABLED`. Every
invariant, every action property and the refinement of the passing runs is proved.
Nothing is proved of what `FlattenSeq` computes (`cacheKey` of `GatewayRouting`),
which is recursive: the proofs use the key as a value only.

## 5. Not modelled, and the plan

Not modelled: client certificates of the CAG, which the strategies put into a
holder that requests share (a hazard listed without a property); queries, headers,
bodies and escaping of proxied requests; the strategies `safe` and `upstream` of
the deletion, which `defaultDeletionStrategy` never selects; Kubernetes events and
logs; generated clients and deep copies; deployment configuration, tests, metrics
and health checks. The components are not composed into one model: they meet only
through `Application` resources and secrets, whose changes each reader's model
allows at any time.

The order of the work, the most important behaviour first:

1. `Reconciler` - done: modelled, checked and proved.
2. `CompassConnection` - done: modelled, checked and proved.
3. `KymaSync` with `RuntimeApplications` - done: modelled, checked, proved to
   implement it.
4. `ValidatorCache` - done: modelled, checked and proved.
5. `Gateway` and `GatewayRouting` - done: modelled, checked and proved.
6. Still to come: what can be said of liveness without fairness, as safety - that a
   request to the agent or an event for the manager is never lost without a pending
   retry (a queued key, a timer, a tick) - so that the liveness properties rest on
   proved facts and fairness only; and lemmas on `Normalize` and `Matches`.
