----------------------------- MODULE Reconciler -----------------------------
(***************************************************************************)
(* The Application Connector Manager: the operator that installs, verifies *)
(* and removes the module described by one ApplicationConnector resource   *)
(* (controllers/applicationconnector_controller.go, pkg/reconciler).       *)
(*                                                                         *)
(* A reconciliation is a run of a finite state machine whose states are    *)
(* the functions sFn...; `fn' is the state function that runs next, and    *)
(* `inst' the copy of the resource (s.instance) the run works on.  The     *)
(* copy comes from an informer cache that lags behind the API server, and  *)
(* a write with an outdated copy is refused (optimistic concurrency).      *)
(*                                                                         *)
(* The manifests append(r.Objs, r.Deps...) are the positions 1..N; the     *)
(* network policies r.OptionalObjs are the positions 1..NOpt of their own. *)
(***************************************************************************)
EXTENDS Naturals, FiniteSets

CONSTANTS
    NObjs,       \* number of manifests in application-connector.yaml
    NDeps,       \* number of Istio manifests, applied after them
    NOpt,        \* number of network policies in application-connector-optional.yaml
    Workloads,   \* the manifests that are Deployments: verified before Ready
    Labelled,    \* the manifests whose events pass the part-of label predicate
    Domains,     \* domain names
    Cfgs,        \* log levels and timeouts of a spec, as opaque values
    UserSpecs,   \* the specs that users submit
    NoDomain,    \* the empty domain name
    NoShootInfo, \* no ConfigMap shoot-info, or one without the key domain
    NoSpec,      \* the spec of a resource that does not exist
    Absent,      \* the content of an object that does not exist
    MaxFaults,   \* bound: failing API calls and process restarts
    MaxEdits     \* bound: changes made by users and by the rest of the cluster

N == NObjs + NDeps
Manifests == 1..N
Deps == (NObjs + 1)..N
Objs == 1..NObjs
Policies == 1..NOpt

CRSpecs == [domain : Domains \cup {NoDomain}, np : BOOLEAN, cfg : Cfgs]

\* What sFnUpdate writes into the manifests: the domain name of the hosts and
\* URLs, the log levels and timeouts, and the replicas of the runtime agent.  The
\* domain is empty when the spec has none and the ConfigMap an empty one.
Renderings == [domain : Domains \cup {NoDomain}, cfg : Cfgs, replicas : {0, 1}]

ASSUME SizesAssumption == NObjs \in Nat \ {0} /\ NDeps \in Nat /\ NOpt \in Nat
ASSUME KindsAssumption == Workloads \subseteq 1..NObjs /\ Labelled \subseteq 1..(NObjs + NDeps)
ASSUME SpecsAssumption == /\ UserSpecs \subseteq CRSpecs
                          /\ NoDomain \notin Domains
                          /\ NoShootInfo \notin Domains \cup {NoDomain}
                          /\ NoSpec \notin CRSpecs
                          /\ Absent \notin Renderings
ASSUME BoundsAssumption == MaxFaults \in Nat /\ MaxEdits \in Nat

\* The reasons of the Installed condition; the state shown by the resource is
\* a function of them (StateOf).
Reasons == {"none", "Initialized", "Verification", "VerificationErr", "Verified",
            "ApplyObjError", "OptionalManifestsReconciliationErr",
            "Deletion", "DeletionErr"}

StateOf(reason) ==
    CASE reason = "none" -> ""
      [] reason \in {"Initialized", "Verification"} -> "Processing"
      [] reason = "Verified" -> "Ready"
      [] reason = "Deletion" -> "Deleting"
      [] OTHER -> "Error"

ApplicationConnectors ==
    [exists : BOOLEAN, deleting : BOOLEAN, finalizer : BOOLEAN,
     spec : CRSpecs \cup {NoSpec}, reason : Reasons]

NoCR == [exists |-> FALSE, deleting |-> FALSE, finalizer |-> FALSE,
         spec |-> NoSpec, reason |-> "none"]

NewCR(spec) == [exists |-> TRUE, deleting |-> FALSE, finalizer |-> FALSE,
                spec |-> spec, reason |-> "none"]

StateFns == {"idle", "sFnCheckDependencies", "sFnRegisterDependencyWatch",
             "sFnInitialize", "sFnDetectDomain", "sFnUpdate", "sFnApply",
             "sFnReconcileOptionalObjects", "sFnVerify", "sFnDeleteResources",
             "sFnCascadeDeletionState", "sFnRemoveFinalizer", "sFnUpdateStatus"}

VARIABLES
    (* the cluster: API server, users, the other controllers *)
    cr,          \* the ApplicationConnector resource
    content,     \* content[o]: what manifest o was last applied with, or Absent
    avail,       \* the workloads whose Available condition is True
    hooked,      \* the Istio objects that carry the deletion-hook finalizer
    pols,        \* the network policies on the cluster
    istio,       \* the Istio CRDs are installed
    secret,      \* Secret compass-agent-configuration exists
    shoot,       \* the value of the key domain in ConfigMap shoot-info, or NoShootInfo
    (* informers and work queue of the manager *)
    cache,       \* the informer's copy of the resource
    cacheFresh,  \* cache carries the current resourceVersion
    genEvent,    \* undelivered event of the resource that passes ommitStatusChanged
    notif,       \* undelivered event of a watched object or of the secret
    polCache,    \* the informer's copy of pols
    queued,      \* the key of the resource is in the work queue
    timer,       \* a RequeueAfter is pending
    (* memory of the manager *)
    ack,         \* DepsACK
    watched,     \* the Istio manifests a watch was registered for
    (* the current run *)
    fn, inst,
    fresh,       \* inst carries the current resourceVersion
    domainName,  \* s.domainName
    manifest,    \* what the manifests were rendered with
    seen,        \* the workloads that s.objs shows as available
    idx,         \* position of the loop over the manifests
    isErr,       \* isError of sFnApply; err of deleteResourcesWithFilter
    outcome,     \* result of the run once the status is written
    (* history and bounds *)
    delFailed,   \* the manifests whose last Delete call failed
    faults, edits

clusterVars == <<content, avail, hooked, pols>>
envVars     == <<istio, secret, shoot, edits>>
cacheVars   == <<cache, cacheFresh, genEvent, notif, polCache>>
queueVars   == <<queued, timer>>
memVars     == <<ack, watched>>
loopVars    == <<domainName, manifest, seen, idx, isErr>>
runVars     == <<fn, inst, fresh, loopVars, outcome>>
vars == <<cr, clusterVars, envVars, cacheVars, queueVars, memVars, runVars,
          delFailed, faults>>

CopiesOK ==
    /\ cr \in ApplicationConnectors
    /\ cache \in ApplicationConnectors
    /\ inst \in ApplicationConnectors
    /\ fn # "idle" => inst.exists

ObjectsOK ==
    /\ content \in [Manifests -> Renderings \cup {Absent}]
    /\ manifest \in Renderings \cup {Absent}
    /\ avail \subseteq Workloads /\ seen \subseteq Workloads
    /\ hooked \subseteq Deps /\ watched \subseteq Deps
    /\ pols \subseteq Policies /\ polCache \subseteq Policies
    /\ delFailed \subseteq Manifests
    /\ idx \in 1..(N + 1)

ControlOK ==
    /\ fn \in StateFns
    /\ outcome \in {"none", "requeue", "after"}
    /\ shoot \in Domains \cup {NoDomain, NoShootInfo}
    /\ domainName \in Domains \cup {NoDomain}
    /\ faults \in 0..MaxFaults /\ edits \in 0..MaxEdits

FlagsOK ==
    /\ istio \in BOOLEAN /\ secret \in BOOLEAN
    /\ cacheFresh \in BOOLEAN /\ fresh \in BOOLEAN
    /\ genEvent \in BOOLEAN /\ notif \in BOOLEAN
    /\ queued \in BOOLEAN /\ timer \in BOOLEAN
    /\ ack \in BOOLEAN /\ isErr \in BOOLEAN

\* Every variable has its type (copies of the resource, objects, control,
\* flags), and a run works on a resource that Get has found.
TypeOK == CopiesOK /\ ObjectsOK /\ ControlOK /\ FlagsOK

Init ==
    /\ cr = NoCR
    /\ content = [o \in Manifests |-> Absent]
    /\ avail = {} /\ hooked = {} /\ pols = {} /\ polCache = {}
    /\ istio \in BOOLEAN /\ secret \in BOOLEAN
    /\ shoot \in Domains \cup {NoDomain, NoShootInfo}
    /\ cache = NoCR /\ cacheFresh = TRUE
    /\ genEvent = FALSE /\ notif = FALSE
    /\ queued = FALSE /\ timer = FALSE
    /\ ack = FALSE /\ watched = {}
    /\ fn = "idle" /\ inst = NoCR /\ fresh = FALSE
    /\ domainName = NoDomain /\ manifest = Absent /\ seen = {}
    /\ idx = 1 /\ isErr = FALSE /\ outcome = "none"
    /\ delFailed = {}
    /\ faults = 0 /\ edits = 0

-----------------------------------------------------------------------------
(***************************************************************************)
(* Building blocks of the state functions                                  *)
(***************************************************************************)

\* An API call fails, or the process dies.  A failing write may have taken
\* effect (its answer was lost) or not.
Fault == faults < MaxFaults /\ faults' = faults + 1
NoFault == faults' = faults

switchState(f) == fn' = f /\ UNCHANGED <<inst, outcome>>

\* Stop the machine: set the reason of the condition, then write the status
\* and end with the given outcome.  An error and Requeue both put the key back
\* into the rate-limited queue.
stopWith(reason, result) ==
    /\ fn' = "sFnUpdateStatus"
    /\ inst' = [inst EXCEPT !.reason = reason]
    /\ outcome' = result

\* The run is over and its local state is gone.
EndRun(result) ==
    /\ fn' = "idle" /\ inst' = NoCR /\ fresh' = FALSE
    /\ domainName' = NoDomain /\ manifest' = Absent /\ seen' = {}
    /\ idx' = 1 /\ isErr' = FALSE /\ outcome' = "none"
    /\ queued' = (queued \/ result = "requeue")
    /\ timer' = (timer \/ result = "after")

\* Mutant: compares with the wrong reason.
isDeletingErrOnly(reason) == reason = "DeletionErr"

\* isDeleting: the condition says that the deletion has begun.
isDeleting(reason) == reason \in {"Deletion", "DeletionErr"}

\* The events of o reach mapFunction.
IsWatched(o) == o \in Labelled /\ (o \in Deps => o \in watched)

-----------------------------------------------------------------------------
(***************************************************************************)
(* Reconcile, and the state functions of a run                             *)
(***************************************************************************)

\* Mutant: the error of Get is not looked at.
ReconcileUnchecked ==
    /\ fn = "idle" /\ queued
    /\ queued' = FALSE
    /\ fn' = "sFnCheckDependencies"
    /\ inst' = cache /\ fresh' = cacheFresh
    /\ UNCHANGED <<cr, clusterVars, envVars, cacheVars, timer, memVars, loopVars,
                   outcome, delFailed, faults>>

\* Get finds the resource: a new machine runs, its snapshot is taken.
Reconcile ==
    /\ fn = "idle" /\ queued /\ cache.exists
    /\ queued' = FALSE
    /\ fn' = "sFnCheckDependencies"
    /\ inst' = cache /\ fresh' = cacheFresh
    /\ UNCHANGED <<cr, clusterVars, envVars, cacheVars, timer, memVars, loopVars,
                   outcome, delFailed, faults>>

\* Get answers NotFound: the key is put back, every time.
ReconcileNotFound ==
    /\ fn = "idle" /\ queued /\ ~cache.exists
    /\ queued' = TRUE
    /\ UNCHANGED <<cr, clusterVars, envVars, cacheVars, timer, memVars, runVars,
                   delFailed, faults>>

sFnCheckDependencies ==
    /\ fn = "sFnCheckDependencies"
    /\ \/ Fault /\ stopWith("ApplyObjError", "requeue")
       \/ ~istio /\ NoFault /\ stopWith("ApplyObjError", "after")
       \/ istio /\ ack /\ NoFault /\ switchState("sFnInitialize")
       \/ istio /\ ~ack /\ NoFault /\ switchState("sFnRegisterDependencyWatch")
    /\ UNCHANGED <<cr, clusterVars, envVars, cacheVars, queueVars, memVars, fresh,
                   loopVars, delFailed>>

\* Mutant: DepsACK is set although a watch failed.
AckAfterFirstWatch ==
    /\ fn = "sFnRegisterDependencyWatch"
    /\ \E failed \in Deps : watched' = watched \cup {d \in Deps : d < failed}
    /\ ack' = TRUE /\ NoFault /\ stopWith(inst.reason, "requeue")
    /\ UNCHANGED <<cr, clusterVars, envVars, cacheVars, queueVars, fresh, loopVars,
                   delFailed>>

\* The loop over r.Deps stops at the first watch that cannot be registered.
sFnRegisterDependencyWatch ==
    /\ fn = "sFnRegisterDependencyWatch"
    /\ \/ /\ watched' = Deps /\ ack' = TRUE
          /\ NoFault /\ stopWith(inst.reason, "requeue")
       \/ \E failed \in Deps :
              /\ watched' = watched \cup {d \in Deps : d < failed}
              /\ ack' = ack
              /\ Fault /\ stopWith("ApplyObjError", "requeue")
    /\ UNCHANGED <<cr, clusterVars, envVars, cacheVars, queueVars, fresh, loopVars,
                   delFailed>>

\* Mutant: the error of Update is ignored and the run goes on.
AddFinalizerUnchecked ==
    /\ ~inst.deleting /\ ~inst.finalizer
    /\ inst' = [inst EXCEPT !.finalizer = TRUE]
    /\ cr' = IF fresh THEN [cr EXCEPT !.finalizer = TRUE] ELSE cr
    /\ cacheFresh' = (cacheFresh /\ ~fresh)
    /\ fn' = "sFnDetectDomain" /\ NoFault
    /\ UNCHANGED <<outcome, fresh, queueVars, loopVars>>

\* AddFinalizer and Update; the API server refuses an outdated copy.  After an
\* error the copy keeps the finalizer it was given, and its old version.
AddFinalizer ==
    /\ ~inst.deleting /\ ~inst.finalizer
    /\ fn' = "sFnUpdateStatus" /\ outcome' = "requeue"
    /\ \/ /\ fresh
          /\ cr' = [cr EXCEPT !.finalizer = TRUE]
          /\ cacheFresh' = FALSE
          /\ \/ /\ NoFault /\ fresh' = TRUE
                /\ inst' = [inst EXCEPT !.finalizer = TRUE, !.reason = "Initialized"]
             \/ /\ Fault /\ fresh' = FALSE
                /\ inst' = [inst EXCEPT !.finalizer = TRUE]
       \/ /\ (~fresh /\ NoFault) \/ Fault
          /\ inst' = [inst EXCEPT !.finalizer = TRUE]
          /\ UNCHANGED <<cr, cacheFresh, fresh>>
    /\ UNCHANGED <<queueVars, loopVars>>

\* Mutant: the deletion timestamp is not looked at.
InitializeIgnoringDeletion ==
    /\ fn = "sFnInitialize"
    /\ \/ AddFinalizer
       \/ /\ inst.finalizer /\ switchState("sFnDetectDomain")
          /\ NoFault /\ UNCHANGED <<cr, cacheFresh, fresh, queueVars, loopVars>>
    /\ UNCHANGED <<clusterVars, envVars, cache, genEvent, notif, polCache, memVars,
                   delFailed>>

\* Mutant: a deletion that the condition shows already counts as handled.
InitializeDeletingOnce ==
    /\ fn = "sFnInitialize"
    /\ \/ AddFinalizer
       \/ /\ inst.finalizer
          /\ switchState(IF inst.deleting /\ ~isDeleting(inst.reason)
                         THEN "sFnDeleteResources" ELSE "sFnDetectDomain")
          /\ NoFault /\ UNCHANGED <<cr, cacheFresh, fresh, queueVars, loopVars>>
    /\ UNCHANGED <<clusterVars, envVars, cache, genEvent, notif, polCache, memVars,
                   delFailed>>

sFnInitialize ==
    /\ fn = "sFnInitialize"
    /\ \/ AddFinalizer
       \/ /\ inst.deleting /\ ~inst.finalizer
          /\ EndRun("none") /\ NoFault /\ UNCHANGED <<cr, cacheFresh>>
       \/ /\ inst.deleting /\ inst.finalizer
          /\ switchState("sFnDeleteResources")
          /\ NoFault /\ UNCHANGED <<cr, cacheFresh, fresh, queueVars, loopVars>>
       \/ /\ ~inst.deleting /\ inst.finalizer
          /\ switchState("sFnDetectDomain")
          /\ NoFault /\ UNCHANGED <<cr, cacheFresh, fresh, queueVars, loopVars>>
    /\ UNCHANGED <<clusterVars, envVars, cache, genEvent, notif, polCache, memVars,
                   delFailed>>

\* The spec's domain, or the one in the ConfigMap: a missing ConfigMap or key is
\* an error, returned for a retry with the condition as it is; an empty value is
\* taken like any other.
sFnDetectDomain ==
    /\ fn = "sFnDetectDomain"
    /\ \/ /\ inst.spec.domain # NoDomain
          /\ switchState("sFnUpdate") /\ NoFault /\ UNCHANGED domainName
       \/ /\ inst.spec.domain = NoDomain /\ shoot # NoShootInfo
          /\ domainName' = shoot
          /\ switchState("sFnUpdate") /\ NoFault
       \/ /\ inst.spec.domain = NoDomain
          /\ (shoot = NoShootInfo /\ NoFault) \/ Fault
          /\ stopWith(inst.reason, "requeue") /\ UNCHANGED domainName
    /\ UNCHANGED <<cr, clusterVars, envVars, cacheVars, queueVars, memVars, fresh,
                   manifest, seen, idx, isErr, delFailed>>

\* The runtime agent is scaled to zero while its secret is missing.
buildUpdateCompassRuntimeAgent == IF secret THEN 1 ELSE 0

\* Renders the manifests; a domain detected on the cluster wins over the spec.
sFnUpdate ==
    /\ fn = "sFnUpdate"
    /\ \/ /\ manifest' = [domain |-> IF domainName # NoDomain THEN domainName
                                                              ELSE inst.spec.domain,
                          cfg |-> inst.spec.cfg,
                          replicas |-> buildUpdateCompassRuntimeAgent]
          /\ switchState("sFnApply") /\ NoFault
       \/ Fault /\ stopWith(inst.reason, "requeue") /\ UNCHANGED manifest
    /\ UNCHANGED <<cr, clusterVars, envVars, cacheVars, queueVars, memVars, fresh,
                   domainName, seen, idx, isErr, delFailed>>

\* One Patch of the loop in sFnApply: an error is remembered, the loop goes on.
PatchObject ==
    /\ fn = "sFnApply" /\ idx <= N
    /\ idx' = idx + 1
    /\ \/ /\ idx \in Deps => istio
          /\ content' = [content EXCEPT ![idx] = manifest]
          /\ hooked' = hooked \cup ({idx} \cap Deps)
          /\ notif' = (notif \/ (content[idx] # manifest /\ IsWatched(idx)))
          /\ \/ NoFault /\ isErr' = isErr /\ seen' = seen \cup ({idx} \cap avail)
             \/ Fault /\ isErr' = TRUE /\ seen' = seen
       \/ /\ (idx \in Deps /\ ~istio /\ NoFault) \/ Fault
          /\ isErr' = TRUE
          /\ UNCHANGED <<content, hooked, seen, notif>>
    /\ UNCHANGED <<cr, avail, pols, envVars, cache, cacheFresh, genEvent, polCache,
                   queueVars, memVars, fn, inst, fresh, domainName, manifest, outcome,
                   delFailed>>

\* The end of sFnApply.
ApplyDone ==
    /\ fn = "sFnApply" /\ idx = N + 1
    /\ \/ isErr /\ stopWith("ApplyObjError", "requeue")
       \/ ~isErr /\ switchState("sFnReconcileOptionalObjects")
    /\ UNCHANGED <<cr, clusterVars, envVars, cacheVars, queueVars, memVars, fresh,
                   loopVars, delFailed, faults>>

\* The network policies are applied in order up to the first error.
ApplyPolicies ==
    /\ inst.spec.np
    /\ \/ /\ pols' = Policies
          /\ NoFault /\ switchState("sFnVerify")
       \/ \E failed \in Policies :
              /\ pols' = pols \cup {p \in Policies : p < failed}
              /\ Fault /\ stopWith("OptionalManifestsReconciliationErr", "requeue")

\* removeNetworkPolicies lists the informer's policies and deletes each; a
\* failing Delete does not stop the others.
removeNetworkPolicies ==
    /\ ~inst.spec.np
    /\ \/ /\ pols' = pols \ polCache
          /\ NoFault /\ switchState("sFnVerify")
       \/ \E failed \in SUBSET polCache :
              /\ pols' = pols \ (polCache \ failed)
              /\ Fault /\ stopWith("OptionalManifestsReconciliationErr", "requeue")

sFnReconcileOptionalObjects ==
    /\ fn = "sFnReconcileOptionalObjects"
    /\ ApplyPolicies \/ removeNetworkPolicies
    /\ UNCHANGED <<cr, content, avail, hooked, envVars, cacheVars, queueVars, memVars,
                   fresh, loopVars, delFailed>>

\* Mutant: the successful run asks for no further one.
VerifyWithoutRequeue ==
    /\ fn = "sFnVerify" /\ NoFault
    /\ stopWith(IF seen = Workloads THEN "Verified" ELSE "Verification", "none")
    /\ UNCHANGED <<cr, clusterVars, envVars, cacheVars, queueVars, memVars, fresh,
                   loopVars, delFailed>>

\* Mutant: a module that was verified once is not verified again.
VerifyOnce ==
    /\ fn = "sFnVerify" /\ NoFault
    /\ IF seen = Workloads \/ inst.reason = "Verified"
          THEN stopWith("Verified", "after") ELSE stopWith("Verification", "none")
    /\ UNCHANGED <<cr, clusterVars, envVars, cacheVars, queueVars, memVars, fresh,
                   loopVars, delFailed>>

\* Ready needs every workload available in the answer to its Patch; otherwise
\* the run ends without a requeue and an event of a workload has to start the
\* next one.
sFnVerify ==
    /\ fn = "sFnVerify"
    /\ \/ Fault /\ stopWith("VerificationErr", "requeue")
       \/ NoFault /\ seen # Workloads /\ stopWith("Verification", "none")
       \/ NoFault /\ seen = Workloads /\ stopWith("Verified", "after")
    /\ UNCHANGED <<cr, clusterVars, envVars, cacheVars, queueVars, memVars, fresh,
                   loopVars, delFailed>>

\* Mutant: the finalizers stay on the Istio objects.
DeleteWithoutUnhooking ==
    /\ fn = "sFnDeleteResources" /\ NoFault
    /\ IF isDeleting(inst.reason) THEN switchState("sFnCascadeDeletionState")
                                  ELSE stopWith("Deletion", "requeue")
    /\ UNCHANGED <<cr, clusterVars, envVars, cacheVars, queueVars, memVars, fresh,
                   loopVars, delFailed>>

\* Deletion: mark it in the status, take the finalizers off the Istio objects,
\* and only when none is left go on to delete.
sFnDeleteResources ==
    /\ fn = "sFnDeleteResources"
    /\ \/ /\ ~isDeleting(inst.reason)
          /\ stopWith("Deletion", "requeue")
          /\ NoFault /\ UNCHANGED hooked
       \/ /\ isDeleting(inst.reason)
          /\ (~istio /\ NoFault) \/ Fault
          /\ stopWith("DeletionErr", "requeue") /\ UNCHANGED hooked
       \/ /\ isDeleting(inst.reason) /\ istio /\ hooked = {}
          /\ switchState("sFnCascadeDeletionState")
          /\ NoFault /\ UNCHANGED hooked
       \/ /\ isDeleting(inst.reason) /\ istio /\ hooked # {}
          /\ hooked' = {}
          /\ stopWith(inst.reason, "requeue") /\ NoFault
       \/ /\ isDeleting(inst.reason) /\ istio
          /\ \E failed \in (SUBSET hooked) \ {{}} : hooked' = failed
          /\ stopWith("DeletionErr", "requeue") /\ Fault
    /\ UNCHANGED <<cr, content, avail, pols, envVars, cacheVars, queueVars, memVars,
                   fresh, loopVars, delFailed>>

\* One Delete of the loop in deleteResourcesWithFilter.  `err' is assigned by
\* every iteration; an object with a finalizer stays.
DeleteObject ==
    /\ fn = "sFnCascadeDeletionState" /\ idx <= N
    /\ idx' = idx + 1
    /\ \/ /\ idx \in Deps => istio
          /\ content' = [content EXCEPT ![idx] = IF idx \in hooked THEN @ ELSE Absent]
          /\ avail' = avail \ {idx}
          /\ notif' = (notif \/ (content[idx] # Absent /\ IsWatched(idx)))
          /\ \/ NoFault /\ isErr' = FALSE /\ delFailed' = delFailed \ {idx}
             \/ Fault /\ isErr' = TRUE /\ delFailed' = delFailed \cup {idx}
       \/ /\ (idx \in Deps /\ ~istio /\ NoFault) \/ Fault
          /\ isErr' = TRUE
          /\ delFailed' = delFailed \cup {idx}
          /\ UNCHANGED <<content, avail, notif>>
    /\ UNCHANGED <<cr, hooked, pols, envVars, cache, cacheFresh, genEvent, polCache,
                   queueVars, memVars, fn, inst, fresh, domainName, manifest, seen,
                   outcome>>

DeleteDone ==
    /\ fn = "sFnCascadeDeletionState" /\ idx = N + 1
    /\ \/ isErr /\ stopWith("DeletionErr", "requeue")
       \/ ~isErr /\ switchState("sFnRemoveFinalizer")
    /\ UNCHANGED <<cr, clusterVars, envVars, cacheVars, queueVars, memVars, fresh,
                   loopVars, delFailed, faults>>

\* Without its finalizer the resource is gone.  NotFound is ignored, a
\* conflict is retried.
sFnRemoveFinalizer ==
    /\ fn = "sFnRemoveFinalizer"
    /\ \/ /\ fresh
          /\ cr' = NoCR /\ cacheFresh' = FALSE /\ genEvent' = TRUE
          /\ (NoFault /\ EndRun("none")) \/ (Fault /\ EndRun("requeue"))
       \/ /\ ~fresh /\ ~cr.exists /\ NoFault
          /\ EndRun("none") /\ UNCHANGED <<cr, cacheFresh, genEvent>>
       \/ /\ (~fresh /\ cr.exists /\ NoFault) \/ Fault
          /\ EndRun("requeue") /\ UNCHANGED <<cr, cacheFresh, genEvent>>
    /\ UNCHANGED <<clusterVars, envVars, cache, notif, polCache, memVars, delFailed>>

\* Mutant: the status is written whatever the version of the copy.
UpdateStatusUnversioned ==
    /\ fn = "sFnUpdateStatus" /\ NoFault
    /\ cr' = IF cr.exists THEN [cr EXCEPT !.reason = inst.reason] ELSE cr
    /\ cacheFresh' = FALSE /\ EndRun(outcome)
    /\ UNCHANGED <<clusterVars, envVars, cache, genEvent, notif, polCache, memVars,
                   delFailed>>

\* Writes the status subresource, emits the events of changed conditions and
\* ends the run; an error of the write is returned and retried.
sFnUpdateStatus ==
    /\ fn = "sFnUpdateStatus"
    /\ \/ /\ fresh
          /\ cr' = [cr EXCEPT !.reason = inst.reason]
          /\ cacheFresh' = (cacheFresh /\ cr.reason = inst.reason)
          /\ (NoFault /\ EndRun(outcome)) \/ (Fault /\ EndRun("requeue"))
       \/ /\ (~fresh /\ NoFault) \/ Fault
          /\ EndRun("requeue") /\ UNCHANGED <<cr, cacheFresh>>
    /\ UNCHANGED <<clusterVars, envVars, cache, genEvent, notif, polCache, memVars,
                   delFailed>>

Run ==
    \/ sFnCheckDependencies \/ sFnRegisterDependencyWatch \/ sFnInitialize
    \/ sFnDetectDomain \/ sFnUpdate \/ PatchObject \/ ApplyDone
    \/ sFnReconcileOptionalObjects \/ sFnVerify
    \/ sFnDeleteResources \/ DeleteObject \/ DeleteDone \/ sFnRemoveFinalizer
    \/ sFnUpdateStatus

-----------------------------------------------------------------------------
(***************************************************************************)
(* Informers, work queue and process                                       *)
(***************************************************************************)

\* The informer catches up with the resource; ommitStatusChanged decides
\* whether the key is enqueued.
DeliverCR ==
    /\ ~cacheFresh
    /\ cache' = cr /\ cacheFresh' = TRUE
    /\ queued' = (queued \/ genEvent) /\ genEvent' = FALSE
    /\ UNCHANGED <<cr, clusterVars, envVars, notif, polCache, timer, memVars, runVars,
                   delFailed, faults>>

\* mapFunction: the key is enqueued unless the resource is being deleted.
mapFunction ==
    /\ notif /\ notif' = FALSE
    /\ queued' = (queued \/ (cache.exists /\ ~cache.deleting))
    /\ UNCHANGED <<cr, clusterVars, envVars, cache, cacheFresh, genEvent, polCache,
                   timer, memVars, runVars, delFailed, faults>>

DeliverPolicies ==
    /\ polCache # pols /\ polCache' = pols
    /\ UNCHANGED <<cr, clusterVars, envVars, cache, cacheFresh, genEvent, notif,
                   queueVars, memVars, runVars, delFailed, faults>>

RequeueTimer ==
    /\ timer /\ timer' = FALSE /\ queued' = TRUE
    /\ UNCHANGED <<cr, clusterVars, envVars, cacheVars, memVars, runVars, delFailed,
                   faults>>

\* The process stops anywhere in a run and starts again with empty memory and
\* a filled cache; the first list of the informer enqueues an existing resource.
Restart ==
    /\ Fault
    /\ fn' = "idle" /\ inst' = NoCR /\ fresh' = FALSE
    /\ domainName' = NoDomain /\ manifest' = Absent /\ seen' = {}
    /\ idx' = 1 /\ isErr' = FALSE /\ outcome' = "none"
    /\ ack' = FALSE /\ watched' = {}
    /\ cache' = cr /\ cacheFresh' = TRUE /\ genEvent' = FALSE /\ notif' = FALSE
    /\ polCache' = pols
    /\ queued' = cr.exists /\ timer' = FALSE
    /\ UNCHANGED <<cr, clusterVars, envVars, delFailed>>

-----------------------------------------------------------------------------
(***************************************************************************)
(* Users and the rest of the cluster                                       *)
(***************************************************************************)

Edit == edits < MaxEdits /\ edits' = edits + 1

\* A write of the resource by a user outdates every copy of it.
UserWrite ==
    /\ Edit
    /\ fresh' = FALSE /\ cacheFresh' = FALSE /\ genEvent' = TRUE
    /\ UNCHANGED <<clusterVars, istio, secret, shoot, cache, notif, polCache,
                   queueVars, memVars, fn, inst, loopVars, outcome, delFailed, faults>>

CreateCR ==
    /\ ~cr.exists
    /\ \E spec \in UserSpecs : cr' = NewCR(spec)
    /\ UserWrite

EditCR ==
    /\ cr.exists
    /\ \E spec \in UserSpecs \ {cr.spec} : cr' = [cr EXCEPT !.spec = spec]
    /\ UserWrite

\* A resource with a finalizer only gets its deletion timestamp.
DeleteCR ==
    /\ cr.exists /\ ~cr.deleting
    /\ cr' = IF cr.finalizer THEN [cr EXCEPT !.deleting = TRUE] ELSE NoCR
    /\ UserWrite

\* The agent's secret is created or deleted: predicateCompassRtAgentSecret.
ToggleSecret ==
    /\ Edit /\ secret' = ~secret /\ notif' = TRUE
    /\ UNCHANGED <<cr, clusterVars, istio, shoot, cache, cacheFresh, genEvent, polCache,
                   queueVars, memVars, runVars, delFailed, faults>>

ChangeShoot ==
    /\ Edit /\ shoot' \in (Domains \cup {NoDomain, NoShootInfo}) \ {shoot}
    /\ UNCHANGED <<cr, clusterVars, istio, secret, cacheVars, queueVars, memVars, runVars,
                   delFailed, faults>>

\* The Istio CRDs disappear only when no object of them is left: the
\* deletion-hook finalizers hold the CRDs back.
ToggleIstio ==
    /\ Edit
    /\ istio => \A d \in Deps : content[d] = Absent
    /\ istio' = ~istio
    /\ UNCHANGED <<cr, clusterVars, secret, shoot, cacheVars, queueVars, memVars, runVars,
                   delFailed, faults>>

\* The Deployment controller rolls a workload out, or it breaks.
BecomeAvailable(w) ==
    /\ content[w] # Absent /\ w \notin avail
    /\ avail' = avail \cup {w}
    /\ notif' = (notif \/ w \in Labelled)
    /\ UNCHANGED <<cr, content, hooked, pols, envVars, cache, cacheFresh, genEvent,
                   polCache, queueVars, memVars, runVars, delFailed, faults>>

LoseAvailable(w) ==
    /\ Edit /\ w \in avail
    /\ avail' = avail \ {w}
    /\ notif' = (notif \/ w \in Labelled)
    /\ UNCHANGED <<cr, content, hooked, pols, istio, secret, shoot, cache, cacheFresh,
                   genEvent, polCache, queueVars, memVars, runVars, delFailed, faults>>

\* Someone deletes an object of the module behind the manager's back.
Drift(o) ==
    /\ Edit /\ content[o] # Absent
    /\ content' = [content EXCEPT ![o] = Absent]
    /\ avail' = avail \ {o}
    /\ notif' = (notif \/ IsWatched(o))
    /\ UNCHANGED <<cr, hooked, pols, istio, secret, shoot, cache, cacheFresh, genEvent,
                   polCache, queueVars, memVars, runVars, delFailed, faults>>

Environment ==
    \/ CreateCR \/ EditCR \/ DeleteCR
    \/ ToggleSecret \/ ChangeShoot \/ ToggleIstio
    \/ \E w \in Workloads : BecomeAvailable(w) \/ LoseAvailable(w)
    \/ \E o \in Objs : Drift(o)

Next ==
    \/ Reconcile \/ ReconcileNotFound \/ Run
    \/ DeliverCR \/ mapFunction \/ DeliverPolicies \/ RequeueTimer \/ Restart
    \/ Environment

Spec == Init /\ [][Next]_vars

(***************************************************************************)
(* The manager keeps running: a queued key is reconciled, the informers    *)
(* catch up, timers fire.  Users, faults and restarts are owed nothing.    *)
(***************************************************************************)
Fairness ==
    /\ WF_vars(Reconcile \/ Run)
    /\ WF_vars(DeliverCR) /\ WF_vars(mapFunction)
    /\ WF_vars(DeliverPolicies) /\ WF_vars(RequeueTimer)

FairSpec == Spec /\ Fairness

\* The Deployment controller eventually rolls out what was applied.
Rollout == \A w \in Workloads : WF_vars(BecomeAvailable(w))

-----------------------------------------------------------------------------
(***************************************************************************)
(* Properties                                                              *)
(***************************************************************************)

\* No object of the module is created or changed, and no network policy created
\* or removed, while the resource lacks the finalizer: whatever sFnApply
\* installs, a deletion will find, and whatever policies a deletion leaves are
\* there until the module is installed again.  It rests on sFnInitialize ending
\* the run that adds the finalizer, on the refusal of outdated copies, and on
\* the informer never going back in time.
PatchOnlyUnderFinalizer ==
    [][(\/ \E o \in Manifests : content'[o] \notin {content[o], Absent}
        \/ pols' # pols) => cr.exists /\ cr.finalizer]_vars

\* When the resource has lost its finalizer, the only manifests of r.Objs and
\* r.Deps left are those whose last Delete call failed: the Istio finalizers
\* were taken off first and no run has applied anything since.  It says nothing
\* of the network policies (r.OptionalObjs): deleteResourcesWithFilter does not
\* visit them, and those that are there when the finalizer goes stay.
OnlyFailedDeletesLeak ==
    ~cr.finalizer => \A o \in Manifests : content[o] # Absent => o \in delFailed

\* Once the status says that the deletion has begun, no reconciliation, not
\* even one working on an outdated copy, installs anything any more.
NoInstallAfterDeletionBegan ==
    [][cr.deleting /\ isDeleting(cr.reason) =>
          /\ \A o \in Manifests : content'[o] \in {content[o], Absent}
          /\ pols' = pols]_vars

\* Ready is written only for the spec the resource has at that moment: every
\* object was patched with it (or deleted by someone since), every workload
\* was seen available, and enabled network policies are there.
ReadyMatchesSpec ==
    [][cr.reason # "Verified" /\ cr'.reason = "Verified" =>
          /\ ~cr.deleting
          /\ seen = Workloads
          /\ manifest.cfg = cr.spec.cfg
          /\ cr.spec.domain # NoDomain => manifest.domain = cr.spec.domain
          /\ \A o \in Manifests : content[o] \in {manifest, Absent}
          /\ cr.spec.np => pols = Policies]_vars

\* DepsACK is set only when the watch of every Istio object is registered,
\* also when an earlier attempt failed half-way or the process restarted.
AckedDepsAreWatched == ack => watched = Deps

\* The rendering the resource asks for.
Wanted(o) ==
    [domain |-> IF cr.spec.domain # NoDomain THEN cr.spec.domain ELSE shoot,
     cfg |-> cr.spec.cfg, replicas |-> buildUpdateCompassRuntimeAgent]

Installable == /\ cr.exists /\ ~cr.deleting /\ istio
               /\ cr.spec.domain # NoDomain \/ shoot # NoShootInfo

\* After the last change and the last fault the module settles, provided that
\* its workloads come up: the resource
\* is Ready, every object holds what the spec, the secret and the cluster's
\* domain, be it empty, ask for, and the network policies are there exactly if enabled, in
\* spite of lost events, outdated copies and a stale list of policies.
Converges ==
    Rollout => <>[](Installable =>
                       /\ cr.reason = "Verified"
                       /\ \A o \in Manifests : content[o] = Wanted(o)
                       /\ pols = IF cr.spec.np THEN Policies ELSE {})

\* With Istio on the cluster a deletion comes to an end.
DeletionCompletes == <>[]istio => (cr.deleting ~> ~cr.deleting)

\* A workload that stays unavailable does not stay hidden behind Ready.
OutageReported ==
    <>[](Installable /\ avail # Workloads) => <>[](cr.reason # "Verified")

\* Cfg: "the Finalizer identifies the module and is used to delete the module
\* resources".  An error of Delete is overwritten by the next iteration, so
\* the finalizer goes while resources stay.
FinalizerDeletesResources ==
    ~cr.exists => \A o \in Manifests : content[o] = Absent
=============================================================================
