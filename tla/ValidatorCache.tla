--------------------------- MODULE ValidatorCache ---------------------------
(***************************************************************************)
(* The Central Application Connectivity Validator                          *)
(* (components/central-application-connectivity-validator): the cache of   *)
(* Applications, filled by Init in a goroutine of its own and by the       *)
(* controller's Sync, and read twice by every request.                     *)
(*                                                                         *)
(* Sync and Init read the informer's copies first and write the cache      *)
(* afterwards; between the two the other one, and the cluster, go on.      *)
(***************************************************************************)
EXTENDS Naturals, FiniteSets

CONSTANTS
    Apps,        \* names of Applications
    ClientIds,   \* client IDs that an Application may list
    Requests,    \* requests in flight
    NoApp,       \* an Application that does not exist
    NotCached,   \* no entry in the cache
    Idle,        \* the controller's worker has nothing to do
    MaxEdits,    \* bound: changes of Applications
    MaxFaults    \* bound: failing reads and restarts of the process

\* ids is empty for an Application without CompassMetadata.
Applications == [ids : SUBSET ClientIds, deleting : BOOLEAN]

\* An entry of the cache; its path prefixes follow from the name.
CachedAppData == [ClientIDs : SUBSET ClientIds]

\* A Sync under way: the Application and what Get returned.
Jobs == [app : Apps, got : Applications \cup {NoApp}]

\* CommonNames of the subjects in X-Forwarded-Client-Cert.
CommonNames == Apps \cup ClientIds

ASSUME ValuesAssumption == /\ NoApp \notin Applications
                           /\ NotCached \notin CachedAppData
                           /\ Idle \notin Jobs
ASSUME LimitsAssumption == MaxEdits \in Nat /\ MaxFaults \in Nat

VARIABLES
    apps,      \* the Applications on the API server
    informer,  \* the copies the manager's client reads
    queue,     \* names in the work queue of the controller
    worker,    \* the Sync under way: its Application and what Get returned
    init,      \* "waiting", "syncing", "done"
    listed,    \* what List returned to Init
    todo,      \* the Applications of listed that Init has not synced yet
    appCache,  \* client IDs per Application
    req,       \* requests
    known,     \* history: the client IDs each Application has had
    edits, faults

clusterVars == <<apps, known, edits>>
initVars == <<init, listed, todo>>
vars == <<clusterVars, informer, queue, worker, initVars, appCache, req, faults>>

\* A request: its Application, the CommonNames it presents, how far it is, and
\* the client IDs it was checked with.
ReqStates == [app : Apps, cns : SUBSET CommonNames,
              pc : {"idle", "received", "validated", "forwarded", "rejected"},
              ids : SUBSET ClientIds]

\* Every variable has its type.
CacheTypeOK ==
    /\ apps \in [Apps -> Applications \cup {NoApp}]
    /\ informer \in [Apps -> Applications \cup {NoApp}]
    /\ queue \subseteq Apps
    /\ worker \in Jobs \cup {Idle}
    /\ init \in {"waiting", "syncing", "done"}
    /\ listed \in [Apps -> Applications \cup {NoApp}]
    /\ todo \subseteq Apps
    /\ appCache \in [Apps -> CachedAppData \cup {NotCached}]
    /\ req \in [Requests -> ReqStates]
    /\ known \in [Apps -> SUBSET SUBSET ClientIds]
    /\ edits \in 0..MaxEdits /\ faults \in 0..MaxFaults

NoneListed == [a \in Apps |-> NoApp]
Present(copies) == {a \in Apps : copies[a] # NoApp}

Init ==
    /\ apps \in [Apps -> {NoApp} \cup [ids : SUBSET ClientIds, deleting : {FALSE}]]
    /\ informer = apps /\ queue = Present(apps)
    /\ worker = Idle
    /\ init = "waiting" /\ listed = NoneListed /\ todo = {}
    /\ appCache = [a \in Apps |-> NotCached]
    /\ req \in [Requests -> {s \in ReqStates : s.pc = "idle" /\ s.cns = {} /\ s.ids = {}}]
    /\ known = [a \in Apps |-> IF apps[a] = NoApp THEN {} ELSE {apps[a].ids}]
    /\ edits = 0 /\ faults = 0

Fault == faults < MaxFaults /\ faults' = faults + 1

-----------------------------------------------------------------------------
(* The cache: syncApplication, Sync, Init *)

\* Mutant: the resource itself is cached, which the handler's type assertion refuses.
getAppDataUnconverted(app) == app

getAppDataFromResource(app) == [ClientIDs |-> app.ids]

\* Mutant: Add instead of Set, which keeps an entry that is there.
syncApplicationByAdd(cache, a, app) ==
    [cache EXCEPT ![a] = IF app.deleting THEN NotCached
                         ELSE IF @ # NotCached THEN @ ELSE getAppDataFromResource(app)]

\* Mutant: an Application in graceful deletion loses its client IDs, not its entry.
syncApplicationEmptying(cache, a, app) ==
    [cache EXCEPT ![a] = IF app.deleting THEN [ClientIDs |-> {}] ELSE getAppDataFromResource(app)]

\* An Application in graceful deletion leaves the cache.
syncApplication(cache, a, app) ==
    [cache EXCEPT ![a] = IF app.deleting THEN NotCached ELSE getAppDataFromResource(app)]

\* The worker takes a name and reads the informer's copy; an error of Get is
\* returned and retried.
SyncGet(a) ==
    /\ worker = Idle /\ a \in queue
    /\ \/ /\ worker' = [app |-> a, got |-> informer[a]]
          /\ queue' = queue \ {a} /\ UNCHANGED faults
       \/ Fault /\ UNCHANGED <<worker, queue>>
    /\ UNCHANGED <<clusterVars, informer, initVars, appCache, req>>

\* Mutant: NotFound is ignored and the entry stays.
SyncApplyKeeping ==
    /\ worker # Idle /\ worker' = Idle
    /\ appCache' = IF worker.got = NoApp THEN appCache
                   ELSE syncApplication(appCache, worker.app, worker.got)
    /\ UNCHANGED <<clusterVars, informer, queue, initVars, req, faults>>

SyncApply ==
    /\ worker # Idle /\ worker' = Idle
    /\ appCache' = IF worker.got = NoApp THEN [appCache EXCEPT ![worker.app] = NotCached]
                   ELSE syncApplication(appCache, worker.app, worker.got)
    /\ UNCHANGED <<clusterVars, informer, queue, initVars, req, faults>>

\* Once the informer is in sync Init lists the Applications; an error of List
\* is logged and nothing is synced.
InitList ==
    /\ init = "waiting" /\ init' = "syncing"
    /\ \/ listed' = informer /\ todo' = Present(informer) /\ UNCHANGED faults
       \/ Fault /\ UNCHANGED <<listed, todo>>
    /\ UNCHANGED <<clusterVars, informer, queue, worker, appCache, req>>

InitSync(a) ==
    /\ init = "syncing" /\ a \in todo
    /\ todo' = todo \ {a}
    /\ appCache' = syncApplication(appCache, a, listed[a])
    /\ UNCHANGED <<clusterVars, informer, queue, worker, init, listed, req, faults>>

InitDone ==
    /\ init = "syncing" /\ todo = {} /\ init' = "done"
    /\ listed' = NoneListed
    /\ UNCHANGED <<clusterVars, informer, queue, worker, todo, appCache, req, faults>>

-----------------------------------------------------------------------------
(* Informer, resync, process *)

Deliver(a) ==
    /\ informer[a] # apps[a]
    /\ informer' = [informer EXCEPT ![a] = apps[a]]
    /\ queue' = queue \cup {a}
    /\ UNCHANGED <<clusterVars, worker, initVars, appCache, req, faults>>

\* SyncPeriod: every Application the informer knows is reconciled again.
Resync ==
    /\ Present(informer) \ queue # {}
    /\ queue' = queue \cup Present(informer)
    /\ UNCHANGED <<clusterVars, informer, worker, initVars, appCache, req, faults>>

\* The process starts again with an empty cache.
Restart ==
    /\ Fault
    /\ informer' = apps /\ queue' = Present(apps) /\ worker' = Idle
    /\ init' = "waiting" /\ listed' = NoneListed /\ todo' = {}
    /\ appCache' = [a \in Apps |-> NotCached]
    /\ req' = [r \in Requests |-> [app |-> req[r].app, cns |-> {}, pc |-> "idle", ids |-> {}]]
    /\ UNCHANGED clusterVars

-----------------------------------------------------------------------------
(* Requests: ProxyAppConnectorRequests *)

Receive(r) ==
    /\ req[r].pc = "idle"
    /\ \E a \in Apps, cns \in SUBSET CommonNames :
          req' = [req EXCEPT ![r] = [app |-> a, cns |-> cns, pc |-> "received", ids |-> {}]]
    /\ UNCHANGED <<clusterVars, informer, queue, worker, initVars, appCache, faults>>

\* newSubjectValidator: without client IDs the name of the Application counts.
hasValidSubject(cns, ids, a) == IF ids = {} THEN a \in cns ELSE cns \cap ids # {}

\* Mutant: a missing entry counts as one without client IDs.
ValidateUncached(r) ==
    /\ req[r].pc = "received"
    /\ LET a == req[r].app
           ids == IF appCache[a] = NotCached THEN {} ELSE appCache[a].ClientIDs
       IN req' = [req EXCEPT ![r].pc = IF hasValidSubject(req[r].cns, ids, a)
                                       THEN "validated" ELSE "rejected",
                             ![r].ids = ids]
    /\ UNCHANGED <<clusterVars, informer, queue, worker, initVars, appCache, faults>>

\* First read of the cache: getCompassMetadataClientIDs, then the subjects.
Validate(r) ==
    /\ req[r].pc = "received"
    /\ LET a == req[r].app IN
       \/ /\ appCache[a] = NotCached
          /\ req' = [req EXCEPT ![r].pc = "rejected"]
       \/ /\ appCache[a] # NotCached
          /\ req' = [req EXCEPT ![r].pc = IF hasValidSubject(req[r].cns, appCache[a].ClientIDs, a)
                                          THEN "validated" ELSE "rejected",
                                ![r].ids = appCache[a].ClientIDs]
    /\ UNCHANGED <<clusterVars, informer, queue, worker, initVars, appCache, faults>>

\* Second read of the cache: the path prefixes of the entry decide where the
\* request goes, or that it goes nowhere.
mapRequestToProxy(r) ==
    /\ req[r].pc = "validated"
    /\ \/ appCache[req[r].app] # NotCached /\ req' = [req EXCEPT ![r].pc = "forwarded"]
       \/ req' = [req EXCEPT ![r].pc = "rejected"]
    /\ UNCHANGED <<clusterVars, informer, queue, worker, initVars, appCache, faults>>

Finish(r) ==
    /\ req[r].pc \in {"forwarded", "rejected"}
    /\ req' = [req EXCEPT ![r] = [app |-> @.app, cns |-> {}, pc |-> "idle", ids |-> {}]]
    /\ UNCHANGED <<clusterVars, informer, queue, worker, initVars, appCache, faults>>

-----------------------------------------------------------------------------
(* Applications are created, updated and deleted by the runtime agent *)

Write(a, app) ==
    /\ edits < MaxEdits /\ edits' = edits + 1
    /\ apps' = [apps EXCEPT ![a] = app]
    /\ known' = IF app = NoApp THEN known ELSE [known EXCEPT ![a] = @ \cup {app.ids}]
    /\ UNCHANGED <<informer, queue, worker, initVars, appCache, req, faults>>

Put(a) == /\ apps[a] # NoApp => ~apps[a].deleting
          /\ \E ids \in SUBSET ClientIds :
                /\ apps[a] # [ids |-> ids, deleting |-> FALSE]
                /\ Write(a, [ids |-> ids, deleting |-> FALSE])

\* With or without a graceful deletion first.
Remove(a) == apps[a] # NoApp /\ Write(a, NoApp)
MarkDeleted(a) == /\ apps[a] # NoApp /\ ~apps[a].deleting
                  /\ Write(a, [apps[a] EXCEPT !.deleting = TRUE])

Controller == \E a \in Apps : SyncGet(a)
Initialisation == InitList \/ (\E a \in Apps : InitSync(a)) \/ InitDone
Serving == \E r \in Requests : Receive(r) \/ Validate(r) \/ mapRequestToProxy(r) \/ Finish(r)
Cluster == \E a \in Apps : Put(a) \/ Remove(a) \/ MarkDeleted(a)

Next == \/ Controller \/ SyncApply \/ Initialisation \/ Serving \/ Cluster
        \/ (\E a \in Apps : Deliver(a)) \/ Resync \/ Restart

CacheSpec == Init /\ [][Next]_vars

\* Worker, goroutine and informer go on, and the resync comes round.  A queued
\* name is not passed over forever: the queue is first-in first-out.
CacheFairSpec ==
    /\ CacheSpec
    /\ \A a \in Apps : SF_vars(SyncGet(a) /\ worker' # Idle) /\ WF_vars(Deliver(a))
    /\ WF_vars(SyncApply) /\ WF_vars(Initialisation) /\ WF_vars(Resync)

-----------------------------------------------------------------------------
(* Properties *)

\* A request is forwarded only on client IDs that its Application has really
\* had: never on a missing entry, which counts as not found and not as an
\* Application without client IDs (whose own name would be accepted).
ForwardedOnKnownIds ==
    \A r \in Requests : req[r].pc \in {"validated", "forwarded"} =>
        /\ req[r].ids \in known[req[r].app]
        /\ hasValidSubject(req[r].cns, req[r].ids, req[r].app)

\* What a copy of Application a says about client IDs was true at some time.
WasTrue(a, copy) == copy # NoApp => copy.ids \in known[a]

\* Every place between the API server and a decision on a request (informer,
\* the list of Init, the Sync under way, the cache) holds only client IDs that
\* the Application has had, whatever the order in which Init and Sync write;
\* Init applies only Applications that were in its list.
CachedIdsWereTrue ==
    /\ \A a \in Apps :
          /\ WasTrue(a, apps[a]) /\ WasTrue(a, informer[a]) /\ WasTrue(a, listed[a])
          /\ appCache[a] # NotCached => appCache[a].ClientIDs \in known[a]
    /\ worker # Idle => WasTrue(worker.app, worker.got)
    /\ todo \subseteq Present(listed)

CacheInv == CacheTypeOK /\ CachedIdsWereTrue /\ ForwardedOnKnownIds

\* An Application that stays unchanged is eventually cached as it is, although
\* Init may overwrite a newer entry with what it listed before.
CacheCatchesUp ==
    \A a \in Apps, ids \in SUBSET ClientIds :
        <>[](apps[a] = [ids |-> ids, deleting |-> FALSE]) => <>[](appCache[a] = [ClientIDs |-> ids])

\* An Application that the informer holds when Init has finished, and that is
\* deleted later, leaves the cache: its deletion is an event.  (One that comes
\* and goes between two deliveries never is, and what Init put back stays.)
DeletedAppsLeave ==
    \A a \in Apps :
        <>(init = "done" /\ informer[a] # NoApp /\ [](init = "done"))
            /\ <>[](apps[a] = NoApp \/ apps[a].deleting)
        => <>[](appCache[a] = NotCached)
=============================================================================
