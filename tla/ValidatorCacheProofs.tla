------------------------ MODULE ValidatorCacheProofs ------------------------
(***************************************************************************)
(* Proofs about ValidatorCache, for all sets of Applications, client IDs   *)
(* and requests.  CacheInv is inductive: a decision on a request rests on  *)
(* the cache, the cache on what Sync and Init have read, and what they     *)
(* have read on the informer.                                              *)
(***************************************************************************)
EXTENDS ValidatorCache, TLAPS

USE ValuesAssumption, LimitsAssumption

\* The cache is empty and the copies are those of the API server at the start.
LEMMA InitCache == Init => CacheInv
<1> SUFFICES ASSUME Init PROVE CacheInv
  OBVIOUS
<1>1. apps \in [Apps -> Applications \cup {NoApp}]
  BY DEF Init, Applications
<1>2. known \in [Apps -> SUBSET SUBSET ClientIds]
  BY <1>1 DEF Init, Applications
<1>3. CacheTypeOK
  BY <1>1, <1>2 DEF Init, CacheTypeOK, NoneListed, Present, ReqStates
<1>4. CachedIdsWereTrue
  BY <1>1 DEF Init, CachedIdsWereTrue, WasTrue, NoneListed, Present
<1>5. ForwardedOnKnownIds
  BY DEF Init, ForwardedOnKnownIds, ReqStates
<1> QED BY <1>3, <1>4, <1>5 DEF CacheInv

\* Whatever the cluster does to an Application is a write of one.
LEMMA ClusterWrites ==
    ASSUME CacheTypeOK, NEW a \in Apps, Put(a) \/ Remove(a) \/ MarkDeleted(a)
    PROVE  \E app \in Applications \cup {NoApp} : Write(a, app)
<1>1. CASE Put(a)
  <2>1. PICK ids \in SUBSET ClientIds : Write(a, [ids |-> ids, deleting |-> FALSE])
    BY <1>1 DEF Put
  <2>2. [ids |-> ids, deleting |-> FALSE] \in Applications
    BY DEF Applications
  <2> QED BY <2>1, <2>2
<1>2. CASE Remove(a)
  BY <1>2 DEF Remove
<1>3. CASE MarkDeleted(a)
  <2>1. apps[a] \in Applications
    BY <1>3 DEF MarkDeleted, CacheTypeOK
  <2>2. [apps[a] EXCEPT !.deleting = TRUE] \in Applications
    BY <2>1 DEF Applications
  <2> QED BY <1>3, <2>2 DEF MarkDeleted
<1> QED BY <1>1, <1>2, <1>3

\* Every step of the validator and of the cluster keeps the types.
LEMMA TypeStep == CacheInv /\ [Next]_vars => CacheTypeOK'
<1> SUFFICES ASSUME CacheInv, [Next]_vars PROVE CacheTypeOK'
  OBVIOUS
<1> USE DEF CacheInv
<1> USE DEF clusterVars, initVars
<1>1. ASSUME NEW a \in Apps, SyncGet(a) PROVE CacheTypeOK'
  BY <1>1 DEF SyncGet, Fault, CacheTypeOK, Jobs
<1>2. CASE SyncApply
  <2>1. ASSUME worker.got # NoApp
        PROVE  worker.app \in Apps /\ worker.got \in Applications
    BY <1>2, <2>1 DEF SyncApply, CacheTypeOK, Jobs
  <2>2. appCache' \in [Apps -> CachedAppData \cup {NotCached}]
    BY <1>2, <2>1 DEF SyncApply, CacheTypeOK, syncApplication,
                      getAppDataFromResource, Applications, CachedAppData
  <2> QED BY <1>2, <2>2 DEF SyncApply, CacheTypeOK
<1>3. CASE InitList
  BY <1>3 DEF InitList, Fault, CacheTypeOK, Present
<1>4. ASSUME NEW a \in Apps, InitSync(a) PROVE CacheTypeOK'
  <2>1. listed[a] \in Applications
    BY <1>4 DEF InitSync, CacheTypeOK, CachedIdsWereTrue, Present
  <2>2. appCache' \in [Apps -> CachedAppData \cup {NotCached}]
    BY <1>4, <2>1 DEF InitSync, CacheTypeOK, syncApplication,
                      getAppDataFromResource, Applications, CachedAppData
  <2> QED BY <1>4, <2>2 DEF InitSync, CacheTypeOK
<1>5. CASE InitDone
  BY <1>5 DEF InitDone, CacheTypeOK, NoneListed
<1>6. ASSUME NEW r \in Requests, Receive(r) PROVE CacheTypeOK'
  BY <1>6 DEF Receive, CacheTypeOK, ReqStates
<1>7. ASSUME NEW r \in Requests, Validate(r) PROVE CacheTypeOK'
  <2>1. req[r] \in ReqStates /\ req[r].app \in Apps
    BY DEF CacheTypeOK, ReqStates
  <2>2. ASSUME appCache[req[r].app] # NotCached
        PROVE  appCache[req[r].app].ClientIDs \in SUBSET ClientIds
    BY <2>1, <2>2 DEF CacheTypeOK, CachedAppData
  <2>3. req' \in [Requests -> ReqStates]
    BY <1>7, <2>1, <2>2 DEF Validate, CacheTypeOK, ReqStates
  <2> QED BY <1>7, <2>3 DEF Validate, CacheTypeOK
<1>8. ASSUME NEW r \in Requests, mapRequestToProxy(r) PROVE CacheTypeOK'
  BY <1>8 DEF mapRequestToProxy, CacheTypeOK, ReqStates
<1>9. ASSUME NEW r \in Requests, Finish(r) PROVE CacheTypeOK'
  BY <1>9 DEF Finish, CacheTypeOK, ReqStates
<1>10. ASSUME NEW a \in Apps, NEW app \in Applications \cup {NoApp}, Write(a, app)
       PROVE  CacheTypeOK'
  <2>1. known' \in [Apps -> SUBSET SUBSET ClientIds]
    BY <1>10 DEF Write, CacheTypeOK, Applications
  <2> QED BY <1>10, <2>1 DEF Write, CacheTypeOK
<1>11. ASSUME NEW a \in Apps, Put(a) \/ Remove(a) \/ MarkDeleted(a)
       PROVE  \E app \in Applications \cup {NoApp} : Write(a, app)
  BY <1>11, ClusterWrites
<1>12. ASSUME NEW a \in Apps, Deliver(a) PROVE CacheTypeOK'
  BY <1>12 DEF Deliver, CacheTypeOK
<1>13. CASE Resync
  BY <1>13 DEF Resync, CacheTypeOK, Present
<1>14. CASE Restart
  BY <1>14 DEF Restart, Fault, CacheTypeOK, Present, NoneListed, ReqStates
<1>15. CASE UNCHANGED vars
  BY <1>15 DEF vars, CacheTypeOK
<1> QED
  BY <1>1, <1>2, <1>3, <1>4, <1>5, <1>6, <1>7, <1>8, <1>9, <1>10, <1>11, <1>12,
     <1>13, <1>14, <1>15
     DEF Next, Controller, Initialisation, Serving, Cluster

\* What is copied from one place to the next was true where it came from, and
\* what was true stays in the history.
LEMMA CopiesStep == CacheInv /\ [Next]_vars => CachedIdsWereTrue'
<1> SUFFICES ASSUME CacheInv, [Next]_vars PROVE CachedIdsWereTrue'
  OBVIOUS
<1> USE DEF CacheInv, clusterVars, initVars
<1>1. ASSUME NEW a \in Apps, SyncGet(a) PROVE CachedIdsWereTrue'
  BY <1>1 DEF SyncGet, CacheTypeOK, CachedIdsWereTrue, WasTrue, Present, Jobs
<1>2. CASE SyncApply
  BY <1>2 DEF SyncApply, CacheTypeOK, CachedIdsWereTrue, WasTrue, Present, Jobs,
              syncApplication, getAppDataFromResource
<1>3. CASE InitList
  BY <1>3 DEF InitList, CacheTypeOK, CachedIdsWereTrue, WasTrue, Present
<1>4. ASSUME NEW a \in Apps, InitSync(a) PROVE CachedIdsWereTrue'
  BY <1>4 DEF InitSync, CacheTypeOK, CachedIdsWereTrue, WasTrue, Present,
              syncApplication, getAppDataFromResource
<1>5. CASE InitDone
  BY <1>5 DEF InitDone, CacheTypeOK, CachedIdsWereTrue, WasTrue, Present, NoneListed
<1>6. ASSUME NEW r \in Requests, Receive(r) \/ Validate(r) \/ mapRequestToProxy(r) \/ Finish(r)
      PROVE  CachedIdsWereTrue'
  BY <1>6 DEF Receive, Validate, mapRequestToProxy, Finish, CachedIdsWereTrue, WasTrue, Present
<1>7. ASSUME NEW a \in Apps, NEW app \in Applications \cup {NoApp}, Write(a, app)
      PROVE  CachedIdsWereTrue'
  <2>1. \A b \in Apps : known[b] \subseteq known'[b]
    BY <1>7 DEF Write, CacheTypeOK
  <2>2. app # NoApp => app.ids \in known'[a]
    BY <1>7 DEF Write, CacheTypeOK
  <2>3. apps' = [apps EXCEPT ![a] = app]
    BY <1>7 DEF Write
  <2>4. UNCHANGED <<informer, worker, listed, todo, appCache>>
    BY <1>7 DEF Write
  <2>5. worker # Idle => worker.app \in Apps
    BY DEF CacheTypeOK, Jobs
  <2> QED BY <2>1, <2>2, <2>3, <2>4, <2>5
          DEF CacheTypeOK, CachedIdsWereTrue, WasTrue, Present
<1>8. ASSUME NEW a \in Apps, Put(a) \/ Remove(a) \/ MarkDeleted(a)
      PROVE  \E app \in Applications \cup {NoApp} : Write(a, app)
  BY <1>8, ClusterWrites
<1>9. ASSUME NEW a \in Apps, Deliver(a) PROVE CachedIdsWereTrue'
  BY <1>9 DEF Deliver, CacheTypeOK, CachedIdsWereTrue, WasTrue, Present
<1>10. CASE Resync
  BY <1>10 DEF Resync, CachedIdsWereTrue, WasTrue, Present
<1>11. CASE Restart
  BY <1>11 DEF Restart, CacheTypeOK, CachedIdsWereTrue, WasTrue, Present, NoneListed
<1>12. CASE UNCHANGED vars
  BY <1>12 DEF vars, CachedIdsWereTrue, WasTrue, Present
<1> QED
  BY <1>1, <1>2, <1>3, <1>4, <1>5, <1>6, <1>7, <1>8, <1>9, <1>10, <1>11, <1>12
     DEF Next, Controller, Initialisation, Serving, Cluster

\* A request passes only Validate into "validated", with what the cache holds.
LEMMA RequestStep == CacheInv /\ [Next]_vars => ForwardedOnKnownIds'
<1> SUFFICES ASSUME CacheInv, [Next]_vars PROVE ForwardedOnKnownIds'
  OBVIOUS
<1> USE DEF CacheInv, clusterVars, initVars
<1>1. ASSUME NEW r \in Requests, Receive(r) PROVE ForwardedOnKnownIds'
  BY <1>1 DEF Receive, CacheTypeOK, ForwardedOnKnownIds, hasValidSubject
<1>2. ASSUME NEW r \in Requests, Validate(r) PROVE ForwardedOnKnownIds'
  <2> DEFINE a == req[r].app
  <2>1. req[r] \in ReqStates /\ a \in Apps
    BY DEF CacheTypeOK, ReqStates
  <2>2. \A q \in Requests \ {r} : req'[q] = req[q]
    BY <1>2 DEF Validate, CacheTypeOK
  <2>3. ASSUME req'[r].pc \in {"validated", "forwarded"}
        PROVE  /\ req'[r].app = a /\ req'[r].cns = req[r].cns
               /\ appCache[a] # NotCached
               /\ req'[r].ids = appCache[a].ClientIDs
               /\ hasValidSubject(req[r].cns, appCache[a].ClientIDs, a)
    BY <1>2, <2>1, <2>3 DEF Validate, CacheTypeOK, ReqStates
  <2>4. appCache[a] # NotCached => appCache[a].ClientIDs \in known[a]
    BY <2>1 DEF CachedIdsWereTrue
  <2>5. known' = known
    BY <1>2 DEF Validate
  <2> QED BY <2>2, <2>3, <2>4, <2>5 DEF ForwardedOnKnownIds, hasValidSubject
<1>3. ASSUME NEW r \in Requests, mapRequestToProxy(r) PROVE ForwardedOnKnownIds'
  BY <1>3 DEF mapRequestToProxy, CacheTypeOK, ReqStates, ForwardedOnKnownIds, hasValidSubject
<1>4. ASSUME NEW r \in Requests, Finish(r) PROVE ForwardedOnKnownIds'
  BY <1>4 DEF Finish, CacheTypeOK, ReqStates, ForwardedOnKnownIds, hasValidSubject
<1>5. ASSUME NEW a \in Apps, NEW app \in Applications \cup {NoApp}, Write(a, app)
      PROVE  ForwardedOnKnownIds'
  <2>1. \A b \in Apps : known[b] \subseteq known'[b]
    BY <1>5 DEF Write, CacheTypeOK
  <2>2. \A r \in Requests : req[r].app \in Apps
    BY DEF CacheTypeOK, ReqStates
  <2>3. req' = req
    BY <1>5 DEF Write
  <2> QED BY <2>1, <2>2, <2>3 DEF ForwardedOnKnownIds, hasValidSubject
<1>6. ASSUME NEW a \in Apps, Put(a) \/ Remove(a) \/ MarkDeleted(a)
      PROVE  \E app \in Applications \cup {NoApp} : Write(a, app)
  BY <1>6, ClusterWrites
<1>7. CASE Restart
  BY <1>7 DEF Restart, CacheTypeOK, ReqStates, ForwardedOnKnownIds
<1>8. ASSUME UNCHANGED <<req, known>> PROVE ForwardedOnKnownIds'
  BY <1>8 DEF ForwardedOnKnownIds, hasValidSubject
<1>9. ASSUME NEW a \in Apps, SyncGet(a) \/ InitSync(a) \/ Deliver(a)
      PROVE  UNCHANGED <<req, known>>
  BY <1>9 DEF SyncGet, InitSync, Deliver
<1>10. SyncApply \/ InitList \/ InitDone \/ Resync \/ UNCHANGED vars
          => UNCHANGED <<req, known>>
  BY DEF SyncApply, InitList, InitDone, Resync, vars
<1> QED
  BY <1>1, <1>2, <1>3, <1>4, <1>5, <1>6, <1>7, <1>8, <1>9, <1>10
     DEF Next, Controller, Initialisation, Serving, Cluster

\* The invariant of the validator holds for every set of Applications, client
\* IDs and requests, and any number of changes and faults.
THEOREM CacheInvariant == CacheSpec => []CacheInv
<1>1. CacheInv /\ [Next]_vars => CacheInv'
  BY TypeStep, CopiesStep, RequestStep DEF CacheInv
<1> QED BY <1>1, InitCache, PTL DEF CacheSpec

\* Copies, cache and requests keep their types through Init, Sync and requests.
THEOREM CacheTypeCorrect == CacheSpec => []CacheTypeOK
BY CacheInvariant, PTL DEF CacheInv

\* However Init and Sync overtake each other, the cache never holds client IDs
\* that the Application has not had.
THEOREM CachedIdsAreTrue == CacheSpec => []CachedIdsWereTrue
BY CacheInvariant, PTL DEF CacheInv

\* ProxyAppConnectorRequests forwards a request only on client IDs that the
\* Application has had, with a subject that matches them.
THEOREM ForwardedIsJustified == CacheSpec => []ForwardedOnKnownIds
BY CacheInvariant, PTL DEF CacheInv
=============================================================================
