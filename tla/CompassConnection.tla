-------------------------- MODULE CompassConnection --------------------------
(***************************************************************************)
(* The Compass Runtime Agent: how it connects a Kyma runtime to Compass    *)
(* and keeps the connection (components/compass-runtime-agent,             *)
(* internal/compassconnection, internal/certificates, internal/compass).   *)
(*                                                                         *)
(* The agent trades the one-time token of its configuration secret for a   *)
(* certificate, stores it in two secrets, records its dates in the         *)
(* CompassConnection resource, keeps it in memory for its mTLS client, and *)
(* from then on renews it and fetches the Applications with it.  A         *)
(* reconciliation works on a cached copy of the resource; the              *)
(* initialisation reads the resource itself.  A write with an outdated     *)
(* copy is refused.                                                        *)
(*                                                                         *)
(* Certificates are numbered in the order the Connector issues them, 0 is  *)
(* none.  A time stamp is "recent" while the minimal synchronisation time  *)
(* has not passed since, then "old"; which of two stamps ages first is     *)
(* left open.                                                              *)
(***************************************************************************)
EXTENDS Naturals

CONSTANTS
    Urls,       \* Connector and Director URLs, a pair of them is one value
    NoUrl,      \* no URLs
    MaxFaults,  \* bound: failing calls and crashes
    MaxStale,   \* bound: reconciliations of one outdated copy
    MaxEdits    \* bound: steps of users, of Compass and of the certificates' age

ASSUME UrlsAssumption == NoUrl \notin Urls /\ Urls # {}
ASSUME BoundsAssumption == MaxFaults \in Nat /\ MaxStale \in Nat /\ MaxEdits \in Nat

States == {"", "Connected", "ConnectionFailed", "ConnectionMaintenanceFailed",
           "SynchronizationFailed", "ResourceApplicationFailed",
           "MetadataUpdateFailed", "Synchronized"}

CompassConnections ==
    [exists : BOOLEAN, state : States, cert : Nat, url : Urls \cup {NoUrl},
     resyncNow : BOOLEAN, refreshNow : BOOLEAN,
     lastSync : {"recent", "old"}, lastAttempt : {"none", "recent", "old"}]

NoConnection ==
    [exists |-> FALSE, state |-> "", cert |-> 0, url |-> NoUrl, resyncNow |-> FALSE,
     refreshNow |-> FALSE, lastSync |-> "old", lastAttempt |-> "none"]

ConnectionData == [cert : Nat, url : Urls \cup {NoUrl}]

NoData == [cert |-> 0, url |-> NoUrl]

Steps == {"down", "starting", "idle", "initialize", "establish", "sign", "saveCert",
          "saveCA", "put", "maintain", "renew", "report", "sync", "apply", "label",
          "update"}

Tasks == {"none", "create", "reestablish", "maintain"}

VARIABLES
    (* Compass and the cluster *)
    url,        \* the management URLs that the Connector tells its clients
    issued,     \* the last certificate the Connector issued
    due,        \* certificates up to this one are due for renewal
    expired,    \* certificates up to this one are no longer accepted
    token,      \* the configuration secret: "none", or a "fresh" or "spent" token
    conn,       \* the CompassConnection resource
    certSecret, \* the certificate in the cluster certificates secret
    caSecret,   \* the secret with the CA certificate exists
    (* the agent's informer and queue *)
    cache,      \* the informer's copy of the resource
    cacheFresh, \* it carries the current resourceVersion
    stale,      \* reconciliations started on it since it is outdated
    queued,     \* the key of the resource is in the work queue
    tick,       \* the resync period of the manager may end
    (* the agent's memory *)
    data,       \* connectionDataCache and, by subscription, the mTLS client
    booting,    \* main has not yet handed over to the manager
    (* the current call of the supervisor *)
    pc, task,
    inst,       \* the copy of the resource the call works on
    fresh,      \* inst carries the current resourceVersion
    newCert,    \* the certificate of the current SignCSR answer
    info,       \* the URLs of the current Configuration answer
    (* history and bounds *)
    served,     \* a fetch was started since resyncNow was last set
    faults, edits

compassVars == <<url, issued, due, expired>>
secretVars  == <<certSecret, caSecret>>
queueVars   == <<cache, cacheFresh, stale, queued>>
runVars     == <<pc, task, inst, fresh, newCert, info>>
vars == <<compassVars, token, conn, secretVars, queueVars, tick, data, booting, runVars,
          served, faults, edits>>

TypeOK ==
    /\ url \in Urls /\ issued \in Nat /\ due \in Nat /\ expired \in Nat
    /\ token \in {"none", "fresh", "spent"}
    /\ conn \in CompassConnections /\ cache \in CompassConnections
    /\ inst \in CompassConnections
    /\ certSecret \in Nat /\ caSecret \in BOOLEAN
    /\ cacheFresh \in BOOLEAN /\ stale \in 0..MaxStale
    /\ queued \in BOOLEAN /\ tick \in BOOLEAN
    /\ data \in ConnectionData /\ booting \in BOOLEAN
    /\ pc \in Steps /\ task \in Tasks /\ fresh \in BOOLEAN
    /\ newCert \in Nat /\ info \in Urls \cup {NoUrl}
    /\ conn.exists => conn.state # ""
    /\ served \in BOOLEAN
    /\ faults \in 0..MaxFaults /\ edits \in 0..MaxEdits

Init ==
    /\ url \in Urls /\ issued = 0 /\ due = 0 /\ expired = 0
    /\ token \in {"none", "fresh"}
    /\ conn = NoConnection /\ certSecret = 0 /\ caSecret = FALSE
    /\ cache = NoConnection /\ cacheFresh = FALSE /\ stale = 0
    /\ queued = FALSE /\ tick = TRUE
    /\ data = NoData /\ booting = FALSE
    /\ pc = "down" /\ task = "none" /\ inst = NoConnection /\ fresh = FALSE
    /\ newCert = 0 /\ info = NoUrl
    /\ served = TRUE /\ faults = 0 /\ edits = 0

-----------------------------------------------------------------------------
(* Faults, results of a call, and the connection status.                   *)

Fault == faults < MaxFaults /\ faults' = faults + 1

NoFault == UNCHANGED faults

GoTo(step) == pc' = step

\* The call is over: the run variables are dropped.
EndCall == task' = "none" /\ inst' = NoConnection /\ fresh' = FALSE
           /\ newCert' = 0 /\ info' = NoUrl

\* The call returned no error: main goes on to start the manager, a
\* reconciliation is done.
Finish ==
    /\ pc' = IF booting THEN "starting" ELSE "idle"
    /\ EndCall
    /\ UNCHANGED <<queueVars, data, booting>>

\* exitOnError of main, or a crash: what is not on the cluster is gone.
Exit ==
    /\ pc' = "down" /\ booting' = FALSE /\ data' = NoData
    /\ cache' = NoConnection /\ cacheFresh' = FALSE /\ stale' = 0
    /\ queued' = FALSE
    /\ EndCall

\* An error of a reconciliation puts the key back into the queue.
Requeue ==
    /\ pc' = "idle" /\ queued' = TRUE
    /\ EndCall
    /\ UNCHANGED <<cache, cacheFresh, stale, data, booting>>

Fail == IF booting THEN Exit ELSE Requeue

\* Mutant: a failed maintenance counts as a failed connection.
FailedOrUnmaintained(c) == c.state \in {"ConnectionFailed", "ConnectionMaintenanceFailed"}

Failed(c) == c.state = "ConnectionFailed"

\* Mutant: the request of a user is ignored.
ShouldRenewWhenDue(c) == c.cert <= due

ShouldRenewCertificate(c) == c.refreshNow \/ c.cert <= due

\* Mutant: failed connections are not tried again.
skipFailedConnections(c) == ~c.resyncNow /\ (c.lastSync = "recent" \/ Failed(c))

skipConnectionSync(c) == ~c.resyncNow /\ c.lastSync = "recent"

skipApplicationSync(c) == ~c.resyncNow /\ c.lastAttempt = "recent"

urlsUpdated(c, managementInfo) == c.url # managementInfo

\* Mutant: the state is not set.
setConnectionFailedTime(c) == [c EXCEPT !.lastSync = "recent"]

setConnectionFailedStatus(c) ==
    [c EXCEPT !.state = "ConnectionFailed", !.lastSync = "recent"]

setConnectionMaintenanceFailedStatus(c) ==
    [c EXCEPT !.state = "ConnectionMaintenanceFailed", !.lastSync = "recent"]

\* setSyncFailedStatus, and the inline equivalents for the later failures.
setSyncFailedStatus(c, state) == [c EXCEPT !.state = state, !.lastAttempt = "recent"]

\* Mutant: the request is not taken back.
setSynchronizedKeepingRequest(c) ==
    [c EXCEPT !.state = "Synchronized", !.lastAttempt = "recent"]

setConnectionSynchronizedStatus(c) ==
    [c EXCEPT !.state = "Synchronized", !.lastAttempt = "recent", !.resyncNow = FALSE]

\* The status after establishing: the dates of the certificate and the URLs.
Established(c, cert, managementInfo) ==
    [c EXCEPT !.state = "Connected", !.lastSync = "recent", !.cert = cert,
              !.url = managementInfo]

\* SetCertificateStatus and the flag that asked for the renewal.
SetCertificateStatus(c, cert) == [c EXCEPT !.cert = cert, !.refreshNow = FALSE]

\* The end of a successful maintenance; only the copy is changed.
Maintained(c) == [c EXCEPT !.lastSync = "recent"]

-----------------------------------------------------------------------------
(* Compass: one-time token, certificates, URLs; and the agent's clients.   *)

\* The Connector answers Configuration only to a fresh token, which it spends.
TokenAccepted == token = "fresh"

\* The Connector and the Director accept an mTLS client unless its
\* certificate has expired.
ClientAccepted == data.cert > expired

\* The clients exist once UpdateConnectionData was called.
GetConnectorCertSecuredClient == data.cert # 0

GetDirectorClient == data.cert # 0

\* Mutant: the client keeps its first certificate.
KeepFirstCertificate(cert, managementInfo) ==
    data' = [cert |-> IF data.cert = 0 THEN cert ELSE data.cert, url |-> managementInfo]

\* Every subscriber of connectionDataCache gets certificate and URLs together.
UpdateConnectionData(cert, managementInfo) ==
    data' = [cert |-> cert, url |-> managementInfo]

UpdateURLs(managementInfo) == data' = [data EXCEPT !.url = managementInfo]

\* A call of a Compass client that is not answered.
CallFails == Fault

\* No certificate is issued, or one is that the agent does not get or cannot read.
CreateCSRFails == Fault /\ UNCHANGED issued

NewCredentialsFails == Fault /\ issued' = issued + 1

CertificateIssued == issued' = issued + 1 /\ newCert' = issued + 1

-----------------------------------------------------------------------------
(* The secrets of the agent.                                               *)

GetConnectionConfig == token # "none"

GetRuntimeConfig == token # "none"

CredentialsExist == caSecret

\* What the cluster secret holds can be read back.
AsClientCredentials(cert) == cert # 0

\* The outcomes of UpsertWithMerge when it fails: not written, or written although
\* it reports an error.
Upserts(old, new) == {old, new}

-----------------------------------------------------------------------------
(* InitializeCompassConnection                                             *)

\* main: the process starts and calls InitializeCompassConnection first.
StartAgent ==
    /\ pc = "down"
    /\ pc' = "initialize" /\ booting' = TRUE
    /\ UNCHANGED <<compassVars, token, conn, secretVars, queueVars, tick, data, task, inst,
                   fresh, newCert, info, served, faults, edits>>

\* mgr.Start: the informer lists the resource; a list event queues the key.
StartManager ==
    /\ pc = "starting"
    /\ pc' = "idle" /\ booting' = FALSE
    /\ cache' = conn /\ cacheFresh' = TRUE /\ stale' = 0 /\ queued' = conn.exists
    /\ UNCHANGED <<compassVars, token, conn, secretVars, tick, data, task, inst, fresh,
                   newCert, info, served, faults, edits>>

\* Mutant: an established connection is left as it is.
ReadNothing == Finish

\* GetClientCredentials and UpdateConnectionData for an established connection.
ReadCredentials ==
    IF ~AsClientCredentials(certSecret)
    THEN Fail
    ELSE /\ UpdateConnectionData(certSecret, conn.url)
         /\ pc' = IF booting THEN "starting" ELSE "idle"
         /\ EndCall
         /\ UNCHANGED <<queueVars, booting>>

\* The resource itself is read, not the cached copy.
InitializeCompassConnection ==
    /\ pc = "initialize"
    /\ \/ /\ ~conn.exists
          /\ task' = "create" /\ inst' = [NoConnection EXCEPT !.exists = TRUE]
          /\ fresh' = TRUE /\ GoTo("establish")
          /\ NoFault /\ UNCHANGED <<queueVars, data, booting, newCert, info>>
       \/ /\ conn.exists /\ Failed(conn)
          /\ task' = "reestablish" /\ inst' = conn /\ fresh' = TRUE /\ GoTo("establish")
          /\ NoFault /\ UNCHANGED <<queueVars, data, booting, newCert, info>>
       \/ conn.exists /\ ~Failed(conn) /\ ReadCredentials /\ NoFault
       \/ Fault /\ Fail
    /\ UNCHANGED <<compassVars, token, conn, secretVars, tick, served, edits>>

\* A failure to establish is recorded in the copy, which is then written.
EstablishFailed ==
    /\ inst' = setConnectionFailedStatus(inst) /\ GoTo("put")
    /\ newCert' = 0 /\ info' = NoUrl
    /\ UNCHANGED <<task, fresh>>

\* GetConnectionConfig and Configuration with the token.  A call that fails may
\* have reached the Connector and spent the token.
FetchConfiguration ==
    /\ pc = "establish"
    /\ \/ /\ GetConnectionConfig /\ TokenAccepted /\ token' = "spent" /\ info' = url /\ GoTo("sign")
          /\ NoFault /\ UNCHANGED <<task, inst, fresh, newCert>>
       \/ ~TokenAccepted /\ EstablishFailed /\ NoFault /\ UNCHANGED token
       \/ CallFails /\ EstablishFailed /\ UNCHANGED token
       \/ TokenAccepted /\ CallFails /\ EstablishFailed /\ token' = "spent"
    /\ UNCHANGED <<compassVars, conn, secretVars, queueVars, tick, data, booting, served, edits>>

\* SignCSR with the token of the configuration; the answer may be lost or
\* unusable (NewCredentials).
SignCSR ==
    /\ pc = "sign"
    /\ \/ /\ CertificateIssued /\ GoTo("saveCert")
          /\ NoFault /\ UNCHANGED <<task, inst, fresh, info>>
       \/ EstablishFailed /\ (CreateCSRFails \/ NewCredentialsFails)
    /\ UNCHANGED <<url, due, expired, token, conn, secretVars, queueVars, tick, data, booting,
                   served, edits>>

MaintenanceFailed ==
    /\ inst' = setConnectionMaintenanceFailedStatus(inst) /\ GoTo("report")
    /\ newCert' = 0 /\ info' = NoUrl
    /\ UNCHANGED <<task, fresh>>

\* Mutant: the error is ignored.
PreserveErrorIgnored == GoTo("saveCA") /\ UNCHANGED <<task, inst, fresh, newCert, info>>

PreserveFailed == IF task = "maintain" THEN MaintenanceFailed ELSE EstablishFailed

\* PreserveCredentials, first the certificate and its key.  A failed call may
\* have written the secret.
saveClusterCertificateAndKey ==
    /\ pc = "saveCert"
    /\ \/ /\ certSecret' = newCert /\ GoTo("saveCA")
          /\ NoFault /\ UNCHANGED <<task, inst, fresh, newCert, info>>
       \/ Fault /\ PreserveFailed /\ certSecret' \in Upserts(certSecret, newCert)
    /\ UNCHANGED <<compassVars, token, conn, caSecret, queueVars, tick, data,
                   booting, served, edits>>

\* Then the CA certificate; with both stored, memory and copy are brought up to date.
saveCACertificate ==
    /\ pc = "saveCA"
    /\ \/ /\ caSecret' = TRUE
          /\ UpdateConnectionData(newCert, info)
          /\ IF task = "maintain"
             THEN inst' = Maintained(SetCertificateStatus(inst, newCert)) /\ GoTo("sync")
             ELSE inst' = Established(inst, newCert, info) /\ GoTo("put")
          /\ newCert' = 0 /\ info' = NoUrl
          /\ NoFault /\ UNCHANGED <<task, fresh>>
       \/ Fault /\ PreserveFailed /\ caSecret' \in Upserts(caSecret, TRUE) /\ UNCHANGED data
    /\ UNCHANGED <<compassVars, token, conn, certSecret, queueVars, tick, booting, served, edits>>

\* Mutant: Update does not send a resourceVersion.
AcceptedUnversioned == IF task = "create" THEN ~conn.exists ELSE conn.exists

\* Create needs that the resource is not there, Update that the copy is current.
Accepted == IF task = "create" THEN ~conn.exists ELSE conn.exists /\ fresh

\* The API server stores the copy; the informer's copy is then behind.
Store == conn' = inst /\ cacheFresh' = FALSE

\* Create or updateCompassConnection, without retries.  The call may be refused,
\* fail, or be carried out although it fails; `failing' says that the
\* reconciliation returns an error even if the call succeeds.
WriteConnection(failing) ==
    /\ \/ /\ Accepted /\ NoFault /\ Store
          /\ pc' = IF booting THEN "starting" ELSE "idle"
          /\ queued' = (queued \/ failing)
          /\ EndCall /\ UNCHANGED <<cache, stale, data, booting>>
       \/ /\ \/ ~Accepted /\ NoFault
             \/ Fault
          /\ Fail /\ UNCHANGED conn
       \/ /\ Accepted /\ Fault /\ Store
          /\ IF booting THEN Exit
             ELSE /\ pc' = "idle" /\ queued' = TRUE
                  /\ EndCall /\ UNCHANGED <<cache, stale, data, booting>>
    /\ UNCHANGED <<compassVars, token, secretVars, tick, served, edits>>

\* The write that ends the initialisation.
PutConnection == pc = "put" /\ WriteConnection(FALSE)

-----------------------------------------------------------------------------
(* Reconcile                                                               *)

\* A key is taken from the queue; the copy comes from the informer.
Reconcile ==
    /\ pc = "idle" /\ queued /\ (cacheFresh \/ stale < MaxStale)
    /\ queued' = FALSE /\ stale' = IF cacheFresh THEN 0 ELSE stale + 1
    /\ \/ /\ cache.exists /\ skipConnectionSync(cache)
          /\ UNCHANGED <<pc, task, inst, fresh>>
       \/ /\ ~cache.exists \/ (~skipConnectionSync(cache) /\ Failed(cache))
          /\ GoTo("initialize") /\ UNCHANGED <<task, inst, fresh>>
       \/ /\ cache.exists /\ ~skipConnectionSync(cache) /\ ~Failed(cache)
          /\ GoTo("maintain")
          /\ task' = "maintain" /\ inst' = cache /\ fresh' = cacheFresh
    /\ UNCHANGED <<compassVars, token, conn, secretVars, cache, cacheFresh, tick, data, booting,
                   newCert, info, served, faults, edits>>

\* maintainCompassConnection up to the decision on a renewal: CredentialsExist
\* looks at the CA secret, Configuration is asked with the client certificate.
MaintainCompassConnection ==
    /\ pc = "maintain"
    /\ LET renewal == ShouldRenewCertificate(inst) \/ ~CredentialsExist
           reached == GetConnectorCertSecuredClient /\ ClientAccepted
       IN \/ /\ reached /\ renewal /\ info' = url /\ GoTo("renew")
             /\ NoFault /\ UNCHANGED <<task, inst, fresh, newCert, data>>
          \/ /\ reached /\ ~renewal
             /\ IF urlsUpdated(inst, url) THEN UpdateURLs(url) ELSE UNCHANGED data
             /\ inst' = Maintained(inst) /\ GoTo("sync")
             /\ NoFault /\ UNCHANGED <<task, fresh, newCert, info>>
          \/ ~reached /\ MaintenanceFailed /\ NoFault /\ UNCHANGED data
          \/ CallFails /\ MaintenanceFailed /\ UNCHANGED data
    /\ UNCHANGED <<compassVars, token, conn, secretVars, queueVars, tick, booting, served, edits>>

\* SignCSR with the client certificate.
RenewCertificate ==
    /\ pc = "renew"
    /\ \/ /\ CertificateIssued /\ GoTo("saveCert")
          /\ NoFault /\ UNCHANGED <<task, inst, fresh, info>>
       \/ MaintenanceFailed /\ (CreateCSRFails \/ NewCredentialsFails)
    /\ UNCHANGED <<url, due, expired, token, conn, secretVars, queueVars, tick, data, booting,
                   served, edits>>

\* The write after a failed maintenance, whose error is returned all the same.
ReportMaintenanceFailed == pc = "report" /\ WriteConnection(TRUE)

SyncFailed(state) ==
    /\ inst' = setSyncFailedStatus(inst, state) /\ GoTo("update")
    /\ UNCHANGED <<task, fresh, newCert, info>>

Fetchable == GetRuntimeConfig /\ GetDirectorClient /\ ClientAccepted

\* SynchronizeWithCompass, unless the last attempt is recent: what the maintenance
\* changed in the copy is then dropped.
SynchronizeWithCompass ==
    /\ pc = "sync"
    /\ \/ /\ skipApplicationSync(inst)
          /\ Finish /\ NoFault /\ UNCHANGED served
       \/ /\ ~skipApplicationSync(inst) /\ Fetchable
          /\ GoTo("apply") /\ served' = TRUE /\ NoFault
          /\ UNCHANGED <<queueVars, data, booting, task, inst, fresh, newCert, info>>
       \/ /\ ~skipApplicationSync(inst)
          /\ \/ ~Fetchable /\ NoFault
             \/ CallFails
          /\ SyncFailed("SynchronizationFailed")
          /\ UNCHANGED <<queueVars, data, booting, served>>
    /\ UNCHANGED <<compassVars, token, conn, secretVars, tick, edits>>

\* syncService.Apply.
ApplyConfiguration ==
    /\ pc = "apply"
    /\ \/ GoTo("label") /\ NoFault /\ UNCHANGED <<task, inst, fresh, newCert, info>>
       \/ Fault /\ SyncFailed("ResourceApplicationFailed")
    /\ UNCHANGED <<compassVars, token, conn, secretVars, queueVars, tick, data, booting,
                   served, edits>>

\* SetURLsLabels.
SetURLsLabels ==
    /\ pc = "label"
    /\ \/ /\ inst' = setConnectionSynchronizedStatus(inst) /\ GoTo("update") /\ NoFault
          /\ UNCHANGED <<task, fresh, newCert, info>>
       \/ CallFails /\ SyncFailed("MetadataUpdateFailed")
    /\ UNCHANGED <<compassVars, token, conn, secretVars, queueVars, tick, data, booting,
                   served, edits>>

\* The write that ends a synchronisation.
UpdateSynchronizationStatus == pc = "update" /\ WriteConnection(FALSE)

-----------------------------------------------------------------------------
(* The informer, time, and everyone else.                                  *)

\* The informer catches up; every change of the resource queues the key.
InformerSync ==
    /\ ~booting /\ pc # "down" /\ ~cacheFresh
    /\ cache' = conn /\ cacheFresh' = TRUE /\ stale' = 0 /\ queued' = TRUE
    /\ UNCHANGED <<compassVars, token, conn, secretVars, tick, data, booting, runVars,
                   served, faults, edits>>

\* The resync of the manager.  Its period is longer than the minimal synchronisation
\* time (180s and 15s as deployed): what is recent at one resync is old at the next.
Resync ==
    /\ ~booting /\ pc # "down" /\ cache.exists /\ ~queued /\ tick
    /\ queued' = TRUE /\ tick' = FALSE
    /\ UNCHANGED <<compassVars, token, conn, secretVars, cache, cacheFresh, stale, data,
                   booting, runVars, served, faults, edits>>

SyncAged(c) == [c EXCEPT !.lastSync = "old"]

AttemptAged(c) == [c EXCEPT !.lastAttempt = IF @ = "none" THEN "none" ELSE "old"]

\* The resource and its copies as they are after a while.
Elapse(c, cached, copy) ==
    /\ conn' = c /\ cache' = cached /\ inst' = copy
    /\ tick' = (tick \/ "recent" \notin {conn'.lastSync, conn'.lastAttempt})
    /\ UNCHANGED <<compassVars, token, secretVars, cacheFresh, stale, queued, data, booting,
                   pc, task, fresh, newCert, info, served, faults, edits>>

\* The minimal synchronisation time passes since LastSync, or since LastAttempt:
\* between two reconciliations, or while the Applications are applied.
SyncTimeElapses ==
    /\ pc \in {"idle", "apply"}
    /\ "recent" \in {conn.lastSync, cache.lastSync, inst.lastSync}
    /\ Elapse(SyncAged(conn), SyncAged(cache), SyncAged(inst))

AttemptTimeElapses ==
    /\ pc = "idle"
    /\ "recent" \in {conn.lastAttempt, cache.lastAttempt}
    /\ Elapse(AttemptAged(conn), AttemptAged(cache), AttemptAged(inst))

Edit == edits < MaxEdits /\ edits' = edits + 1

\* A change of the resource by a user: copies of it are outdated.
EditConnection(c) ==
    /\ conn.exists /\ Edit /\ conn' = c
    /\ cacheFresh' = FALSE /\ fresh' = FALSE
    /\ UNCHANGED <<compassVars, token, secretVars, cache, stale, queued, tick, data, booting,
                   pc, task, inst, newCert, info, faults>>

AskForResync ==
    ~conn.resyncNow /\ EditConnection([conn EXCEPT !.resyncNow = TRUE]) /\ served' = FALSE

AskForRefresh ==
    ~conn.refreshNow /\ EditConnection([conn EXCEPT !.refreshNow = TRUE]) /\ UNCHANGED served

DeleteConnection == EditConnection(NoConnection) /\ UNCHANGED served

\* A user supplies a new token, or removes the configuration secret.
ChangeConfiguration ==
    /\ Edit /\ token' \in {"none", "fresh"} \ {token}
    /\ UNCHANGED <<compassVars, conn, secretVars, queueVars, tick, data, booting, runVars,
                   served, faults>>

\* Compass moves to other URLs; certificates become due for renewal and expire,
\* the older ones first.
CompassChanges ==
    /\ Edit
    /\ \/ url' \in Urls \ {url} /\ UNCHANGED <<due, expired>>
       \/ due < issued /\ due' = due + 1 /\ UNCHANGED <<url, expired>>
       \/ expired < due /\ expired' = expired + 1 /\ UNCHANGED <<url, due>>
    /\ UNCHANGED <<issued, token, conn, secretVars, queueVars, tick, data, booting, runVars,
                   served, faults>>

Crash ==
    /\ pc # "down" /\ Fault /\ Exit
    /\ UNCHANGED <<compassVars, token, conn, secretVars, tick, served, edits>>

-----------------------------------------------------------------------------

Agent ==
    \/ StartAgent \/ StartManager
    \/ InitializeCompassConnection \/ FetchConfiguration \/ SignCSR
    \/ saveClusterCertificateAndKey \/ saveCACertificate \/ PutConnection
    \/ Reconcile \/ MaintainCompassConnection \/ RenewCertificate
    \/ ReportMaintenanceFailed
    \/ SynchronizeWithCompass \/ ApplyConfiguration \/ SetURLsLabels
    \/ UpdateSynchronizationStatus

Environment ==
    \/ AskForResync \/ AskForRefresh \/ DeleteConnection
    \/ ChangeConfiguration \/ CompassChanges \/ Crash

Next ==
    \/ Agent \/ InformerSync \/ Resync \/ SyncTimeElapses \/ AttemptTimeElapses
    \/ Environment

\* The process is restarted and its worker goes on, the informer's watch delivers,
\* the manager resyncs and time passes.
Fairness ==
    /\ WF_vars(Agent) /\ WF_vars(InformerSync) /\ WF_vars(Resync)
    /\ WF_vars(SyncTimeElapses) /\ WF_vars(AttemptTimeElapses)

Spec == Init /\ [][Next]_vars /\ Fairness

-----------------------------------------------------------------------------
(* Properties                                                              *)

\* The agent has a client, but Compass no longer accepts its certificate.
Lost == data.cert # 0 /\ data.cert <= expired

\* A connection that is not ConnectionFailed has its certificate in the cluster
\* secret, or a newer one: InitializeCompassConnection after a restart finds
\* credentials, and main does not exit in a loop.
EstablishedMeansStored ==
    conn.exists /\ conn.state # "ConnectionFailed" =>
        /\ 1 <= conn.cert /\ conn.cert <= certSecret /\ certSecret <= issued

\* The certificate whose dates decide on the renewal (status.connectionStatus) is
\* never newer than the one that the mTLS client uses, nor this one newer than
\* the stored one: a certificate in use that is due is seen to be due.
RecordedNotNewerThanUsed ==
    /\ data.cert <= certSecret
    /\ conn.exists /\ conn.state # "ConnectionFailed" /\ data.cert # 0 =>
           conn.cert <= data.cert

\* A reconciliation that maintains the connection has an mTLS client: whatever a
\* lagging informer shows, memory was filled before (supervisor.go:101).
MaintenanceHasClient == pc \in {"maintain", "renew"} => data.cert # 0

\* The flag resyncNow is taken back only by a synchronisation that began after
\* the user set it (supervisor.go:205).
ResyncIsServed ==
    [][conn.resyncNow /\ conn'.exists /\ ~conn'.resyncNow => served]_vars

\* The flag refreshCredentialsNow is taken back only together with the dates of a
\* newer certificate (supervisor.go:234).
RefreshIsServed ==
    [][conn.refreshNow /\ conn'.exists /\ ~conn'.refreshNow => conn'.cert > conn.cert]_vars

\* An established connection leaves the one-time token alone, even when the
\* informer still shows the resource as failed or missing (supervisor.go:99).
ConnectedIgnoresToken ==
    [][token = "fresh" /\ token' = "spent" =>
           ~conn.exists \/ conn.state = "ConnectionFailed"]_vars

\* A failed connection is tried again with a new token (controller.go:106).
FailedConnectionIsRetried ==
    (conn.exists /\ conn.state = "ConnectionFailed" /\ token = "fresh")
        ~> (~conn.exists \/ conn.state # "ConnectionFailed" \/ token # "fresh")

Usable == conn.exists /\ conn.state # "ConnectionFailed" /\ ~Lost

\* A certificate that is due, or whose renewal a user asked for, is renewed and
\* recorded, although a renewal is not recorded when the synchronisation is
\* skipped or the write is refused (supervisor.go:210).
RenewalHappens ==
    (conn.refreshNow \/ conn.cert <= due)
        ~> (~Usable \/ (~conn.refreshNow /\ conn.cert > due))

\* A requested synchronisation is carried out to the end.
ResyncHappens ==
    conn.resyncNow ~> (~Usable \/ token = "none" \/ ~conn.resyncNow)
=============================================================================
