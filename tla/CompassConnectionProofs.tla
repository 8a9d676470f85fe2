------------------------ MODULE CompassConnectionProofs ------------------------
(***************************************************************************)
(* The safety properties of the Compass connection, proved for every set   *)
(* of URLs and every bound.                                                *)
(*                                                                         *)
(* The argument.  Every copy of the resource (the stored one, the one in   *)
(* the informer's cache, the one a call works on) records a certificate    *)
(* that is already in the cluster secret, and none that is newer than the  *)
(* client's (CertsInv): PreserveCredentials stores the certificate before  *)
(* the client takes it, and the client takes it before the resource        *)
(* records it.  Hence an established connection has a stored certificate,  *)
(* and an agent that has seen it established, at the start or in its       *)
(* cache, has a client (ClientInv).  Flags are lost only by writing an old *)
(* copy, which the resource version refuses (CacheInv, ServedInv).         *)
(*                                                                         *)
(* First what each step of a call does to the variables the invariant is   *)
(* about (the Effect lemmas), then one lemma per part of the invariant,    *)
(* with one case per action, then the theorems.                            *)
(***************************************************************************)
EXTENDS CompassConnectionInv, TLAPS

USE DEF compassVars, secretVars, queueVars, runVars, NoFault

\* The resource that is not there.
LEMMA NoConnectionFacts ==
  /\ NoConnection \in CompassConnections /\ ~NoConnection.exists
  /\ ~NoConnection.resyncNow /\ ~NoConnection.refreshNow /\ NoConnection.cert = 0
  BY DEF NoConnection, CompassConnections, States

\* A new resource, as InitializeCompassConnection makes it.
LEMMA NewConnectionFacts ==
  LET new == [NoConnection EXCEPT !.exists = TRUE]
  IN  new \in CompassConnections /\ new.exists /\ new.cert = 0
  BY DEF NoConnection, CompassConnections, States

\* The fields of the copies of the resource.
LEMMA CopyFields ==
  CopiesOK =>
    /\ conn.cert \in Nat /\ cache.cert \in Nat /\ inst.cert \in Nat
    /\ conn.url \in Urls \cup {NoUrl} /\ conn.exists \in BOOLEAN
  BY DEF CopiesOK, CompassConnections

\* d is the copy c with another status: the same flags and the same certificate.
Keeps(c, d) ==
    /\ d \in CompassConnections /\ d.cert = c.cert
    /\ d.exists <=> c.exists
    /\ d.resyncNow <=> c.resyncNow
    /\ d.refreshNow <=> c.refreshNow

\* An establishing that fails goes on to store ConnectionFailed in its copy.
LEMMA EstablishFailedEffect ==
  CopiesOK /\ EstablishFailed =>
    /\ Keeps(inst, inst') /\ inst'.state = "ConnectionFailed"
    /\ pc' = "put" /\ newCert' = 0 /\ info' = NoUrl /\ task' = task /\ fresh' = fresh
  BY DEF CopiesOK, Keeps, CompassConnections, States, EstablishFailed, GoTo,
     setConnectionFailedStatus

\* A maintenance that fails goes on to report ConnectionMaintenanceFailed.
LEMMA MaintenanceFailedEffect ==
  CopiesOK /\ MaintenanceFailed =>
    /\ Keeps(inst, inst') /\ inst'.state = "ConnectionMaintenanceFailed"
    /\ pc' = "report" /\ newCert' = 0 /\ info' = NoUrl /\ task' = task /\ fresh' = fresh
  BY DEF CopiesOK, Keeps, CompassConnections, States, MaintenanceFailed, GoTo,
     setConnectionMaintenanceFailedStatus

\* A certificate that cannot be stored fails the call that asked for it.
LEMMA PreserveFailedEffect ==
  CopiesOK /\ PreserveFailed =>
    /\ Keeps(inst, inst') /\ newCert' = 0 /\ info' = NoUrl /\ task' = task /\ fresh' = fresh
    /\ \/ task = "maintain" /\ pc' = "report" /\ inst'.state = "ConnectionMaintenanceFailed"
       \/ task # "maintain" /\ pc' = "put" /\ inst'.state = "ConnectionFailed"
  BY EstablishFailedEffect, MaintenanceFailedEffect DEF PreserveFailed

\* A synchronisation that fails at any of its three calls.
SyncFailures == {"SynchronizationFailed", "ResourceApplicationFailed", "MetadataUpdateFailed"}

\* A failed synchronisation sets a state and goes on to the update of the status.
LEMMA SyncFailedEffect ==
  CopiesOK =>
    \A s \in SyncFailures :
      SyncFailed(s) =>
        /\ Keeps(inst, inst') /\ inst'.state # ""
        /\ pc' = "update" /\ UNCHANGED <<task, fresh, newCert, info>>
<1> SUFFICES ASSUME CopiesOK, NEW s \in SyncFailures, SyncFailed(s)
             PROVE  /\ Keeps(inst, inst') /\ inst'.state # ""
                    /\ pc' = "update" /\ UNCHANGED <<task, fresh, newCert, info>>
  OBVIOUS
<1>1. s \in States /\ s # ""
  BY DEF SyncFailures, States
<1> QED
  BY <1>1 DEF CopiesOK, Keeps, CompassConnections, SyncFailed, GoTo, setSyncFailedStatus

\* The synchronisation is not due, gets its configuration, or fails.
LEMMA SynchronizeEffect ==
  CopiesOK /\ SynchronizeWithCompass =>
    /\ pc = "sync"
    /\ \/ /\ pc' = IF booting THEN "starting" ELSE "idle"
          /\ task' = "none" /\ inst' = NoConnection /\ fresh' = FALSE /\ newCert' = 0
          /\ info' = NoUrl /\ UNCHANGED served
       \/ pc' = "apply" /\ served' = TRUE /\ UNCHANGED <<task, inst, fresh, newCert, info>>
       \/ /\ pc' = "update" /\ Keeps(inst, inst') /\ inst'.state # ""
          /\ UNCHANGED <<task, fresh, newCert, info, served>>
    /\ UNCHANGED <<compassVars, token, conn, secretVars, queueVars, tick, data, booting, edits>>
<1>1. "SynchronizationFailed" \in SyncFailures
  BY DEF SyncFailures
<1> QED
  BY <1>1, SyncFailedEffect DEF SynchronizeWithCompass, Finish, EndCall, GoTo

\* The configuration is applied, or the synchronisation fails.
LEMMA ApplyEffect ==
  CopiesOK /\ ApplyConfiguration =>
    /\ pc = "apply"
    /\ \/ pc' = "label" /\ UNCHANGED <<task, inst, fresh, newCert, info>>
       \/ /\ pc' = "update" /\ Keeps(inst, inst') /\ inst'.state # ""
          /\ UNCHANGED <<task, fresh, newCert, info>>
    /\ UNCHANGED <<compassVars, token, conn, secretVars, queueVars, tick, data, booting,
                   served, edits>>
<1>1. "ResourceApplicationFailed" \in SyncFailures
  BY DEF SyncFailures
<1> QED
  BY <1>1, SyncFailedEffect DEF ApplyConfiguration, GoTo

\* d is c, or c with its times aged.
Same(c, d) == Keeps(c, d) /\ d.state = c.state

\* Time that passes leaves everything of a copy but its times.
LEMMA AgedSame ==
  ASSUME NEW c \in CompassConnections
  PROVE  Same(c, SyncAged(c)) /\ Same(c, AttemptAged(c))
  BY DEF Same, Keeps, CompassConnections, SyncAged, AttemptAged

\* Time passes for all the copies at once.
LEMMA ElapseEffect ==
  CopiesOK /\ (SyncTimeElapses \/ AttemptTimeElapses) =>
    /\ Same(conn, conn') /\ Same(cache, cache') /\ Same(inst, inst')
    /\ cache = conn => cache' = conn'
    /\ UNCHANGED <<compassVars, token, secretVars, cacheFresh, stale, queued, data, booting,
                   pc, task, fresh, newCert, info, served, faults, edits>>
<1>1. CASE CopiesOK /\ SyncTimeElapses
  BY <1>1, AgedSame DEF CopiesOK, SyncTimeElapses, Elapse
<1>2. CASE CopiesOK /\ AttemptTimeElapses
  BY <1>2, AgedSame DEF CopiesOK, AttemptTimeElapses, Elapse
<1> QED
  BY <1>1, <1>2

\* What a user may do to the resource: ask for something, or delete it.
LEMMA EditEffect ==
  CopiesOK /\ (AskForResync \/ AskForRefresh \/ DeleteConnection) =>
    /\ conn' \in CompassConnections /\ cacheFresh' = FALSE /\ fresh' = FALSE
    /\ \/ conn' = NoConnection
       \/ /\ conn.exists /\ conn'.exists /\ conn'.state = conn.state /\ conn'.cert = conn.cert
          /\ conn.resyncNow => conn'.resyncNow
          /\ conn.refreshNow => conn'.refreshNow
    /\ Edit /\ served' \in {served, FALSE}
    /\ UNCHANGED <<compassVars, token, secretVars, cache, stale, queued, tick, data, booting,
                   pc, task, inst, newCert, info, faults>>
  BY NoConnectionFacts DEF CopiesOK, CompassConnections, AskForResync, AskForRefresh,
     DeleteConnection, EditConnection

\* An error ends the process while it starts, or else the call.
LEMMA FailEffect ==
  Fail =>
    /\ task' = "none" /\ inst' = NoConnection /\ fresh' = FALSE /\ newCert' = 0
    /\ info' = NoUrl
    /\ \/ /\ booting /\ booting' = FALSE /\ pc' = "down" /\ data' = NoData
          /\ cache' = NoConnection /\ cacheFresh' = FALSE /\ stale' = 0 /\ queued' = FALSE
       \/ /\ ~booting /\ UNCHANGED booting /\ pc' = "idle" /\ queued' = TRUE
          /\ UNCHANGED <<cache, cacheFresh, stale, data>>
  BY DEF Fail, Exit, Requeue, EndCall

\* The credentials are read into the client, or the call fails.
LEMMA ReadEffect ==
  ReadCredentials =>
    \/ Fail
    \/ /\ certSecret # 0 /\ data'.cert = certSecret
       /\ data' = [cert |-> certSecret, url |-> conn.url]
       /\ task' = "none" /\ inst' = NoConnection /\ fresh' = FALSE /\ newCert' = 0
       /\ info' = NoUrl
       /\ (booting /\ pc' = "starting") \/ (~booting /\ pc' = "idle")
       /\ UNCHANGED <<queueVars, booting>>
  BY DEF ReadCredentials, AsClientCredentials, UpdateConnectionData, EndCall

\* The write that ends a call is refused, or stores the copy; the call is over.
LEMMA WriteEffect ==
  PutConnection \/ ReportMaintenanceFailed \/ UpdateSynchronizationStatus =>
    /\ pc \in {"put", "report", "update"}
    /\ task' = "none" /\ inst' = NoConnection /\ fresh' = FALSE /\ newCert' = 0
    /\ info' = NoUrl
    /\ \/ conn' = conn /\ (cacheFresh' => cacheFresh)
       \/ Accepted /\ conn' = inst /\ ~cacheFresh'
    /\ \/ ~booting' /\ pc' = "down" /\ data' = NoData /\ cache' = NoConnection /\ ~cacheFresh'
       \/ ~booting /\ pc' = "idle" /\ UNCHANGED <<booting, cache, data>>
       \/ booting /\ pc' = "starting" /\ conn' = inst /\ UNCHANGED <<booting, cache, data>>
    /\ UNCHANGED <<compassVars, token, secretVars, tick, served, edits>>
<1>1. ASSUME NEW failing, WriteConnection(failing)
      PROVE  /\ task' = "none" /\ inst' = NoConnection /\ fresh' = FALSE /\ newCert' = 0
             /\ info' = NoUrl
             /\ \/ conn' = conn /\ (cacheFresh' => cacheFresh)
                \/ Accepted /\ conn' = inst /\ ~cacheFresh'
             /\ \/ /\ ~booting' /\ pc' = "down" /\ data' = NoData
                   /\ cache' = NoConnection /\ ~cacheFresh'
                \/ ~booting /\ pc' = "idle" /\ UNCHANGED <<booting, cache, data>>
                \/ /\ booting /\ pc' = "starting" /\ conn' = inst
                   /\ UNCHANGED <<booting, cache, data>>
             /\ UNCHANGED <<compassVars, token, secretVars, tick, served, edits>>
  BY <1>1, FailEffect DEF WriteConnection, Store, Exit, EndCall
<1> QED
  BY <1>1 DEF PutConnection, ReportMaintenanceFailed, UpdateSynchronizationStatus

\* The end of PreserveCredentials.
LEMMA SavedEffect ==
  CopiesOK /\ AgentOK /\ saveCACertificate =>
    /\ pc = "saveCA" /\ newCert' = 0 /\ info' = NoUrl /\ task' = task /\ fresh' = fresh
    /\ inst' \in CompassConnections
    /\ (inst'.exists <=> inst.exists) /\ (inst'.resyncNow <=> inst.resyncNow)
    /\ data' \in ConnectionData
    /\ \/ /\ data'.cert = newCert /\ inst'.cert = newCert
          /\ \/ task = "maintain" /\ pc' = "sync"
             \/ /\ task # "maintain" /\ pc' = "put" /\ inst'.state = "Connected"
                /\ (inst'.refreshNow <=> inst.refreshNow)
       \/ /\ data' = data /\ inst'.cert = inst.cert /\ (inst'.refreshNow <=> inst.refreshNow)
          /\ \/ task = "maintain" /\ pc' = "report" /\ inst'.state = "ConnectionMaintenanceFailed"
             \/ task # "maintain" /\ pc' = "put" /\ inst'.state = "ConnectionFailed"
    /\ caSecret' \in {caSecret, TRUE}
    /\ UNCHANGED <<compassVars, token, conn, certSecret, queueVars, tick, booting, served, edits>>
<1> SUFFICES ASSUME CopiesOK, AgentOK, saveCACertificate
             PROVE  /\ inst' \in CompassConnections
                    /\ (inst'.exists <=> inst.exists) /\ (inst'.resyncNow <=> inst.resyncNow)
                    /\ data' \in ConnectionData
                    /\ \/ /\ data'.cert = newCert /\ inst'.cert = newCert
                          /\ \/ task = "maintain" /\ pc' = "sync"
                             \/ /\ task # "maintain" /\ pc' = "put"
                                /\ inst'.state = "Connected"
                                /\ (inst'.refreshNow <=> inst.refreshNow)
                       \/ /\ data' = data /\ inst'.cert = inst.cert
                          /\ (inst'.refreshNow <=> inst.refreshNow)
                          /\ \/ /\ task = "maintain" /\ pc' = "report"
                                /\ inst'.state = "ConnectionMaintenanceFailed"
                             \/ /\ task # "maintain" /\ pc' = "put"
                                /\ inst'.state = "ConnectionFailed"
  BY PreserveFailedEffect DEF saveCACertificate, Upserts
<1>1. CASE PreserveFailed /\ data' = data
  BY <1>1, PreserveFailedEffect DEF AgentOK, Keeps
<1>2. CASE /\ data' = [cert |-> newCert, url |-> info]
           /\ task = "maintain" /\ pc' = "sync"
           /\ inst' = Maintained(SetCertificateStatus(inst, newCert))
  BY <1>2 DEF CopiesOK, AgentOK, ConnectionData, CompassConnections, Maintained,
     SetCertificateStatus
<1>3. CASE /\ data' = [cert |-> newCert, url |-> info]
           /\ task # "maintain" /\ pc' = "put" /\ inst' = Established(inst, newCert, info)
  BY <1>3 DEF CopiesOK, AgentOK, ConnectionData, CompassConnections, States, Established
<1> QED
  BY <1>1, <1>2, <1>3 DEF saveCACertificate, UpdateConnectionData, GoTo

\* A maintenance renews the certificate, goes on to the synchronisation, or fails.
LEMMA MaintainEffect ==
  CopiesOK /\ AgentOK /\ WorldOK /\ MaintainCompassConnection =>
    /\ pc = "maintain" /\ Keeps(inst, inst') /\ task' = task /\ fresh' = fresh
    /\ data' \in ConnectionData /\ data'.cert = data.cert
    /\ newCert' \in Nat /\ info' \in Urls \cup {NoUrl}
    /\ \/ pc' = "renew" \/ pc' = "sync"
       \/ pc' = "report" /\ inst'.state = "ConnectionMaintenanceFailed"
    /\ UNCHANGED <<compassVars, token, conn, secretVars, queueVars, tick, booting, served, edits>>
<1> SUFFICES ASSUME CopiesOK, AgentOK, WorldOK, MaintainCompassConnection
             PROVE  /\ Keeps(inst, inst') /\ task' = task /\ fresh' = fresh
                    /\ data' \in ConnectionData /\ data'.cert = data.cert
                    /\ newCert' \in Nat /\ info' \in Urls \cup {NoUrl}
                    /\ \/ pc' = "renew" \/ pc' = "sync"
                       \/ pc' = "report" /\ inst'.state = "ConnectionMaintenanceFailed"
  BY DEF MaintainCompassConnection
<1>1. Keeps(inst, inst) /\ Keeps(inst, Maintained(inst))
  BY DEF CopiesOK, Keeps, CompassConnections, Maintained
<1>2. UpdateURLs(url) => data' \in ConnectionData /\ data'.cert = data.cert
  BY DEF UpdateURLs, AgentOK, ConnectionData, WorldOK
<1>3. /\ data \in ConnectionData /\ newCert \in Nat /\ info \in Urls \cup {NoUrl}
      /\ url \in Urls
  BY DEF AgentOK, WorldOK
<1>4. CASE MaintenanceFailed /\ data' = data
  BY <1>3, <1>4, MaintenanceFailedEffect
<1>5. CASE /\ info' = url /\ pc' = "renew" /\ UNCHANGED <<task, inst, fresh, newCert, data>>
  BY <1>1, <1>3, <1>5
<1>6. CASE /\ UpdateURLs(url) \/ UNCHANGED data
           /\ inst' = Maintained(inst) /\ pc' = "sync" /\ UNCHANGED <<task, fresh, newCert, info>>
  BY <1>1, <1>2, <1>3, <1>6
<1> QED
  BY <1>4, <1>5, <1>6 DEF MaintainCompassConnection, GoTo

\* The labels are set and the state is Synchronized, or the synchronisation fails.
LEMMA SynchronizedEffect ==
  CopiesOK /\ SetURLsLabels =>
    /\ pc = "label" /\ pc' = "update" /\ inst' \in CompassConnections /\ inst'.state # ""
    /\ (inst'.exists <=> inst.exists) /\ inst'.cert = inst.cert
    /\ (inst'.refreshNow <=> inst.refreshNow)
    /\ UNCHANGED <<compassVars, token, conn, secretVars, queueVars, tick, data, booting,
                   task, fresh, newCert, info, served, edits>>
<1>1. CopiesOK =>
        LET d == setConnectionSynchronizedStatus(inst)
        IN  /\ d \in CompassConnections /\ (d.exists <=> inst.exists) /\ d.cert = inst.cert
            /\ (d.refreshNow <=> inst.refreshNow) /\ d.state = "Synchronized"
  BY DEF CopiesOK, CompassConnections, States, setConnectionSynchronizedStatus
<1>2. "MetadataUpdateFailed" \in SyncFailures
  BY DEF SyncFailures
<1> QED
  BY <1>1, <1>2, SyncFailedEffect DEF SetURLsLabels, GoTo, Keeps

\* Compass and the secrets keep their types.
LEMMA WorldStep == CopiesOK /\ WorldOK /\ AgentOK /\ [Next]_vars => WorldOK'
<1> SUFFICES ASSUME CopiesOK, WorldOK, AgentOK, [Next]_vars PROVE WorldOK'
  OBVIOUS
<1> USE DEF WorldOK, AgentOK
<1>1. CASE StartAgent \/ StartManager
  BY <1>1 DEF StartAgent, StartManager
<1>2. CASE InitializeCompassConnection
  BY <1>2, ReadEffect, FailEffect, NewConnectionFacts DEF InitializeCompassConnection,
     GoTo
<1>3. CASE FetchConfiguration
  BY <1>3, EstablishFailedEffect DEF FetchConfiguration, GoTo
<1>4. CASE SignCSR
  BY <1>4, EstablishFailedEffect DEF SignCSR, CertificateIssued, CreateCSRFails,
     NewCredentialsFails, GoTo
<1>5. CASE saveClusterCertificateAndKey
  BY <1>5, PreserveFailedEffect DEF saveClusterCertificateAndKey, Upserts, GoTo
<1>6. CASE saveCACertificate
  BY <1>6, SavedEffect
<1>7. CASE PutConnection \/ ReportMaintenanceFailed \/ UpdateSynchronizationStatus
  BY <1>7, WriteEffect
<1>8. CASE Reconcile
  BY <1>8 DEF Reconcile, GoTo
<1>9. CASE MaintainCompassConnection
  BY <1>9, MaintainEffect
<1>10. CASE RenewCertificate
  BY <1>10, MaintenanceFailedEffect DEF RenewCertificate, CertificateIssued,
     CreateCSRFails, NewCredentialsFails, GoTo
<1>11. CASE SynchronizeWithCompass
  BY <1>11, SynchronizeEffect
<1>12. CASE ApplyConfiguration
  BY <1>12, ApplyEffect
<1>13. CASE SetURLsLabels
  BY <1>13, SynchronizedEffect
<1>14. CASE SyncTimeElapses \/ AttemptTimeElapses
  BY <1>14, ElapseEffect
<1>15. CASE AskForResync \/ AskForRefresh \/ DeleteConnection
  BY <1>15, EditEffect
<1>16. CASE InformerSync \/ Resync \/ ChangeConfiguration \/ CompassChanges \/ UNCHANGED vars
  BY <1>16 DEF InformerSync, Resync, ChangeConfiguration, CompassChanges, vars
<1>17. CASE Crash
  BY <1>17 DEF Crash, Exit, EndCall
<1> QED
  BY <1>1, <1>2, <1>3, <1>4, <1>5, <1>6, <1>7, <1>8, <1>9, <1>10, <1>11, <1>12, <1>13,
     <1>14, <1>15, <1>16, <1>17 DEF Next, Agent, Environment

\* So do the copies of the resource.
LEMMA CopiesStep == WorldOK /\ CopiesOK /\ AgentOK /\ [Next]_vars => CopiesOK'
<1> SUFFICES ASSUME WorldOK, CopiesOK, AgentOK, [Next]_vars PROVE CopiesOK'
  OBVIOUS
<1> USE NoConnectionFacts DEF CopiesOK, Keeps, Same
<1>1. CASE StartAgent \/ StartManager
  BY <1>1 DEF StartAgent, StartManager
<1>2. CASE InitializeCompassConnection
  BY <1>2, ReadEffect, FailEffect, NewConnectionFacts DEF InitializeCompassConnection,
     GoTo
<1>3. CASE FetchConfiguration
  BY <1>3, EstablishFailedEffect DEF FetchConfiguration, GoTo
<1>4. CASE SignCSR
  BY <1>4, EstablishFailedEffect DEF SignCSR, CertificateIssued, CreateCSRFails,
     NewCredentialsFails, GoTo
<1>5. CASE saveClusterCertificateAndKey
  BY <1>5, PreserveFailedEffect DEF saveClusterCertificateAndKey, Upserts, GoTo
<1>6. CASE saveCACertificate
  BY <1>6, SavedEffect
<1>7. CASE PutConnection \/ ReportMaintenanceFailed \/ UpdateSynchronizationStatus
  BY <1>7, WriteEffect
<1>8. CASE Reconcile
  BY <1>8 DEF Reconcile, GoTo
<1>9. CASE MaintainCompassConnection
  BY <1>9, MaintainEffect
<1>10. CASE RenewCertificate
  BY <1>10, MaintenanceFailedEffect DEF RenewCertificate, CertificateIssued,
     CreateCSRFails, NewCredentialsFails, GoTo
<1>11. CASE SynchronizeWithCompass
  BY <1>11, SynchronizeEffect
<1>12. CASE ApplyConfiguration
  BY <1>12, ApplyEffect
<1>13. CASE SetURLsLabels
  BY <1>13, SynchronizedEffect
<1>14. CASE SyncTimeElapses \/ AttemptTimeElapses
  BY <1>14, ElapseEffect
<1>15. CASE AskForResync \/ AskForRefresh \/ DeleteConnection
  BY <1>15, EditEffect
<1>16. CASE InformerSync \/ Resync \/ ChangeConfiguration \/ CompassChanges \/ UNCHANGED vars
  BY <1>16 DEF InformerSync, Resync, ChangeConfiguration, CompassChanges, vars
<1>17. CASE Crash
  BY <1>17 DEF Crash, Exit, EndCall
<1> QED
  BY <1>1, <1>2, <1>3, <1>4, <1>5, <1>6, <1>7, <1>8, <1>9, <1>10, <1>11, <1>12, <1>13,
     <1>14, <1>15, <1>16, <1>17 DEF Next, Agent, Environment

\* So do the variables of the agent and of its call.
LEMMA AgentStep == WorldOK /\ CopiesOK /\ AgentOK /\ [Next]_vars => AgentOK'
<1> SUFFICES ASSUME WorldOK, CopiesOK, AgentOK, [Next]_vars PROVE AgentOK'
  OBVIOUS
<1> USE CopyFields DEF WorldOK, AgentOK, Steps, Tasks, ConnectionData, NoData
<1>1. CASE StartAgent \/ StartManager
  BY <1>1 DEF StartAgent, StartManager
<1>2. CASE InitializeCompassConnection
  BY <1>2, ReadEffect, FailEffect, NewConnectionFacts DEF InitializeCompassConnection,
     GoTo
<1>3. CASE FetchConfiguration
  BY <1>3, EstablishFailedEffect DEF FetchConfiguration, GoTo
<1>4. CASE SignCSR
  BY <1>4, EstablishFailedEffect DEF SignCSR, CertificateIssued, CreateCSRFails,
     NewCredentialsFails, GoTo
<1>5. CASE saveClusterCertificateAndKey
  BY <1>5, PreserveFailedEffect DEF saveClusterCertificateAndKey, Upserts, GoTo
<1>6. CASE saveCACertificate
  <2>1. pc' \in {"sync", "put", "report"} /\ task' = task /\ newCert' = 0 /\ info' = NoUrl
    BY <1>6, SavedEffect
  <2>2. data' \in ConnectionData
    BY <1>6, SavedEffect
  <2> QED
    BY <2>1, <2>2
<1>7. CASE PutConnection \/ ReportMaintenanceFailed \/ UpdateSynchronizationStatus
  BY <1>7, WriteEffect
<1>8. CASE Reconcile
  BY <1>8 DEF Reconcile, GoTo
<1>9. CASE MaintainCompassConnection
  BY <1>9, MaintainEffect
<1>10. CASE RenewCertificate
  BY <1>10, MaintenanceFailedEffect DEF RenewCertificate, CertificateIssued,
     CreateCSRFails, NewCredentialsFails, GoTo
<1>11. CASE SynchronizeWithCompass
  <2>1. /\ pc' \in {"starting", "idle", "apply", "update"} /\ task' \in {task, "none"}
        /\ newCert' \in {newCert, 0} /\ info' \in {info, NoUrl} /\ data' = data
    BY <1>11, SynchronizeEffect
  <2> QED
    BY <2>1
<1>12. CASE ApplyConfiguration
  BY <1>12, ApplyEffect
<1>13. CASE SetURLsLabels
  BY <1>13, SynchronizedEffect
<1>14. CASE SyncTimeElapses \/ AttemptTimeElapses
  BY <1>14, ElapseEffect
<1>15. CASE AskForResync \/ AskForRefresh \/ DeleteConnection
  BY <1>15, EditEffect
<1>16. CASE InformerSync \/ Resync \/ ChangeConfiguration \/ CompassChanges \/ UNCHANGED vars
  BY <1>16 DEF InformerSync, Resync, ChangeConfiguration, CompassChanges, vars
<1>17. CASE Crash
  BY <1>17 DEF Crash, Exit, EndCall
<1> QED
  BY <1>1, <1>2, <1>3, <1>4, <1>5, <1>6, <1>7, <1>8, <1>9, <1>10, <1>11, <1>12, <1>13,
     <1>14, <1>15, <1>16, <1>17 DEF Next, Agent, Environment

\* So do the flags.
LEMMA FlagsStep == CopiesOK /\ FlagsOK /\ [Next]_vars => FlagsOK'
<1> SUFFICES ASSUME CopiesOK, FlagsOK, [Next]_vars PROVE FlagsOK'
  OBVIOUS
<1> USE CopyFields DEF FlagsOK
<1>1. CASE StartAgent \/ StartManager
  BY <1>1 DEF StartAgent, StartManager
<1>2. CASE InitializeCompassConnection
  BY <1>2 DEF InitializeCompassConnection, ReadCredentials, AsClientCredentials,
     UpdateConnectionData, Fail, Exit, Requeue, EndCall, GoTo
<1>3. CASE FetchConfiguration
  BY <1>3 DEF FetchConfiguration, EstablishFailed, CallFails, GoTo
<1>4. CASE SignCSR
  BY <1>4 DEF SignCSR, EstablishFailed, CertificateIssued, CreateCSRFails,
     NewCredentialsFails, GoTo
<1>5. CASE saveClusterCertificateAndKey
  BY <1>5 DEF saveClusterCertificateAndKey, PreserveFailed, EstablishFailed,
     MaintenanceFailed, Upserts, GoTo
<1>6. CASE saveCACertificate
  BY <1>6 DEF saveCACertificate, PreserveFailed, EstablishFailed, MaintenanceFailed,
     Upserts, UpdateConnectionData, GoTo
<1>7. CASE PutConnection \/ ReportMaintenanceFailed \/ UpdateSynchronizationStatus
  BY <1>7 DEF PutConnection, WriteConnection, Accepted, Store, Fail, Exit, Requeue,
     EndCall, ReportMaintenanceFailed, UpdateSynchronizationStatus
<1>8. CASE Reconcile
  BY <1>8 DEF Reconcile, GoTo
<1>9. CASE MaintainCompassConnection
  BY <1>9 DEF MaintainCompassConnection, MaintenanceFailed, UpdateURLs, CallFails,
     GoTo
<1>10. CASE RenewCertificate
  BY <1>10 DEF RenewCertificate, MaintenanceFailed, CertificateIssued, CreateCSRFails,
     NewCredentialsFails, GoTo
<1>11. CASE SynchronizeWithCompass
  BY <1>11 DEF SynchronizeWithCompass, Finish, EndCall, SyncFailed, CallFails, GoTo
<1>12. CASE ApplyConfiguration
  BY <1>12 DEF ApplyConfiguration, SyncFailed, GoTo
<1>13. CASE SetURLsLabels
  BY <1>13 DEF SetURLsLabels, SyncFailed, CallFails, GoTo
<1>14. CASE SyncTimeElapses \/ AttemptTimeElapses
  BY <1>14 DEF SyncTimeElapses, Elapse, AttemptTimeElapses
<1>15. CASE AskForResync \/ AskForRefresh \/ DeleteConnection
  BY <1>15 DEF AskForResync, EditConnection, Edit, AskForRefresh, DeleteConnection
<1>16. CASE InformerSync \/ Resync \/ ChangeConfiguration \/ CompassChanges \/ UNCHANGED vars
  BY <1>16 DEF InformerSync, Resync, ChangeConfiguration, Edit, CompassChanges, vars
<1>17. CASE Crash
  BY <1>17 DEF Crash, Exit, EndCall
<1> QED
  BY <1>1, <1>2, <1>3, <1>4, <1>5, <1>6, <1>7, <1>8, <1>9, <1>10, <1>11, <1>12, <1>13,
     <1>14, <1>15, <1>16, <1>17 DEF Next, Agent, Environment

\* The counters stay within their bounds.
LEMMA BoundsStep == BoundsOK /\ [Next]_vars => BoundsOK'
<1> SUFFICES ASSUME BoundsOK, [Next]_vars PROVE BoundsOK'
  OBVIOUS
<1> USE BoundsAssumption DEF BoundsOK, Fault
<1>1. CASE StartAgent \/ StartManager
  BY <1>1 DEF StartAgent, StartManager
<1>2. CASE InitializeCompassConnection
  BY <1>2 DEF InitializeCompassConnection, ReadCredentials, AsClientCredentials,
     UpdateConnectionData, Fail, Exit, Requeue, EndCall, GoTo
<1>3. CASE FetchConfiguration
  BY <1>3 DEF FetchConfiguration, EstablishFailed, CallFails, GoTo
<1>4. CASE SignCSR
  BY <1>4 DEF SignCSR, EstablishFailed, CertificateIssued, CreateCSRFails,
     NewCredentialsFails, GoTo
<1>5. CASE saveClusterCertificateAndKey
  BY <1>5 DEF saveClusterCertificateAndKey, PreserveFailed, EstablishFailed,
     MaintenanceFailed, Upserts, GoTo
<1>6. CASE saveCACertificate
  <2>1. faults' \in {faults, faults + 1} /\ (faults' # faults => faults < MaxFaults)
    BY <1>6 DEF saveCACertificate
  <2>2. UNCHANGED <<stale, edits>>
    BY <1>6 DEF saveCACertificate
  <2> QED
    BY <2>1, <2>2
<1>7. CASE PutConnection \/ ReportMaintenanceFailed \/ UpdateSynchronizationStatus
  BY <1>7 DEF PutConnection, WriteConnection, Accepted, Store, Fail, Exit, Requeue,
     EndCall, ReportMaintenanceFailed, UpdateSynchronizationStatus
<1>8. CASE Reconcile
  BY <1>8 DEF Reconcile, GoTo
<1>9. CASE MaintainCompassConnection
  BY <1>9 DEF MaintainCompassConnection, MaintenanceFailed, UpdateURLs, CallFails,
     GoTo
<1>10. CASE RenewCertificate
  BY <1>10 DEF RenewCertificate, MaintenanceFailed, CertificateIssued, CreateCSRFails,
     NewCredentialsFails, GoTo
<1>11. CASE SynchronizeWithCompass
  BY <1>11 DEF SynchronizeWithCompass, Finish, EndCall, SyncFailed, CallFails, GoTo
<1>12. CASE ApplyConfiguration
  BY <1>12 DEF ApplyConfiguration, SyncFailed, GoTo
<1>13. CASE SetURLsLabels
  BY <1>13 DEF SetURLsLabels, SyncFailed, CallFails, GoTo
<1>14. CASE SyncTimeElapses \/ AttemptTimeElapses
  BY <1>14 DEF SyncTimeElapses, Elapse, AttemptTimeElapses
<1>15. CASE AskForResync \/ AskForRefresh \/ DeleteConnection
  BY <1>15 DEF AskForResync, EditConnection, Edit, AskForRefresh, DeleteConnection
<1>16. CASE InformerSync \/ Resync \/ ChangeConfiguration \/ CompassChanges \/ UNCHANGED vars
  BY <1>16 DEF InformerSync, Resync, ChangeConfiguration, Edit, CompassChanges, vars
<1>17. CASE Crash
  BY <1>17 DEF Crash, Exit, EndCall
<1> QED
  BY <1>1, <1>2, <1>3, <1>4, <1>5, <1>6, <1>7, <1>8, <1>9, <1>10, <1>11, <1>12, <1>13,
     <1>14, <1>15, <1>16, <1>17 DEF Next, Agent, Environment

\* The steps of a call follow one another.
LEMMA CallStep == WorldOK /\ CopiesOK /\ AgentOK /\ CallInv /\ [Next]_vars => CallInv'
<1> SUFFICES ASSUME WorldOK, CopiesOK, AgentOK, CallInv, [Next]_vars PROVE CallInv'
  OBVIOUS
<1> USE DEF CallInv, Establishing, Maintaining, Saving
<1>1. CASE StartAgent \/ StartManager
  BY <1>1 DEF StartAgent, StartManager
<1>2. CASE InitializeCompassConnection
  BY <1>2, ReadEffect, FailEffect, NewConnectionFacts DEF InitializeCompassConnection,
     GoTo
<1>3. CASE FetchConfiguration
  BY <1>3, EstablishFailedEffect DEF FetchConfiguration, GoTo
<1>4. CASE SignCSR
  BY <1>4, EstablishFailedEffect DEF SignCSR, CertificateIssued, CreateCSRFails,
     NewCredentialsFails, GoTo
<1>5. CASE saveClusterCertificateAndKey
  <2>1. \/ pc' = "saveCA" /\ task' = task /\ pc = "saveCert"
        \/ pc' = "report" /\ task' = "maintain"
        \/ pc' = "put" /\ task' = task /\ task # "maintain" /\ pc = "saveCert"
    BY <1>5, PreserveFailedEffect DEF saveClusterCertificateAndKey, GoTo
  <2> QED
    BY <2>1 DEF AgentOK, Tasks
<1>6. CASE saveCACertificate
  <2>1. \/ pc' \in {"sync", "report"} /\ task' = "maintain"
        \/ pc' = "put" /\ task' = task /\ task # "maintain" /\ pc = "saveCA"
    BY <1>6, SavedEffect
  <2> QED
    BY <2>1 DEF AgentOK, Tasks
<1>7. CASE PutConnection \/ ReportMaintenanceFailed \/ UpdateSynchronizationStatus
  BY <1>7, WriteEffect
<1>8. CASE Reconcile
  BY <1>8 DEF Reconcile, GoTo
<1>9. CASE MaintainCompassConnection
  BY <1>9, MaintainEffect
<1>10. CASE RenewCertificate
  BY <1>10, MaintenanceFailedEffect DEF RenewCertificate, CertificateIssued,
     CreateCSRFails, NewCredentialsFails, GoTo
<1>11. CASE SynchronizeWithCompass
  BY <1>11, SynchronizeEffect
<1>12. CASE ApplyConfiguration
  BY <1>12, ApplyEffect
<1>13. CASE SetURLsLabels
  BY <1>13, SynchronizedEffect
<1>14. CASE SyncTimeElapses \/ AttemptTimeElapses
  BY <1>14, ElapseEffect
<1>15. CASE AskForResync \/ AskForRefresh \/ DeleteConnection
  BY <1>15, EditEffect
<1>16. CASE InformerSync \/ Resync \/ ChangeConfiguration \/ CompassChanges \/ UNCHANGED vars
  BY <1>16 DEF InformerSync, Resync, ChangeConfiguration, CompassChanges, vars
<1>17. CASE Crash
  BY <1>17 DEF Crash, Exit, EndCall
<1> QED
  BY <1>1, <1>2, <1>3, <1>4, <1>5, <1>6, <1>7, <1>8, <1>9, <1>10, <1>11, <1>12, <1>13,
     <1>14, <1>15, <1>16, <1>17 DEF Next, Agent, Environment

\* The agent boots once, without a copy of the resource.
LEMMA BootStep ==
  WorldOK /\ CopiesOK /\ AgentOK /\ CallInv /\ BootInv /\ [Next]_vars => BootInv'
<1> SUFFICES ASSUME WorldOK, CopiesOK, AgentOK, CallInv, BootInv, [Next]_vars
             PROVE  BootInv'
  OBVIOUS
<1> USE NoConnectionFacts DEF CallInv, BootInv, Establishing, Maintaining, Saving,
      Keeps, Same
<1>1. CASE StartAgent \/ StartManager
  BY <1>1 DEF StartAgent, StartManager
<1>2. CASE InitializeCompassConnection
  BY <1>2, ReadEffect, FailEffect, NewConnectionFacts DEF InitializeCompassConnection,
     GoTo
<1>3. CASE FetchConfiguration
  BY <1>3, EstablishFailedEffect DEF FetchConfiguration, GoTo
<1>4. CASE SignCSR
  BY <1>4, EstablishFailedEffect DEF SignCSR, CertificateIssued, CreateCSRFails,
     NewCredentialsFails, GoTo
<1>5. CASE saveClusterCertificateAndKey
  BY <1>5, PreserveFailedEffect DEF saveClusterCertificateAndKey, Upserts, GoTo
<1>6. CASE saveCACertificate
  BY <1>6, SavedEffect
<1>7. CASE PutConnection \/ ReportMaintenanceFailed \/ UpdateSynchronizationStatus
  BY <1>7, WriteEffect
<1>8. CASE Reconcile
  BY <1>8 DEF Reconcile, GoTo
<1>9. CASE MaintainCompassConnection
  BY <1>9, MaintainEffect
<1>10. CASE RenewCertificate
  BY <1>10, MaintenanceFailedEffect DEF RenewCertificate, CertificateIssued,
     CreateCSRFails, NewCredentialsFails, GoTo
<1>11. CASE SynchronizeWithCompass
  <2>1. /\ ~booting /\ UNCHANGED <<booting, cache>>
        /\ pc' \in {"idle", "apply", "update"}
    BY <1>11, SynchronizeEffect
  <2> QED
    BY <2>1
<1>12. CASE ApplyConfiguration
  <2>1. /\ pc' \in {"label", "update"} /\ ~booting /\ UNCHANGED <<booting, cache>>
    BY <1>12, ApplyEffect
  <2> QED
    BY <2>1
<1>13. CASE SetURLsLabels
  <2>1. /\ pc' = "update" /\ ~booting /\ UNCHANGED <<booting, cache>>
    BY <1>13, SynchronizedEffect
  <2> QED
    BY <2>1
<1>14. CASE SyncTimeElapses \/ AttemptTimeElapses
  BY <1>14, ElapseEffect
<1>15. CASE AskForResync \/ AskForRefresh \/ DeleteConnection
  <2>1. UNCHANGED <<pc, task, booting, cache>>
    BY <1>15, EditEffect
  <2> QED
    BY <2>1
<1>16. CASE InformerSync \/ Resync \/ ChangeConfiguration \/ CompassChanges \/ UNCHANGED vars
  BY <1>16 DEF InformerSync, Resync, ChangeConfiguration, CompassChanges, vars
<1>17. CASE Crash
  BY <1>17 DEF Crash, Exit, EndCall
<1> QED
  BY <1>1, <1>2, <1>3, <1>4, <1>5, <1>6, <1>7, <1>8, <1>9, <1>10, <1>11, <1>12, <1>13,
     <1>14, <1>15, <1>16, <1>17 DEF Next, Agent, Environment

\* Every write has a state.
LEMMA StateStep ==
  WorldOK /\ CopiesOK /\ AgentOK /\ CallInv /\ StateInv /\ [Next]_vars => StateInv'
<1> SUFFICES ASSUME WorldOK, CopiesOK, AgentOK, CallInv, StateInv, [Next]_vars
             PROVE  StateInv'
  OBVIOUS
<1> USE NoConnectionFacts DEF CallInv, StateInv, Establishing, Maintaining, Saving,
      Keeps, Same
<1>1. CASE StartAgent \/ StartManager
  BY <1>1 DEF StartAgent, StartManager
<1>2. CASE InitializeCompassConnection
  BY <1>2, ReadEffect, FailEffect, NewConnectionFacts DEF InitializeCompassConnection,
     GoTo
<1>3. CASE FetchConfiguration
  BY <1>3, EstablishFailedEffect DEF FetchConfiguration, GoTo
<1>4. CASE SignCSR
  BY <1>4, EstablishFailedEffect DEF SignCSR, CertificateIssued, CreateCSRFails,
     NewCredentialsFails, GoTo
<1>5. CASE saveClusterCertificateAndKey
  BY <1>5, PreserveFailedEffect DEF saveClusterCertificateAndKey, Upserts, GoTo
<1>6. CASE saveCACertificate
  BY <1>6, SavedEffect
<1>7. CASE PutConnection \/ ReportMaintenanceFailed \/ UpdateSynchronizationStatus
  BY <1>7, WriteEffect
<1>8. CASE Reconcile
  BY <1>8 DEF Reconcile, GoTo
<1>9. CASE MaintainCompassConnection
  BY <1>9, MaintainEffect
<1>10. CASE RenewCertificate
  BY <1>10, MaintenanceFailedEffect DEF RenewCertificate, CertificateIssued,
     CreateCSRFails, NewCredentialsFails, GoTo
<1>11. CASE SynchronizeWithCompass
  BY <1>11, SynchronizeEffect
<1>12. CASE ApplyConfiguration
  BY <1>12, ApplyEffect
<1>13. CASE SetURLsLabels
  BY <1>13, SynchronizedEffect
<1>14. CASE SyncTimeElapses \/ AttemptTimeElapses
  BY <1>14, ElapseEffect
<1>15. CASE AskForResync \/ AskForRefresh \/ DeleteConnection
  BY <1>15, EditEffect
<1>16. CASE InformerSync \/ Resync \/ ChangeConfiguration \/ CompassChanges \/ UNCHANGED vars
  BY <1>16 DEF InformerSync, Resync, ChangeConfiguration, CompassChanges, vars
<1>17. CASE Crash
  BY <1>17 DEF Crash, Exit, EndCall
<1> QED
  BY <1>1, <1>2, <1>3, <1>4, <1>5, <1>6, <1>7, <1>8, <1>9, <1>10, <1>11, <1>12, <1>13,
     <1>14, <1>15, <1>16, <1>17 DEF Next, Agent, Environment

\* Certificates are recorded, used and stored in this order.
LEMMA CertsStep ==
  WorldOK /\ CopiesOK /\ AgentOK /\ CertsInv /\ [Next]_vars => CertsInv'
<1> SUFFICES ASSUME WorldOK, CopiesOK, AgentOK, CertsInv, [Next]_vars PROVE CertsInv'
  OBVIOUS
<1> USE NoConnectionFacts, CopyFields DEF WorldOK, AgentOK, ConnectionData, NoData,
      CertsInv, Saving, Keeps, Same
<1>1. CASE StartAgent \/ StartManager
  BY <1>1 DEF StartAgent, StartManager
<1>2. CASE InitializeCompassConnection
  <2>1. UNCHANGED <<issued, certSecret, conn>>
    BY <1>2 DEF InitializeCompassConnection
  <2>2. CASE Fail
    BY <2>1, <2>2, FailEffect
  <2>3. CASE ReadCredentials
    BY <2>1, <2>2, <2>3, ReadEffect
  <2>4. CASE /\ pc' = "establish" /\ UNCHANGED <<cache, data>>
             /\ inst' = conn \/ inst' = [NoConnection EXCEPT !.exists = TRUE]
    <3>1. inst'.cert \in {conn.cert, 0} /\ pc' \notin Saving
      BY <2>4, NewConnectionFacts
    <3> QED
      BY <2>1, <2>4, <3>1
  <2> QED
    BY <1>2, <2>2, <2>3, <2>4 DEF InitializeCompassConnection, GoTo
<1>3. CASE FetchConfiguration
  BY <1>3, EstablishFailedEffect DEF FetchConfiguration, GoTo
<1>4. CASE SignCSR
  BY <1>4, EstablishFailedEffect DEF SignCSR, CertificateIssued, CreateCSRFails,
     NewCredentialsFails, GoTo
<1>5. CASE saveClusterCertificateAndKey
  BY <1>5, PreserveFailedEffect DEF saveClusterCertificateAndKey, Upserts, GoTo
<1>6. CASE saveCACertificate
  BY <1>6, SavedEffect
<1>7. CASE PutConnection \/ ReportMaintenanceFailed \/ UpdateSynchronizationStatus
  BY <1>7, WriteEffect
<1>8. CASE Reconcile
  BY <1>8 DEF Reconcile, GoTo
<1>9. CASE MaintainCompassConnection
  BY <1>9, MaintainEffect
<1>10. CASE RenewCertificate
  BY <1>10, MaintenanceFailedEffect DEF RenewCertificate, CertificateIssued,
     CreateCSRFails, NewCredentialsFails, GoTo
<1>11. CASE SynchronizeWithCompass
  <2>1. /\ UNCHANGED <<issued, certSecret, conn, cache, data>>
        /\ pc' \notin Saving /\ (inst'.cert = inst.cert \/ inst' = NoConnection)
    BY <1>11, SynchronizeEffect
  <2> QED
    BY <2>1
<1>12. CASE ApplyConfiguration
  BY <1>12, ApplyEffect
<1>13. CASE SetURLsLabels
  BY <1>13, SynchronizedEffect
<1>14. CASE SyncTimeElapses \/ AttemptTimeElapses
  BY <1>14, ElapseEffect
<1>15. CASE AskForResync \/ AskForRefresh \/ DeleteConnection
  <2>1. /\ UNCHANGED <<issued, certSecret, cache, inst, data, pc, newCert>>
        /\ conn' = NoConnection \/ conn'.cert = conn.cert
    BY <1>15, EditEffect
  <2> QED
    BY <2>1
<1>16. CASE InformerSync \/ Resync \/ ChangeConfiguration \/ CompassChanges \/ UNCHANGED vars
  BY <1>16 DEF InformerSync, Resync, ChangeConfiguration, CompassChanges, vars
<1>17. CASE Crash
  BY <1>17 DEF Crash, Exit, EndCall
<1> QED
  BY <1>1, <1>2, <1>3, <1>4, <1>5, <1>6, <1>7, <1>8, <1>9, <1>10, <1>11, <1>12, <1>13,
     <1>14, <1>15, <1>16, <1>17 DEF Next, Agent, Environment

\* An established connection has a client.
LEMMA ClientStep ==
  /\ WorldOK /\ CopiesOK /\ AgentOK /\ CallInv /\ BootInv /\ CertsInv /\ ClientInv
  /\ [Next]_vars
  => ClientInv'
<1> SUFFICES ASSUME WorldOK, CopiesOK, AgentOK, CallInv, BootInv, CertsInv, ClientInv,
                    [Next]_vars
             PROVE  ClientInv'
  OBVIOUS
<1> USE NoConnectionFacts, CopyFields DEF WorldOK, AgentOK, ConnectionData, NoData,
      CallInv, BootInv, CertsInv, ClientInv, Saving, Maintaining, Establishing,
      Failed, IsEstablished, Keeps, Same
<1>1. CASE StartAgent \/ StartManager
  BY <1>1 DEF StartAgent, StartManager
<1>2. CASE InitializeCompassConnection
  BY <1>2, ReadEffect, FailEffect, NewConnectionFacts DEF InitializeCompassConnection,
     GoTo
<1>3. CASE FetchConfiguration
  BY <1>3, EstablishFailedEffect DEF FetchConfiguration, GoTo
<1>4. CASE SignCSR
  BY <1>4, EstablishFailedEffect DEF SignCSR, CertificateIssued, CreateCSRFails,
     NewCredentialsFails, GoTo
<1>5. CASE saveClusterCertificateAndKey
  BY <1>5, PreserveFailedEffect DEF saveClusterCertificateAndKey, Upserts, GoTo
<1>6. CASE saveCACertificate
  <2>1. /\ UNCHANGED <<conn, cache, booting, task>> /\ pc = "saveCA"
        /\ pc' = "put" \/ (pc' \in {"sync", "report"} /\ task = "maintain")
    BY <1>6, SavedEffect
  <2>2. newCert # 0
    BY <2>1
  <2>3. CASE /\ data'.cert = newCert /\ inst'.cert = newCert
             /\ pc' = "put" => inst'.state = "Connected"
    BY <2>1, <2>2, <2>3
  <2>4. CASE /\ data' = data /\ inst'.cert = inst.cert
             /\ pc' = "put" => inst'.state = "ConnectionFailed"
    BY <2>1, <2>4
  <2> QED
    BY <1>6, <2>3, <2>4, SavedEffect
<1>7. CASE PutConnection \/ ReportMaintenanceFailed \/ UpdateSynchronizationStatus
  BY <1>7, WriteEffect
<1>8. CASE Reconcile
  BY <1>8 DEF Reconcile, GoTo
<1>9. CASE MaintainCompassConnection
  BY <1>9, MaintainEffect
<1>10. CASE RenewCertificate
  BY <1>10, MaintenanceFailedEffect DEF RenewCertificate, CertificateIssued,
     CreateCSRFails, NewCredentialsFails, GoTo
<1>11. CASE SynchronizeWithCompass
  BY <1>11, SynchronizeEffect
<1>12. CASE ApplyConfiguration
  BY <1>12, ApplyEffect
<1>13. CASE SetURLsLabels
  BY <1>13, SynchronizedEffect
<1>14. CASE SyncTimeElapses \/ AttemptTimeElapses
  BY <1>14, ElapseEffect
<1>15. CASE AskForResync \/ AskForRefresh \/ DeleteConnection
  BY <1>15, EditEffect
<1>16. CASE InformerSync \/ Resync \/ ChangeConfiguration \/ CompassChanges \/ UNCHANGED vars
  BY <1>16 DEF InformerSync, Resync, ChangeConfiguration, CompassChanges, vars
<1>17. CASE Crash
  BY <1>17 DEF Crash, Exit, EndCall
<1> QED
  BY <1>1, <1>2, <1>3, <1>4, <1>5, <1>6, <1>7, <1>8, <1>9, <1>10, <1>11, <1>12, <1>13,
     <1>14, <1>15, <1>16, <1>17 DEF Next, Agent, Environment

\* A current cached copy is the resource.
LEMMA CacheStep ==
  WorldOK /\ CopiesOK /\ AgentOK /\ CallInv /\ StateInv /\ CacheInv /\ [Next]_vars => CacheInv'
<1> SUFFICES ASSUME WorldOK, CopiesOK, AgentOK, CallInv, StateInv, CacheInv, [Next]_vars
             PROVE  CacheInv'
  OBVIOUS
<1> USE NoConnectionFacts DEF CallInv, StateInv, CacheInv, Maintaining, Establishing,
      Keeps, Same
<1>1. CASE StartAgent \/ StartManager
  <2>1. conn' = conn /\ (UNCHANGED <<cache, cacheFresh>> \/ cache' = conn)
    BY <1>1 DEF StartAgent, StartManager
  <2>2. CASE UNCHANGED <<cache, cacheFresh>>
    BY <2>1, <2>2
  <2>3. CASE cache' = conn
    BY <2>1, <2>3
  <2> QED
    BY <2>1, <2>2, <2>3
<1>2. CASE InitializeCompassConnection
  <2>1. conn' = conn /\ (UNCHANGED <<cache, cacheFresh>> \/ ~cacheFresh')
    BY <1>2, ReadEffect, FailEffect DEF InitializeCompassConnection
  <2>2. CASE UNCHANGED <<cache, cacheFresh>>
    BY <2>1, <2>2
  <2>3. CASE ~cacheFresh'
    BY <2>1, <2>3
  <2> QED
    BY <2>1, <2>2, <2>3
<1>3. CASE FetchConfiguration
  BY <1>3, EstablishFailedEffect DEF FetchConfiguration, GoTo
<1>4. CASE SignCSR
  BY <1>4, EstablishFailedEffect DEF SignCSR, CertificateIssued, CreateCSRFails,
     NewCredentialsFails, GoTo
<1>5. CASE saveClusterCertificateAndKey
  BY <1>5, PreserveFailedEffect DEF saveClusterCertificateAndKey, Upserts, GoTo
<1>6. CASE saveCACertificate
  <2>1. UNCHANGED <<conn, cache, cacheFresh>>
    BY <1>6 DEF saveCACertificate
  <2> QED
    BY <2>1
<1>7. CASE PutConnection \/ ReportMaintenanceFailed \/ UpdateSynchronizationStatus
  BY <1>7, WriteEffect
<1>8. CASE Reconcile
  BY <1>8 DEF Reconcile, GoTo
<1>9. CASE MaintainCompassConnection
  <2>1. UNCHANGED <<conn, cache, cacheFresh>>
    BY <1>9 DEF MaintainCompassConnection
  <2> QED
    BY <2>1
<1>10. CASE RenewCertificate
  BY <1>10, MaintenanceFailedEffect DEF RenewCertificate, CertificateIssued,
     CreateCSRFails, NewCredentialsFails, GoTo
<1>11. CASE SynchronizeWithCompass
  <2>1. UNCHANGED <<conn, cache, cacheFresh>>
    BY <1>11, SynchronizeEffect
  <2> QED
    BY <2>1
<1>12. CASE ApplyConfiguration
  <2>1. UNCHANGED <<conn, cache, cacheFresh>>
    BY <1>12 DEF ApplyConfiguration
  <2> QED
    BY <2>1
<1>13. CASE SetURLsLabels
  <2>1. UNCHANGED <<conn, cache, cacheFresh>>
    BY <1>13 DEF SetURLsLabels
  <2> QED
    BY <2>1
<1>14. CASE SyncTimeElapses \/ AttemptTimeElapses
  <2>1. cacheFresh' = cacheFresh /\ (cache = conn => cache' = conn')
    BY <1>14, ElapseEffect
  <2>2. Same(conn, conn')
    BY <1>14, ElapseEffect
  <2> QED
    BY <2>1, <2>2
<1>15. CASE AskForResync \/ AskForRefresh \/ DeleteConnection
  BY <1>15, EditEffect
<1>16. CASE InformerSync \/ Resync \/ ChangeConfiguration \/ CompassChanges \/ UNCHANGED vars
  <2>1. conn' = conn /\ (UNCHANGED <<cache, cacheFresh>> \/ cache' = conn)
    BY <1>16 DEF InformerSync, Resync, ChangeConfiguration, CompassChanges, vars
  <2>2. CASE UNCHANGED <<cache, cacheFresh>>
    BY <2>1, <2>2
  <2>3. CASE cache' = conn
    BY <2>1, <2>3
  <2> QED
    BY <2>1, <2>2, <2>3
<1>17. CASE Crash
  BY <1>17 DEF Crash, Exit, EndCall
<1> QED
  BY <1>1, <1>2, <1>3, <1>4, <1>5, <1>6, <1>7, <1>8, <1>9, <1>10, <1>11, <1>12, <1>13,
     <1>14, <1>15, <1>16, <1>17 DEF Next, Agent, Environment

\* A flag is missing from a current copy only if it was served.
LEMMA ServedStep ==
  /\ WorldOK /\ CopiesOK /\ AgentOK /\ CallInv /\ CertsInv /\ CacheInv /\ ServedInv
  /\ [Next]_vars
  => ServedInv'
<1> SUFFICES ASSUME WorldOK, CopiesOK, AgentOK, CallInv, CertsInv, CacheInv, ServedInv,
                    [Next]_vars
             PROVE  ServedInv'
  OBVIOUS
<1> USE NoConnectionFacts, CopyFields DEF AgentOK, CallInv, CertsInv, CacheInv,
      ServedInv, Saving, Maintaining, Establishing, Keeps, Same
<1>1. CASE StartAgent \/ StartManager
  BY <1>1 DEF StartAgent, StartManager
<1>2. CASE InitializeCompassConnection
  BY <1>2, ReadEffect, FailEffect, NewConnectionFacts DEF InitializeCompassConnection,
     GoTo
<1>3. CASE FetchConfiguration
  BY <1>3, EstablishFailedEffect DEF FetchConfiguration, GoTo
<1>4. CASE SignCSR
  BY <1>4, EstablishFailedEffect DEF SignCSR, CertificateIssued, CreateCSRFails,
     NewCredentialsFails, GoTo
<1>5. CASE saveClusterCertificateAndKey
  BY <1>5, PreserveFailedEffect DEF saveClusterCertificateAndKey, Upserts, GoTo
<1>6. CASE saveCACertificate
  <2>1. /\ UNCHANGED <<conn, fresh, task, served>> /\ pc = "saveCA"
        /\ pc' \in {"sync", "put", "report"} /\ (inst'.resyncNow <=> inst.resyncNow)
        /\ \/ inst'.cert = newCert
           \/ inst'.cert = inst.cert /\ (inst'.refreshNow <=> inst.refreshNow)
    BY <1>6, SavedEffect
  <2>2. conn.cert < newCert
    BY <2>1
  <2> QED
    BY <2>1, <2>2
<1>7. CASE PutConnection \/ ReportMaintenanceFailed \/ UpdateSynchronizationStatus
  BY <1>7, WriteEffect
<1>8. CASE Reconcile
  BY <1>8 DEF Reconcile, GoTo
<1>9. CASE MaintainCompassConnection
  BY <1>9, MaintainEffect
<1>10. CASE RenewCertificate
  BY <1>10, MaintenanceFailedEffect DEF RenewCertificate, CertificateIssued,
     CreateCSRFails, NewCredentialsFails, GoTo
<1>11. CASE SynchronizeWithCompass
  <2>1. UNCHANGED conn
    BY <1>11, SynchronizeEffect
  <2>2. CASE pc' = "apply" /\ served' = TRUE /\ UNCHANGED <<task, inst, fresh>>
    BY <2>1, <2>2
  <2>3. CASE ~fresh'
    BY <2>3
  <2>4. CASE pc' = "update" /\ Keeps(inst, inst') /\ UNCHANGED <<task, fresh, served>>
    BY <2>1, <2>4
  <2> QED
    BY <1>11, <2>2, <2>3, <2>4, SynchronizeEffect
<1>12. CASE ApplyConfiguration
  <2>1. UNCHANGED <<conn, served, task, fresh>> /\ pc = "apply"
    BY <1>12, ApplyEffect
  <2>2. Keeps(inst, inst') \/ inst' = inst
    BY <1>12, ApplyEffect
  <2> QED
    BY <2>1, <2>2
<1>13. CASE SetURLsLabels
  <2>1. UNCHANGED <<conn, served, task, fresh>> /\ pc = "label" /\ pc' = "update"
    BY <1>13, SynchronizedEffect
  <2>2. inst'.cert = inst.cert /\ (inst'.refreshNow <=> inst.refreshNow)
    BY <1>13, SynchronizedEffect
  <2> QED
    BY <2>1, <2>2
<1>14. CASE SyncTimeElapses \/ AttemptTimeElapses
  BY <1>14, ElapseEffect
<1>15. CASE AskForResync \/ AskForRefresh \/ DeleteConnection
  BY <1>15, EditEffect
<1>16. CASE InformerSync \/ Resync \/ ChangeConfiguration \/ CompassChanges \/ UNCHANGED vars
  BY <1>16 DEF InformerSync, Resync, ChangeConfiguration, CompassChanges, vars
<1>17. CASE Crash
  BY <1>17 DEF Crash, Exit, EndCall
<1> QED
  BY <1>1, <1>2, <1>3, <1>4, <1>5, <1>6, <1>7, <1>8, <1>9, <1>10, <1>11, <1>12, <1>13,
     <1>14, <1>15, <1>16, <1>17 DEF Next, Agent, Environment

\* A connection that is being established was not.
LEMMA TokenStep ==
  WorldOK /\ CopiesOK /\ AgentOK /\ TokenInv /\ [Next]_vars => TokenInv'
<1> SUFFICES ASSUME WorldOK, CopiesOK, AgentOK, TokenInv, [Next]_vars PROVE TokenInv'
  OBVIOUS
<1> USE NoConnectionFacts DEF TokenInv, Failed, Keeps, Same
<1>1. CASE StartAgent \/ StartManager
  BY <1>1 DEF StartAgent, StartManager
<1>2. CASE InitializeCompassConnection
  BY <1>2, ReadEffect, FailEffect, NewConnectionFacts DEF InitializeCompassConnection,
     GoTo
<1>3. CASE FetchConfiguration
  BY <1>3, EstablishFailedEffect DEF FetchConfiguration, GoTo
<1>4. CASE SignCSR
  BY <1>4, EstablishFailedEffect DEF SignCSR, CertificateIssued, CreateCSRFails,
     NewCredentialsFails, GoTo
<1>5. CASE saveClusterCertificateAndKey
  BY <1>5, PreserveFailedEffect DEF saveClusterCertificateAndKey, Upserts, GoTo
<1>6. CASE saveCACertificate
  BY <1>6, SavedEffect
<1>7. CASE PutConnection \/ ReportMaintenanceFailed \/ UpdateSynchronizationStatus
  BY <1>7, WriteEffect
<1>8. CASE Reconcile
  BY <1>8 DEF Reconcile, GoTo
<1>9. CASE MaintainCompassConnection
  BY <1>9, MaintainEffect
<1>10. CASE RenewCertificate
  BY <1>10, MaintenanceFailedEffect DEF RenewCertificate, CertificateIssued,
     CreateCSRFails, NewCredentialsFails, GoTo
<1>11. CASE SynchronizeWithCompass
  BY <1>11, SynchronizeEffect
<1>12. CASE ApplyConfiguration
  BY <1>12, ApplyEffect
<1>13. CASE SetURLsLabels
  BY <1>13, SynchronizedEffect
<1>14. CASE SyncTimeElapses \/ AttemptTimeElapses
  BY <1>14, ElapseEffect
<1>15. CASE AskForResync \/ AskForRefresh \/ DeleteConnection
  BY <1>15, EditEffect
<1>16. CASE InformerSync \/ Resync \/ ChangeConfiguration \/ CompassChanges \/ UNCHANGED vars
  BY <1>16 DEF InformerSync, Resync, ChangeConfiguration, CompassChanges, vars
<1>17. CASE Crash
  BY <1>17 DEF Crash, Exit, EndCall
<1> QED
  BY <1>1, <1>2, <1>3, <1>4, <1>5, <1>6, <1>7, <1>8, <1>9, <1>10, <1>11, <1>12, <1>13,
     <1>14, <1>15, <1>16, <1>17 DEF Next, Agent, Environment

-----------------------------------------------------------------------------

\* The parts of the invariant say that every variable has its type.
LEMMA PartsGiveTypes == TypeParts /\ StateInv => TypeOK
  BY DEF TypeParts, StateInv, TypeOK, WorldOK, CopiesOK, AgentOK, FlagsOK, BoundsOK

\* The initial states satisfy the invariant.
LEMMA InitIInv == Init => IInv
<1> SUFFICES ASSUME Init PROVE IInv
  OBVIOUS
<1> USE DEF Init
<1>1. WorldOK
  BY DEF WorldOK
<1>2. CopiesOK
  BY NoConnectionFacts DEF CopiesOK
<1>3. AgentOK
  BY DEF AgentOK, Steps, Tasks, ConnectionData, NoData
<1>4. FlagsOK
  BY DEF FlagsOK
<1>5. BoundsOK
  BY BoundsAssumption DEF BoundsOK
<1>6. CallInv /\ BootInv /\ StateInv
  BY NoConnectionFacts DEF CallInv, BootInv, StateInv, Maintaining, Establishing, Saving
<1>7. CertsInv
  BY NoConnectionFacts DEF CertsInv, Saving, NoData
<1>8. ClientInv
  BY NoConnectionFacts DEF ClientInv, IsEstablished
<1>9. CacheInv
  BY NoConnectionFacts DEF CacheInv
<1>10. ServedInv /\ TokenInv
  BY DEF ServedInv, TokenInv
<1> QED
  BY <1>1, <1>2, <1>3, <1>4, <1>5, <1>6, <1>7, <1>8, <1>9, <1>10 DEF IInv, TypeParts

\* A step keeps the invariant.
LEMMA StepIInv == IInv /\ [Next]_vars => IInv'
  BY WorldStep, CopiesStep, AgentStep, FlagsStep, BoundsStep, CallStep, BootStep, StateStep,
     CertsStep, ClientStep, CacheStep, ServedStep, TokenStep DEF IInv, TypeParts

\* IInv holds in every reachable state, whatever fails and however often.
THEOREM InductiveInvariant == Spec => []IInv
  BY InitIInv, StepIInv, PTL DEF Spec

\* Every variable has its type, and a stored CompassConnection has a state.
THEOREM TypeCorrect == Spec => []TypeOK
<1>1. IInv => TypeOK
  BY PartsGiveTypes DEF IInv
<1> QED
  BY InductiveInvariant, <1>1, PTL

\* A connection that is not ConnectionFailed has its certificate in the cluster secret:
\* InitializeCompassConnection finds credentials after any crash.
THEOREM EstablishedIsStored == Spec => []EstablishedMeansStored
<1>1. IInv => EstablishedMeansStored
  BY CopyFields DEF IInv, TypeParts, CertsInv, ClientInv, IsEstablished, Failed,
     EstablishedMeansStored, WorldOK
<1> QED
  BY InductiveInvariant, <1>1, PTL

\* The recorded certificate is never newer than the one in use, nor this one newer than
\* the stored one.
THEOREM RecordedIsUsed == Spec => []RecordedNotNewerThanUsed
<1>1. IInv => RecordedNotNewerThanUsed
  BY DEF IInv, CertsInv, RecordedNotNewerThanUsed
<1> QED
  BY InductiveInvariant, <1>1, PTL

\* Whatever a lagging informer shows, a maintenance has an mTLS client.
THEOREM MaintenanceFindsClient == Spec => []MaintenanceHasClient
<1>1. IInv => MaintenanceHasClient
  BY DEF IInv, CallInv, ClientInv, Maintaining, MaintenanceHasClient
<1> QED
  BY InductiveInvariant, <1>1, PTL

\* Who changes the flags of the resource: the write of a call with a current copy.  The
\* users only set them, or delete the resource.
LEMMA WhoTakesFlagsBack ==
  ASSUME IInv, [Next]_vars, conn'.exists,
         \/ conn.resyncNow /\ ~conn'.resyncNow
         \/ conn.refreshNow /\ ~conn'.refreshNow
  PROVE  conn' = inst /\ fresh /\ task \in {"reestablish", "maintain"}
<1> USE DEF IInv, TypeParts
<1>1. CASE PutConnection \/ ReportMaintenanceFailed \/ UpdateSynchronizationStatus
  <2>1. conn' = inst /\ Accepted
    BY <1>1, WriteEffect
  <2>2. conn.exists
    BY DEF CacheInv
  <2>3. task # "none" /\ task \in Tasks
    BY <1>1, WriteEffect DEF CallInv, AgentOK, Establishing, Maintaining
  <2> QED
    BY <2>1, <2>2, <2>3 DEF Accepted, Tasks
<1>2. CASE SyncTimeElapses \/ AttemptTimeElapses
  BY <1>2, ElapseEffect DEF Same, Keeps
<1>3. CASE AskForResync \/ AskForRefresh \/ DeleteConnection
  BY <1>3, EditEffect, NoConnectionFacts
<1>4. CASE conn' = conn
  BY <1>4
<1>5. CASE StartAgent \/ StartManager \/ InitializeCompassConnection \/ FetchConfiguration
           \/ SignCSR \/ saveClusterCertificateAndKey \/ saveCACertificate
  BY <1>4, <1>5 DEF StartAgent, StartManager, InitializeCompassConnection,
     FetchConfiguration, SignCSR, saveClusterCertificateAndKey, saveCACertificate
<1>6. CASE Reconcile \/ MaintainCompassConnection \/ RenewCertificate
           \/ SynchronizeWithCompass \/ ApplyConfiguration \/ SetURLsLabels
  BY <1>4, <1>6 DEF Reconcile, MaintainCompassConnection, RenewCertificate,
     SynchronizeWithCompass, ApplyConfiguration, SetURLsLabels
<1>7. CASE InformerSync \/ Resync \/ ChangeConfiguration \/ CompassChanges \/ Crash
           \/ UNCHANGED vars
  BY <1>4, <1>7 DEF InformerSync, Resync, ChangeConfiguration, CompassChanges, Crash, vars
<1> QED
  BY <1>1, <1>2, <1>3, <1>5, <1>6, <1>7 DEF Next, Agent, Environment

\* resyncNow is taken back only by a synchronisation that began after it was set.
THEOREM ResyncServed == Spec => ResyncIsServed
<1>1. IInv /\ [Next]_vars =>
        [conn.resyncNow /\ conn'.exists /\ ~conn'.resyncNow => served]_vars
  <2> SUFFICES ASSUME IInv, [Next]_vars, conn.resyncNow, conn'.exists, ~conn'.resyncNow
               PROVE  served
    OBVIOUS
  <2>1. conn' = inst /\ fresh /\ task \in {"reestablish", "maintain"}
    BY WhoTakesFlagsBack
  <2> QED
    BY <2>1 DEF IInv, ServedInv
<1> QED
  BY InductiveInvariant, <1>1, PTL DEF Spec, ResyncIsServed

\* refreshCredentialsNow is taken back only with the dates of a newer certificate.
THEOREM RefreshServed == Spec => RefreshIsServed
<1>1. IInv /\ [Next]_vars =>
        [conn.refreshNow /\ conn'.exists /\ ~conn'.refreshNow => conn'.cert > conn.cert]_vars
  <2> SUFFICES ASSUME IInv, [Next]_vars, conn.refreshNow, conn'.exists, ~conn'.refreshNow
               PROVE  conn'.cert > conn.cert
    OBVIOUS
  <2>1. conn' = inst /\ fresh /\ task \in {"reestablish", "maintain"}
    BY WhoTakesFlagsBack
  <2> QED
    BY <2>1 DEF IInv, ServedInv
<1> QED
  BY InductiveInvariant, <1>1, PTL DEF Spec, RefreshIsServed

\* Only the establishing of a missing or failed connection spends a token.
LEMMA WhoSpendsToken ==
  ASSUME [Next]_vars, token = "fresh", token' = "spent"
  PROVE  pc = "establish"
<1>1. CASE FetchConfiguration
  BY <1>1 DEF FetchConfiguration
<1>2. CASE StartAgent \/ StartManager \/ InitializeCompassConnection \/ SignCSR
           \/ saveClusterCertificateAndKey \/ saveCACertificate
  BY <1>2 DEF StartAgent, StartManager, InitializeCompassConnection, SignCSR,
     saveClusterCertificateAndKey, saveCACertificate
<1>3. CASE Reconcile \/ MaintainCompassConnection \/ RenewCertificate
           \/ SynchronizeWithCompass \/ ApplyConfiguration \/ SetURLsLabels
  BY <1>3 DEF Reconcile, MaintainCompassConnection, RenewCertificate,
     SynchronizeWithCompass, ApplyConfiguration, SetURLsLabels
<1>4. CASE PutConnection \/ ReportMaintenanceFailed \/ UpdateSynchronizationStatus
  BY <1>4, WriteEffect
<1>5. CASE InformerSync \/ Resync \/ CompassChanges \/ Crash \/ UNCHANGED vars
  BY <1>5 DEF InformerSync, Resync, CompassChanges, Crash, vars
<1>6. CASE SyncTimeElapses \/ AttemptTimeElapses
  BY <1>6 DEF SyncTimeElapses, AttemptTimeElapses, Elapse
<1>7. CASE AskForResync \/ AskForRefresh \/ DeleteConnection \/ ChangeConfiguration
  BY <1>7 DEF AskForResync, AskForRefresh, DeleteConnection, EditConnection,
     ChangeConfiguration
<1> QED
  BY <1>1, <1>2, <1>3, <1>4, <1>5, <1>6, <1>7 DEF Next, Agent, Environment

\* An established connection leaves the one-time token alone.
THEOREM TokenIsLeftAlone == Spec => ConnectedIgnoresToken
<1>1. IInv /\ [Next]_vars =>
        [token = "fresh" /\ token' = "spent" =>
            ~conn.exists \/ conn.state = "ConnectionFailed"]_vars
  BY WhoSpendsToken DEF IInv, TokenInv, Failed
<1> QED
  BY InductiveInvariant, <1>1, PTL DEF Spec, ConnectedIgnoresToken
=============================================================================
