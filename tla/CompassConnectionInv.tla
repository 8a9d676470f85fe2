------------------------- MODULE CompassConnectionInv -------------------------
(***************************************************************************)
(* The inductive invariant of CompassConnection, in the parts its proof    *)
(* uses.                                                                   *)
(***************************************************************************)
EXTENDS CompassConnection

\* The steps of a call that establishes the connection, of one that maintains it,
\* and those in which a new certificate is stored, which both calls have.
Establishing == {"establish", "sign", "put"}
Maintaining == {"maintain", "renew", "report", "sync", "apply", "label", "update"}
Saving == {"saveCert", "saveCA"}

IsEstablished(c) == c.exists /\ ~Failed(c)

\* The type invariant in parts: Compass and the secrets, the copies of the resource,
\* the agent and its call, the flags, and the bounded counters.
WorldOK ==
    /\ url \in Urls /\ issued \in Nat /\ due \in Nat /\ expired \in Nat
    /\ token \in {"none", "fresh", "spent"} /\ certSecret \in Nat

CopiesOK ==
    /\ conn \in CompassConnections /\ cache \in CompassConnections
    /\ inst \in CompassConnections

AgentOK ==
    /\ pc \in Steps /\ task \in Tasks /\ data \in ConnectionData
    /\ newCert \in Nat /\ info \in Urls \cup {NoUrl}

FlagsOK ==
    /\ caSecret \in BOOLEAN /\ cacheFresh \in BOOLEAN /\ queued \in BOOLEAN
    /\ tick \in BOOLEAN /\ booting \in BOOLEAN /\ fresh \in BOOLEAN /\ served \in BOOLEAN

BoundsOK == stale \in 0..MaxStale /\ faults \in 0..MaxFaults /\ edits \in 0..MaxEdits

TypeParts == WorldOK /\ CopiesOK /\ AgentOK /\ FlagsOK /\ BoundsOK

\* Which call is in progress.
CallInv ==
    /\ pc \in Maintaining => task = "maintain"
    /\ pc \in Establishing => task \in {"create", "reestablish"}
    /\ pc \in Saving => task # "none"
    /\ pc \in {"down", "starting", "idle", "initialize"} => task = "none"

\* The agent boots until the manager is started, and then has a copy of the resource.
BootInv ==
    /\ pc \in {"down", "idle"} \/ task = "maintain" => ~booting
    /\ pc = "starting" => booting
    /\ booting \/ pc = "down" => ~cache.exists

\* What is written is a resource with a state.
StateInv ==
    /\ conn.exists => conn.state # ""
    /\ task # "none" => inst.exists
    /\ pc \in {"put", "report", "update"} => inst.state # ""

\* The order of the certificates: no copy of the resource records a certificate that
\* is newer than the stored one or, once there is a client, than the one it uses.
\* A certificate that is being stored is the newest of all.
CertsInv ==
    /\ data.cert <= certSecret /\ certSecret <= issued
    /\ \A c \in {conn, cache, inst} :
         c.cert <= certSecret /\ (data.cert # 0 => c.cert <= data.cert)
    /\ pc \in Saving => newCert = issued /\ conn.cert < newCert
    /\ pc = "saveCA" => certSecret = newCert

\* An established connection has a certificate, and the agent that has seen it
\* established has a client.
ClientInv ==
    /\ IsEstablished(conn) => conn.cert # 0
    /\ IsEstablished(cache) => cache.cert # 0
    /\ task = "maintain" => inst.cert # 0 /\ data.cert # 0
    /\ pc = "put" => Failed(inst) \/ (inst.state = "Connected" /\ inst.cert # 0 /\ data.cert # 0)
    /\ /\ pc = "starting" \/ (pc # "down" /\ ~booting)
       /\ IsEstablished(conn) \/ IsEstablished(cache)
       => data.cert # 0

\* A cached copy that carries the current version is the resource.
CacheInv ==
    /\ cacheFresh => cache = conn
    /\ ~conn.exists => ~conn.resyncNow /\ ~conn.refreshNow

\* The copy of a call that carries the current version has the flags of the resource,
\* except for those that the call has served.
ServedInv ==
    /\ fresh /\ task \in {"reestablish", "maintain"} /\ conn.resyncNow /\ ~inst.resyncNow
         => served
    /\ fresh /\ task \in {"reestablish", "maintain"} /\ conn.refreshNow /\ ~inst.refreshNow
         => inst.cert > conn.cert
    /\ fresh /\ pc \in {"apply", "label"} => served

\* Only a connection that is missing or failed is established.
TokenInv == pc = "establish" => ~conn.exists \/ Failed(conn)

IInv ==
    /\ TypeParts /\ CallInv /\ BootInv /\ StateInv
    /\ CertsInv /\ ClientInv /\ CacheInv /\ ServedInv /\ TokenInv
=============================================================================
