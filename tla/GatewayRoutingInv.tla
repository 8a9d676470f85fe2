------------------------- MODULE GatewayRoutingInv -------------------------
(***************************************************************************)
(* The inductive invariants of GatewayRouting, in the parts their proofs   *)
(* use: one for the types, which holds of all names, and one for routing,  *)
(* which needs that names can be told apart.                               *)
(***************************************************************************)
EXTENDS GatewayRouting

\* The type invariant in parts.
AppsOK ==
    /\ apps \in [Apps -> Contents \cup {NoApp}]
    /\ appCache \in [Apps -> Contents \cup {Nil}]
    /\ seen \in [Apps -> SUBSET Contents]

ProxiesOK ==
    /\ proxyCache \in [Handlers -> [CacheKeys -> ProxyIds \cup {Nil}]]
    /\ proxies \in [ProxyIds -> Proxies \cup {Nil}]

RequestsOK == req \in [Requests -> RequestType]

BoundsOK == changes \in 0..MaxChanges /\ faults \in 0..MaxFaults

TypeParts == AppsOK /\ ProxiesOK /\ RequestsOK /\ BoundsOK

\* What a request has at which step: the names of its path, the copy of the Application,
\* the target, the proxy, the location.
Flow(x) ==
    /\ x.pc # "idle" => x.id \in Identifiers[x.handler]
    /\ x.pc = "add" => x.id[1] \in Apps /\ x.app \in Contents
    /\ x.pc \in {"proxy", "create", "modify"} => x.target \in AllTargets
    /\ x.pc \in {"modify", "send", "respond"} <=> x.proxy # Nil
    /\ x.pc = "respond" => x.loc \in Locations

FlowInv == \A r \in Requests : Flow(req[r])

\* A reverse proxy that is referred to is there.
LiveInv == \A i \in InUse : proxies[i] # Nil

TInv == TypeParts /\ FlowInv /\ LiveInv

-----------------------------------------------------------------------------

\* What two APIs of one handler are cached under tells them apart.
KeysTellApart ==
    \A h \in Handlers : \A id1, id2 \in Identifiers[h] : cacheKey(id1) = cacheKey(id2) => id1 = id2

\* The last name of an API is not empty, and no location has two slashes in a row, of which
\* JoinPath would make one.
PathsAreClean ==
    /\ \A id \in AllIdentifiers : Last(id) # <<>>
    /\ \A l \in Locations : \A k \in 1..(Len(l.path) - 1) : l.path[k] # <<>>

\* The Application has registered the target, alone under the names.
Registered(history, id, target) ==
    /\ id[1] \in Apps
    /\ \E content \in history[id[1]] : \E e \in content :
          Matches(content, id) = {e} /\ e.target = target

\* What the gateway has read of an Application is what it was at some time.
SeenInv ==
    /\ \A a \in Apps : apps[a] # NoApp => apps[a] \in seen[a]
    /\ \A a \in Apps : appCache[a] # Nil => appCache[a] \in seen[a]
    /\ \A r \in Requests : At(r, "add") => req[r].app \in seen[req[r].id[1]]

TargetInv ==
    \A r \in Requests :
        req[r].pc \in {"proxy", "create", "modify"} => Registered(seen, req[r].id, req[r].target)

\* Whoever refers to a reverse proxy, by handler and names.
Caches(cache, i, h, id) == id \in Identifiers[h] /\ cache[h][cacheKey(id)] = i

Holds(x, i, h, id) == x.proxy = i /\ x.handler = h /\ x.id = id

Refers(cache, requests, i, h, id) ==
    Caches(cache, i, h, id) \/ \E r \in Requests : Holds(requests[r], i, h, id)

\* All who refer to a proxy mean the same API.
OneApiInv ==
    \A i \in ProxyIds, g, h \in Handlers, id1, id2 \in AllIdentifiers :
        Refers(proxyCache, req, i, g, id1) /\ Refers(proxyCache, req, i, h, id2)
        => g = h /\ id1 = id2

\* It goes to a target that was registered for this API, and its ModifyResponse is for the
\* path of this API and for a target of it.
ProxyInv ==
    \A i \in ProxyIds, h \in Handlers, id \in AllIdentifiers :
        Refers(proxyCache, req, i, h, id) =>
            /\ Registered(seen, id, proxies[i].target)
            /\ proxies[i].modify # Nil =>
                 /\ proxies[i].modify.gateway = id
                 /\ Registered(seen, id, proxies[i].modify.target)

\* A request that was sent has set ModifyResponse.
ModifyInv ==
    \A r \in Requests :
        req[r].pc \in {"send", "respond"} => proxies[req[r].proxy].modify # Nil

RInv == TInv /\ KeysTellApart /\ SeenInv /\ TargetInv /\ OneApiInv /\ ProxyInv /\ ModifyInv
=============================================================================
