----------------------- MODULE GatewayRoutingProofs -----------------------
(***************************************************************************)
(* Proofs about GatewayRouting, from the invariants of GatewayRoutingInv.  *)
(*                                                                         *)
(* Types: a reverse proxy is there as long as a cache entry or a request   *)
(* refers to it (LiveInv), which needs to know where a request has a proxy *)
(* (FlowInv).  This holds of all names.                                    *)
(*                                                                         *)
(* Routing: all who refer to a proxy, from a cache or in a request, mean   *)
(* one API (OneApiInv), so that it goes where this API was registered and  *)
(* its ModifyResponse is for the path of this API whoever has set it       *)
(* (ProxyInv).  A step takes a reference from the cache entry of its own   *)
(* names, or makes a proxy to which no one refers; it therefore matters    *)
(* that the cache keys of a handler tell its APIs apart (KeysTellApart),   *)
(* which is a hypothesis: names in general do not satisfy it.              *)
(*                                                                         *)
(* A step of a request changes this request alone (Moves).  The lemmas     *)
(* called Effect say what each step does to it; Kept and Adds say what a   *)
(* step does to the proxies in use.                                        *)
(***************************************************************************)
EXTENDS GatewayPathProofs, FiniteSetTheorems

USE DEF NoFault, At

-----------------------------------------------------------------------------
(* Names and registered APIs                                               *)

\* The names of a path with enough of them.
LEMMA IdFacts ==
  ASSUME NEW c \in Calls, Extractable(c.handler, c.path)
  PROVE  /\ c.handler \in Handlers
         /\ apiIdentifier(c.handler, c.path) \in Identifiers[c.handler]
  BY CallsAssumption DEF Identifiers

\* The names of a handler are names, and have a key.
LEMMA KeyFacts ==
  ASSUME NEW h \in Handlers, NEW id \in Identifiers[h]
  PROVE  id \in AllIdentifiers /\ cacheKey(id) \in CacheKeys
  BY DEF AllIdentifiers, CacheKeys

\* What is found is the one match, and its target is one that is registered.
LEMMA FoundFacts ==
  ASSUME NEW content \in Contents, NEW id, found(content, id)
  PROVE  /\ \E e \in content : Matches(content, id) = {e} /\ e.target = convert(content, id)
         /\ convert(content, id) \in AllTargets
<1>1. IsFiniteSet(Matches(content, id))
  <2>1. IsFiniteSet(content) /\ Matches(content, id) \subseteq content
    BY ContentsAssumption DEF Matches
  <2> QED
    BY <2>1, FS_Subset
<1>2. PICK e : Matches(content, id) = {e}
  BY <1>1, FS_Singleton DEF found
<1>3. e \in content
  BY <1>2 DEF Matches
<1>4. convert(content, id) = e.target
  BY <1>2 DEF convert
<1>5. e.target \in AllTargets
  BY <1>3 DEF AllTargets
<1> QED
  BY <1>2, <1>3, <1>4, <1>5

\* What is not set is no value.
LEMMA NilFacts == Nil \notin Proxies /\ Nil \notin ProxyIds /\ Nil \notin Modifiers /\ Nil \notin Contents
  BY ValuesAssumption, ContentsAssumption

-----------------------------------------------------------------------------
(* What the steps do to their request                                      *)

\* Only the request r changes.
Moves(r) ==
    /\ req' \in [Requests -> RequestType]
    /\ \A q \in Requests \ {r} : req'[q] = req[q]

Idle(x) == x.pc = "idle" /\ x.proxy = Nil

\* y is for the same call as x.
SameCall(x, y) == y.handler = x.handler /\ y.id = x.id /\ y.path = x.path

\* A request is set to y.
LEMMA GoMoves ==
  ASSUME RequestsOK, NEW r \in Requests, NEW y \in RequestType, Go(r, y)
  PROVE  Moves(r) /\ req'[r] = y
  BY DEF RequestsOK, Go, Moves

\* The steps of a request.
Pcs == {"idle", "get", "add", "proxy", "create", "modify", "send", "respond"}

\* The fields of a request.
LEMMA RequestFields ==
  ASSUME RequestsOK, NEW r \in Requests
  PROVE  /\ req[r] \in RequestType /\ req[r].handler \in Handlers
         /\ req[r].id \in AllIdentifiers \cup {Nil} /\ req[r].app \in Contents \cup {Nil}
         /\ req[r].target \in AllTargets \cup {Nil} /\ req[r].proxy \in ProxyIds \cup {Nil}
         /\ req[r].pc \in Pcs
  BY DEF RequestsOK, RequestType, Pcs

\* The request that is not there.
LEMMA NoRequestFacts == NoRequest \in RequestType /\ Idle(NoRequest)
  BY DEF NoRequest, RequestType, Idle, Handlers

\* An answered request is forgotten.
LEMMA AnswerEffect ==
  ASSUME RequestsOK, NEW r \in Requests, Answer(r)
  PROVE  Moves(r) /\ Idle(req'[r])
  BY NoRequestFacts, GoMoves DEF Answer

\* With the API of a request in hand, or without.
LEMMA WithAPIFacts ==
  ASSUME NEW x \in RequestType, NEW content \in Contents
  PROVE  LET y == withAPI(x, content)
         IN  /\ y \in RequestType
             /\ \/ Idle(y)
                \/ /\ y.pc = "proxy" /\ SameCall(x, y) /\ y.proxy = x.proxy
                   /\ y.target \in AllTargets
                   /\ \E e \in content : Matches(content, x.id) = {e} /\ e.target = y.target
<1> DEFINE t == convert(content, x.id)
           y == [x EXCEPT !.pc = "proxy", !.target = t, !.app = Nil]
<1>1. CASE found(content, x.id)
  <2>1. t \in AllTargets /\ \E e \in content : Matches(content, x.id) = {e} /\ e.target = t
    BY <1>1, FoundFacts
  <2>2. withAPI(x, content) = y
    BY <1>1 DEF withAPI
  <2> HIDE DEF t
  <2>3. y \in RequestType
    BY <2>1 DEF RequestType
  <2>4. y.pc = "proxy" /\ SameCall(x, y) /\ y.proxy = x.proxy /\ y.target = t
    BY DEF RequestType, SameCall
  <2> HIDE DEF y
  <2> QED
    BY <2>1, <2>2, <2>3, <2>4
<1>2. CASE ~found(content, x.id)
  BY <1>2, NoRequestFacts DEF withAPI
<1> QED
  BY <1>1, <1>2

\* y has its API, which x has found in the content.
Finds(x, y, content) ==
    /\ y.pc = "proxy" /\ SameCall(x, y) /\ y.proxy = x.proxy /\ y.target \in AllTargets
    /\ \E e \in content : Matches(content, x.id) = {e} /\ e.target = y.target

\* A new request.
LEMMA ServeEffect ==
  ASSUME RequestsOK, AppsOK, NEW r \in Requests, NEW call \in Calls, ServeHTTP(r, call)
  PROVE  /\ Moves(r)
         /\ \/ Idle(req'[r])
            \/ /\ req'[r].proxy = Nil /\ req'[r].id \in Identifiers[req'[r].handler]
               /\ \/ req'[r].pc = "get"
                  \/ /\ req'[r].pc = "proxy" /\ req'[r].target \in AllTargets
                     /\ req'[r].id[1] \in Apps /\ appCache[req'[r].id[1]] \in Contents
                     /\ \E e \in appCache[req'[r].id[1]] :
                          /\ Matches(appCache[req'[r].id[1]], req'[r].id) = {e}
                          /\ e.target = req'[r].target
<1> DEFINE h == call.handler
           id == apiIdentifier(h, call.path)
           path == targetAPIPath(h, call.path)
           new == [NoRequest EXCEPT !.pc = "get", !.handler = h, !.id = id, !.path = path]
<1>1. h \in Handlers /\ id \in Identifiers[h] /\ id \in AllIdentifiers
  BY IdFacts, KeyFacts DEF ServeHTTP
<1>2. Go(r, IF id[1] \in Apps /\ appCache[id[1]] # Nil THEN withAPI(new, appCache[id[1]]) ELSE new)
  BY DEF ServeHTTP
<1>3. path \in {targetAPIPath(c.handler, c.path) : c \in Calls}
  OBVIOUS
<1> HIDE DEF h, id, path
<1>4. new \in RequestType
  BY <1>1, <1>3, NoRequestFacts DEF RequestType
<1>5. new.pc = "get" /\ new.handler = h /\ new.id = id /\ new.proxy = Nil
  BY NoRequestFacts DEF RequestType, Idle
<1> HIDE DEF new
<1>6. CASE ~(id[1] \in Apps /\ appCache[id[1]] # Nil)
  BY <1>1, <1>2, <1>4, <1>5, <1>6, GoMoves
<1>7. CASE id[1] \in Apps /\ appCache[id[1]] # Nil
  <2> DEFINE content == appCache[id[1]]
             y == withAPI(new, content)
  <2>1. content \in Contents
    BY <1>7 DEF AppsOK
  <2> HIDE DEF content
  <2>2. y \in RequestType /\ (Idle(y) \/ Finds(new, y, content))
    BY <1>4, <2>1, WithAPIFacts DEF Finds
  <2>3. Go(r, y)
    BY <1>2, <1>7 DEF content
  <2> HIDE DEF y
  <2>4. Moves(r) /\ req'[r] = y
    BY <2>2, <2>3, GoMoves
  <2>5. CASE Idle(y)
    BY <2>4, <2>5
  <2>6. CASE Finds(new, y, content)
    <3>1. y.handler = h /\ y.id = id
      BY <2>6, <1>5 DEF Finds, SameCall
    <3> QED
      BY <1>1, <1>5, <1>7, <2>1, <2>4, <2>6, <3>1 DEF content, Finds
  <2> QED
    BY <2>2, <2>5, <2>6
<1> QED
  BY <1>6, <1>7

\* The Application is read from the cluster, or the request fails.
LEMMA GetEffect ==
  ASSUME RequestsOK, AppsOK, NEW r \in Requests, getApplication(r)
  PROVE  /\ Moves(r)
         /\ \/ Idle(req'[r])
            \/ /\ req'[r].pc = "add" /\ SameCall(req[r], req'[r])
               /\ req'[r].proxy = req[r].proxy /\ req[r].id[1] \in Apps
               /\ req'[r].app = apps[req[r].id[1]] /\ req'[r].app \in Contents
<1> DEFINE x == req[r]
           content == apps[x.id[1]]
           y == [x EXCEPT !.pc = "add", !.app = content]
<1>1. CASE Answer(r)
  BY <1>1, AnswerEffect
<1>2. CASE x.id[1] \in Apps /\ content # NoApp /\ Go(r, y)
  <2>1. x \in RequestType /\ content \in Contents /\ x.id[1] \in Apps
    BY <1>2, RequestFields DEF AppsOK
  <2> HIDE DEF x, content
  <2>2. y \in RequestType
    BY <2>1 DEF RequestType
  <2>3. y.pc = "add" /\ SameCall(x, y) /\ y.proxy = x.proxy /\ y.app = content
    BY <2>1 DEF RequestType, SameCall
  <2> HIDE DEF y
  <2> QED
    BY <1>2, <2>1, <2>2, <2>3, GoMoves DEF x, content
<1> QED
  BY <1>1, <1>2 DEF getApplication

\* The API is found in the Application that was read, or the request fails.
LEMMA AddEffect ==
  ASSUME RequestsOK, NEW r \in Requests, req[r].app \in Contents, addApplication(r)
  PROVE  Moves(r) /\ (Idle(req'[r]) \/ Finds(req[r], req'[r], req[r].app))
<1> DEFINE y == withAPI(req[r], req[r].app)
<1>1. y \in RequestType /\ (Idle(y) \/ Finds(req[r], y, req[r].app))
  BY RequestFields, WithAPIFacts DEF Finds
<1>2. Go(r, y)
  BY DEF addApplication
<1> HIDE DEF y
<1> QED
  BY <1>1, <1>2, GoMoves

\* A request gets a proxy.
GetsProxy(r, i) ==
    /\ Moves(r) /\ req'[r].pc = "modify" /\ req'[r].proxy = i
    /\ SameCall(req[r], req'[r]) /\ req'[r].target = req[r].target

\* The step to it.
LEMMA GotProxy ==
  ASSUME RequestsOK, NEW r \in Requests, NEW i \in ProxyIds,
         Go(r, [req[r] EXCEPT !.pc = "modify", !.proxy = i])
  PROVE  GetsProxy(r, i)
<1> DEFINE x == req[r]
           y == [x EXCEPT !.pc = "modify", !.proxy = i]
<1>1. x \in RequestType
  BY RequestFields
<1> HIDE DEF x
<1>2. y \in RequestType
  BY <1>1 DEF RequestType
<1>3. y.pc = "modify" /\ y.proxy = i /\ SameCall(x, y) /\ y.target = x.target
  BY <1>1 DEF RequestType, SameCall
<1> HIDE DEF y
<1> QED
  BY <1>2, <1>3, GoMoves DEF x, y, GetsProxy

\* A proxy is found in the cache, or is to be created.
LEMMA LookupEffect ==
  ASSUME RequestsOK, ProxiesOK, NEW r \in Requests, req[r].id \in Identifiers[req[r].handler],
         getOrCreateCacheEntry(r)
  PROVE  LET entry == proxyCache[req[r].handler][cacheKey(req[r].id)]
         IN  \/ entry \in ProxyIds /\ GetsProxy(r, entry)
             \/ /\ Moves(r) /\ req'[r].pc = "create" /\ SameCall(req[r], req'[r])
                /\ req'[r].target = req[r].target /\ req'[r].proxy = req[r].proxy
<1> DEFINE x == req[r]
           entry == proxyCache[x.handler][cacheKey(x.id)]
           y == [x EXCEPT !.pc = "create"]
<1>1. entry \in ProxyIds \cup {Nil}
  BY RequestFields, KeyFacts DEF ProxiesOK
<1>2. CASE entry # Nil
  BY <1>1, <1>2, GotProxy DEF getOrCreateCacheEntry
<1>3. CASE entry = Nil
  <2>1. x \in RequestType /\ Go(r, y)
    BY <1>3, RequestFields DEF getOrCreateCacheEntry
  <2> HIDE DEF x
  <2>2. y \in RequestType
    BY <2>1 DEF RequestType
  <2>3. y.pc = "create" /\ y.target = x.target /\ SameCall(x, y) /\ y.proxy = x.proxy
    BY <2>1 DEF RequestType, SameCall
  <2> HIDE DEF y
  <2> QED
    BY <2>1, <2>2, <2>3, GoMoves DEF x
<1> QED
  BY <1>2, <1>3

\* A new proxy, which no one has yet, is put into the cache.
LEMMA CreateEffect ==
  ASSUME RequestsOK, NEW r \in Requests, createCacheEntry(r)
  PROVE  \E i \in ProxyIds \ InUse :
            /\ GetsProxy(r, i)
            /\ proxyCache' = [proxyCache EXCEPT ![req[r].handler][cacheKey(req[r].id)] = i]
            /\ proxies' = [j \in ProxyIds |->
                              IF j = i THEN [target |-> req[r].target, modify |-> Nil]
                              ELSE IF j \in InUse' THEN proxies[j] ELSE Nil]
<1> DEFINE i == CHOOSE j \in ProxyIds \ InUse : TRUE
<1>1. i \in ProxyIds \ InUse
  BY DEF createCacheEntry
<1>2. Go(r, [req[r] EXCEPT !.pc = "modify", !.proxy = i])
  BY DEF createCacheEntry
<1>3. /\ proxyCache' = [proxyCache EXCEPT ![req[r].handler][cacheKey(req[r].id)] = i]
      /\ proxies' = [j \in ProxyIds |->
                        IF j = i THEN [target |-> req[r].target, modify |-> Nil]
                        ELSE IF j \in InUse' THEN proxies[j] ELSE Nil]
  BY DEF createCacheEntry
<1> HIDE DEF i
<1>4. GetsProxy(r, i)
  BY <1>1, <1>2, GotProxy
<1> QED
  BY <1>1, <1>3, <1>4

\* ModifyResponse is set, or the request fails.
LEMMA ModifyEffect ==
  ASSUME RequestsOK, NEW r \in Requests, setModifyResponse(r)
  PROVE  /\ Moves(r)
         /\ \/ Idle(req'[r]) /\ Sweep
            \/ /\ req'[r].pc = "send" /\ SameCall(req[r], req'[r])
               /\ req'[r].proxy = req[r].proxy
               /\ proxies' = [proxies EXCEPT ![req[r].proxy].modify =
                                 [gateway |-> req[r].id, target |-> req[r].target]]
<1> DEFINE x == req[r]
           y == [x EXCEPT !.pc = "send", !.target = Nil]
<1>1. CASE Answer(r) /\ Sweep
  BY <1>1, AnswerEffect
<1>2. CASE /\ Go(r, y)
           /\ proxies' = [proxies EXCEPT ![x.proxy].modify =
                             [gateway |-> x.id, target |-> x.target]]
  <2>1. x \in RequestType
    BY RequestFields
  <2> HIDE DEF x
  <2>2. y \in RequestType
    BY <2>1 DEF RequestType
  <2>3. y.pc = "send" /\ SameCall(x, y) /\ y.proxy = x.proxy
    BY <2>1 DEF RequestType, SameCall
  <2> HIDE DEF y
  <2> QED
    BY <1>2, <2>1, <2>2, <2>3, GoMoves DEF x
<1> QED
  BY <1>1, <1>2 DEF setModifyResponse, gwURL

\* The call is answered with a redirect, or the caller has its answer.
LEMMA ForwardEffect ==
  ASSUME RequestsOK, NEW r \in Requests, forward(r)
  PROVE  /\ Moves(r) /\ Sweep
         /\ \/ Idle(req'[r])
            \/ /\ req'[r].pc = "respond" /\ SameCall(req[r], req'[r])
               /\ req'[r].proxy = req[r].proxy /\ req'[r].loc \in Locations
<1>1. Sweep
  BY DEF forward
<1>2. CASE Answer(r)
  BY <1>1, <1>2, AnswerEffect
<1>3. ASSUME NEW l \in Locations, Go(r, [req[r] EXCEPT !.pc = "respond", !.loc = l])
      PROVE  /\ Moves(r) /\ req'[r].pc = "respond" /\ SameCall(req[r], req'[r])
             /\ req'[r].proxy = req[r].proxy /\ req'[r].loc \in Locations
  <2> DEFINE x == req[r]
             y == [x EXCEPT !.pc = "respond", !.loc = l]
  <2>1. x \in RequestType
    BY RequestFields
  <2> HIDE DEF x
  <2>2. y \in RequestType
    BY <2>1 DEF RequestType
  <2>3. y.pc = "respond" /\ SameCall(x, y) /\ y.proxy = x.proxy /\ y.loc = l
    BY <2>1 DEF RequestType, SameCall
  <2>4. Go(r, y)
    BY <1>3 DEF x
  <2> HIDE DEF y
  <2> QED
    BY <2>2, <2>3, <2>4, GoMoves DEF x
<1> QED
  BY <1>1, <1>2, <1>3 DEF forward

-----------------------------------------------------------------------------
(* The types                                                               *)

\* A step of a request, its first one included.
RequestStep(r) == Step(r) \/ \E call \in Calls : ServeHTTP(r, call)

\* Where a request takes which step.
LEMMA StepAt ==
  ASSUME NEW r \in Requests
  PROVE  /\ getApplication(r) => req[r].pc = "get"
         /\ addApplication(r) => req[r].pc = "add"
         /\ getOrCreateCacheEntry(r) => req[r].pc = "proxy"
         /\ createCacheEntry(r) => req[r].pc = "create"
         /\ setModifyResponse(r) => req[r].pc = "modify"
         /\ forward(r) => req[r].pc = "send"
         /\ respond(r) => req[r].pc = "respond"
<1>1. /\ getApplication(r) => req[r].pc = "get"
      /\ addApplication(r) => req[r].pc = "add"
      /\ getOrCreateCacheEntry(r) => req[r].pc = "proxy"
  BY DEF getApplication, addApplication, getOrCreateCacheEntry
<1>2. /\ createCacheEntry(r) => req[r].pc = "create"
      /\ setModifyResponse(r) => req[r].pc = "modify"
      /\ forward(r) => req[r].pc = "send"
      /\ respond(r) => req[r].pc = "respond"
  BY DEF createCacheEntry, setModifyResponse, forward, respond
<1> QED
  BY <1>1, <1>2

\* What a request has at its step, from the invariant.
LEMMA FlowFacts ==
  ASSUME RequestsOK, FlowInv, NEW r \in Requests, req[r].pc # "idle"
  PROVE  /\ req[r].handler \in Handlers /\ req[r].id \in Identifiers[req[r].handler]
         /\ req[r].id \in AllIdentifiers /\ cacheKey(req[r].id) \in CacheKeys
         /\ req[r].pc = "add" => req[r].id[1] \in Apps /\ req[r].app \in Contents
         /\ req[r].pc \in {"proxy", "create", "modify"} => req[r].target \in AllTargets
         /\ req[r].pc \in {"modify", "send", "respond"} => req[r].proxy \in ProxyIds
         /\ req[r].pc \notin {"modify", "send", "respond"} => req[r].proxy = Nil
<1>1. Flow(req[r])
  BY DEF FlowInv
<1>2. req[r].handler \in Handlers /\ req[r].proxy \in ProxyIds \cup {Nil}
  BY RequestFields
<1>3. req[r].id \in Identifiers[req[r].handler]
  BY <1>1 DEF Flow
<1>4. req[r].id \in AllIdentifiers /\ cacheKey(req[r].id) \in CacheKeys
  BY <1>2, <1>3, KeyFacts
<1> QED
  BY <1>1, <1>2, <1>3, <1>4 DEF Flow

\* The request has what its next step needs, and the others are left alone.
LEMMA FlowStep ==
  ASSUME AppsOK, ProxiesOK, RequestsOK, FlowInv, NEW r \in Requests, RequestStep(r)
  PROVE  Moves(r) /\ Flow(req'[r])
<1> DEFINE Goal == Moves(r) /\ Flow(req'[r])
<1>0. Idle(req'[r]) => Flow(req'[r])
  BY DEF Idle, Flow
<1>00. Nil \notin ProxyIds
  BY NilFacts
<1>1. ASSUME NEW call \in Calls, ServeHTTP(r, call) PROVE Goal
  BY <1>0, <1>1, ServeEffect DEF Flow
<1>2. CASE getApplication(r)
  BY <1>0, <1>2, StepAt, FlowFacts, GetEffect DEF SameCall, Flow
<1>3. CASE addApplication(r)
  BY <1>0, <1>3, StepAt, FlowFacts, AddEffect DEF Finds, SameCall, Flow
<1>4. CASE getOrCreateCacheEntry(r)
  BY <1>00, <1>4, StepAt, FlowFacts, LookupEffect DEF GetsProxy, SameCall, Flow
<1>5. CASE createCacheEntry(r)
  <2>1. PICK i \in ProxyIds : GetsProxy(r, i)
    BY <1>5, CreateEffect
  <2> QED
    BY <1>00, <1>5, <2>1, StepAt, FlowFacts DEF GetsProxy, SameCall, Flow
<1>6. CASE setModifyResponse(r)
  BY <1>0, <1>00, <1>6, StepAt, FlowFacts, ModifyEffect DEF SameCall, Flow
<1>7. CASE forward(r)
  BY <1>0, <1>00, <1>7, StepAt, FlowFacts, ForwardEffect DEF SameCall, Flow
<1>8. CASE respond(r)
  BY <1>0, <1>8, AnswerEffect DEF respond
<1> QED
  BY <1>1, <1>2, <1>3, <1>4, <1>5, <1>6, <1>7, <1>8 DEF RequestStep, Step

\* Who refers to a proxy, before and after a step of one request.
LEMMA InUseFacts ==
  ASSUME NEW i \in ProxyIds
  PROVE  /\ i \in InUse <=> \/ \E h \in Handlers, k \in CacheKeys : proxyCache[h][k] = i
                            \/ \E q \in Requests : req[q].proxy = i
         /\ i \in InUse' <=> \/ \E h \in Handlers, k \in CacheKeys : proxyCache'[h][k] = i
                             \/ \E q \in Requests : req'[q].proxy = i
  BY DEF InUse

\* What is swept is not in use.
LEMMA SweepEffect ==
  ASSUME ProxiesOK, Sweep
  PROVE  /\ proxies' \in [ProxyIds -> Proxies \cup {Nil}]
         /\ \A i \in InUse' : proxies'[i] = proxies[i]
<1>1. InUse' \subseteq ProxyIds
  BY DEF InUse
<1> QED
  BY <1>1 DEF ProxiesOK, Sweep

\* After a step other than a new proxy, the proxies in use are those that were; only
\* ModifyResponse of one may be another.
Kept(r) ==
    \A i \in InUse' :
        /\ i \in InUse /\ proxies'[i] \in Proxies
        /\ proxies'[i].target = proxies[i].target
        /\ \/ proxies'[i].modify = proxies[i].modify
           \/ /\ i = req[r].proxy /\ proxies'[i].modify \in Modifiers
              /\ proxies'[i].modify.gateway = req[r].id
              /\ req[r].pc = "modify" /\ proxies'[i].modify.target = req[r].target

\* It is so when no reference is new and the proxies are swept or left alone.
LEMMA NoNewReference ==
  ASSUME ProxiesOK, LiveInv, NEW r \in Requests, Moves(r),
         \A h \in Handlers, k \in CacheKeys : proxyCache'[h][k] \in {proxyCache[h][k], Nil},
         \/ req'[r].proxy \in {req[r].proxy, Nil}
         \/ \E h \in Handlers, k \in CacheKeys : req'[r].proxy = proxyCache[h][k],
         Sweep \/ UNCHANGED proxies
  PROVE  Kept(r) /\ proxies' \in [ProxyIds -> Proxies \cup {Nil}]
<1>1. proxies' \in [ProxyIds -> Proxies \cup {Nil}] /\ \A i \in InUse' : proxies'[i] = proxies[i]
  BY SweepEffect DEF ProxiesOK
<1>2. ASSUME NEW i \in InUse' PROVE i \in InUse
  <2>1. i \in ProxyIds /\ i # Nil
    BY NilFacts DEF InUse
  <2> QED
    BY <1>2, <2>1, InUseFacts DEF Moves
<1>3. ASSUME NEW i \in InUse' PROVE proxies[i] \in Proxies
  BY <1>2, <1>3 DEF LiveInv, ProxiesOK, InUse
<1> QED
  BY <1>1, <1>2, <1>3 DEF Kept

\* Every step keeps the proxies in use, or adds one.
LEMMA KeptStep ==
  ASSUME AppsOK, ProxiesOK, RequestsOK, FlowInv, LiveInv, NEW r \in Requests, RequestStep(r),
         ~createCacheEntry(r)
  PROVE  UNCHANGED proxyCache /\ Kept(r) /\ proxies' \in [ProxyIds -> Proxies \cup {Nil}]
<1> DEFINE Goal == UNCHANGED proxyCache /\ Kept(r) /\ proxies' \in [ProxyIds -> Proxies \cup {Nil}]
<1>0. Moves(r)
  BY FlowStep
<1>1. ASSUME NEW call \in Calls, ServeHTTP(r, call) PROVE Goal
  <2>1. req'[r].proxy = Nil
    BY <1>1, ServeEffect DEF Idle
  <2>2. UNCHANGED <<proxyCache, proxies>>
    BY <1>1 DEF ServeHTTP
  <2> QED
    BY <1>0, <2>1, <2>2, NoNewReference
<1>2. CASE getApplication(r)
  <2>1. req'[r].proxy \in {req[r].proxy, Nil}
    BY <1>2, GetEffect DEF Idle
  <2>2. UNCHANGED <<proxyCache, proxies>>
    BY <1>2 DEF getApplication
  <2> QED
    BY <1>0, <2>1, <2>2, NoNewReference
<1>3. CASE addApplication(r)
  <2>1. req'[r].proxy \in {req[r].proxy, Nil}
    BY <1>3, StepAt, FlowFacts, AddEffect DEF Idle, Finds
  <2>2. UNCHANGED <<proxyCache, proxies>>
    BY <1>3 DEF addApplication
  <2> QED
    BY <1>0, <2>1, <2>2, NoNewReference
<1>4. CASE getOrCreateCacheEntry(r)
  <2>1. \/ req'[r].proxy \in {req[r].proxy, Nil}
        \/ \E h \in Handlers, k \in CacheKeys : req'[r].proxy = proxyCache[h][k]
    BY <1>4, StepAt, FlowFacts, LookupEffect DEF GetsProxy
  <2>2. UNCHANGED <<proxyCache, proxies>>
    BY <1>4 DEF getOrCreateCacheEntry
  <2> QED
    BY <1>0, <2>1, <2>2, NoNewReference
<1>6. CASE setModifyResponse(r)
  <2>1. UNCHANGED proxyCache
    BY <1>6 DEF setModifyResponse
  <2>2. CASE Idle(req'[r]) /\ Sweep
    BY <1>0, <2>1, <2>2, NoNewReference DEF Idle
  <2>3. CASE ~(Idle(req'[r]) /\ Sweep)
    <3> DEFINE p == req[r].proxy
               m == [gateway |-> req[r].id, target |-> req[r].target]
    <3>1. req'[r].proxy = p /\ proxies' = [proxies EXCEPT ![p].modify = m]
      BY <1>6, <2>3, ModifyEffect
    <3>2. /\ p \in ProxyIds /\ p \in InUse /\ req[r].id \in AllIdentifiers
          /\ req[r].target \in AllTargets
      BY <1>6, StepAt, FlowFacts, InUseFacts
    <3>3. /\ m \in Modifiers /\ m.gateway = req[r].id /\ m.target = req[r].target
          /\ req[r].pc = "modify"
      BY <1>6, <3>2, StepAt DEF Modifiers
    <3>4. proxies[p] \in Proxies
      BY <3>2 DEF LiveInv, ProxiesOK
    <3> HIDE DEF m
    <3> DEFINE q == [proxies[p] EXCEPT !.modify = m]
    <3>5. q \in Proxies /\ q.target = proxies[p].target /\ q.modify = m
      BY <3>3, <3>4 DEF Proxies
    <3> HIDE DEF p
    <3>6. /\ proxies' \in [ProxyIds -> Proxies \cup {Nil}] /\ proxies'[p] = q
          /\ \A i \in ProxyIds \ {p} : proxies'[i] = proxies[i]
      <4>1. proxies' = [proxies EXCEPT ![p] = q]
        BY <3>1
      <4> HIDE DEF q
      <4> QED
        BY <3>2, <3>5, <4>1 DEF ProxiesOK
    <3> HIDE DEF q
    <3>7. ASSUME NEW i \in InUse' PROVE i \in ProxyIds /\ i \in InUse
      <4>1. i \in ProxyIds /\ i # Nil
        BY NilFacts DEF InUse
      <4> QED
        BY <1>0, <2>1, <3>1, <3>7, <4>1, InUseFacts DEF Moves, p
    <3>8. ASSUME NEW i \in InUse', i # p PROVE proxies[i] \in Proxies
      BY <3>7 DEF LiveInv, ProxiesOK
    <3> QED
      BY <2>1, <3>3, <3>5, <3>6, <3>7, <3>8 DEF Kept, p
  <2> QED
    BY <2>2, <2>3
<1>7. CASE forward(r)
  <2>1. req'[r].proxy \in {req[r].proxy, Nil} /\ Sweep
    BY <1>7, ForwardEffect DEF Idle
  <2>2. UNCHANGED proxyCache
    BY <1>7 DEF forward
  <2> QED
    BY <1>0, <2>1, <2>2, NoNewReference
<1>8. CASE respond(r)
  <2>1. req'[r].proxy = Nil /\ Sweep
    BY <1>8, AnswerEffect DEF Idle, respond
  <2>2. UNCHANGED proxyCache
    BY <1>8 DEF respond
  <2> QED
    BY <1>0, <2>1, <2>2, NoNewReference
<1> QED
  BY <1>1, <1>2, <1>3, <1>4, <1>6, <1>7, <1>8 DEF RequestStep, Step

\* A new proxy: no one had it, and now this request and this entry of the cache have.
Adds(r, i) ==
    /\ i \in ProxyIds \ InUse /\ GetsProxy(r, i)
    /\ proxyCache' \in [Handlers -> [CacheKeys -> ProxyIds \cup {Nil}]]
    /\ proxyCache'[req[r].handler][cacheKey(req[r].id)] = i
    /\ \A h \in Handlers, k \in CacheKeys :
          (h # req[r].handler \/ k # cacheKey(req[r].id)) => proxyCache'[h][k] = proxyCache[h][k]
    /\ proxies' \in [ProxyIds -> Proxies \cup {Nil}]
    /\ proxies'[i] \in Proxies /\ proxies'[i].target = req[r].target /\ proxies'[i].modify = Nil
    /\ \A j \in InUse' \ {i} : j \in InUse /\ proxies'[j] = proxies[j]

\* The step that adds a proxy.
LEMMA AddsStep ==
  ASSUME ProxiesOK, RequestsOK, FlowInv, NEW r \in Requests, createCacheEntry(r)
  PROVE  \E i \in ProxyIds : Adds(r, i)
<1> DEFINE h == req[r].handler
           k == cacheKey(req[r].id)
           t == req[r].target
<1>1. h \in Handlers /\ k \in CacheKeys /\ t \in AllTargets
  BY StepAt, FlowFacts
<1>2. PICK i \in ProxyIds \ InUse :
         /\ GetsProxy(r, i)
         /\ proxyCache' = [proxyCache EXCEPT ![h][k] = i]
         /\ proxies' = [j \in ProxyIds |->
                           IF j = i THEN [target |-> t, modify |-> Nil]
                           ELSE IF j \in InUse' THEN proxies[j] ELSE Nil]
  BY CreateEffect
<1> HIDE DEF h, k, t
<1>3. [target |-> t, modify |-> Nil] \in Proxies
  BY <1>1 DEF Proxies
<1>4. /\ proxyCache' \in [Handlers -> [CacheKeys -> ProxyIds \cup {Nil}]]
      /\ proxyCache'[h][k] = i
      /\ \A g \in Handlers, l \in CacheKeys :
            (g # h \/ l # k) => proxyCache'[g][l] = proxyCache[g][l]
  BY <1>1, <1>2 DEF ProxiesOK
<1>5. /\ proxies' \in [ProxyIds -> Proxies \cup {Nil}]
      /\ proxies'[i] \in Proxies /\ proxies'[i].target = t /\ proxies'[i].modify = Nil
  BY <1>2, <1>3 DEF ProxiesOK
<1>6. ASSUME NEW j \in InUse' \ {i} PROVE j \in InUse /\ proxies'[j] = proxies[j]
  <2>1. j \in ProxyIds
    BY DEF InUse
  <2>2. j \in InUse
    <3>1. CASE \E g \in Handlers, l \in CacheKeys : proxyCache'[g][l] = j
      BY <1>4, <1>6, <2>1, <3>1, InUseFacts
    <3>2. CASE \E q \in Requests : req'[q].proxy = j
      BY <1>2, <1>6, <2>1, <3>2, InUseFacts DEF GetsProxy, Moves
    <3> QED
      BY <1>6, <2>1, <3>1, <3>2, InUseFacts
  <2> QED
    BY <1>2, <1>6, <2>1, <2>2
<1> QED
  BY <1>2, <1>4, <1>5, <1>6 DEF Adds, h, k, t

\* The proxies in use are there.
LEMMA LiveStep ==
  ASSUME AppsOK, ProxiesOK, RequestsOK, FlowInv, LiveInv, NEW r \in Requests, RequestStep(r)
  PROVE  ProxiesOK' /\ LiveInv'
<1>1. CASE createCacheEntry(r)
  <2>1. PICK i \in ProxyIds : Adds(r, i)
    BY <1>1, AddsStep
  <2>2. proxies'[i] # Nil
    BY <2>1, NilFacts DEF Adds
  <2> QED
    BY <2>1, <2>2 DEF Adds, ProxiesOK, LiveInv
<1>2. CASE ~createCacheEntry(r)
  <2>1. UNCHANGED proxyCache /\ Kept(r) /\ proxies' \in [ProxyIds -> Proxies \cup {Nil}]
    BY <1>2, KeptStep
  <2> QED
    BY <2>1, NilFacts DEF Kept, ProxiesOK, LiveInv
<1> QED
  BY <1>1, <1>2

\* What is kept of the Applications.
LEMMA AppsStep ==
  ASSUME AppsOK, RequestsOK, FlowInv, NEW r \in Requests, RequestStep(r)
  PROVE  /\ AppsOK' /\ UNCHANGED <<apps, seen>>
         /\ \A a \in Apps : appCache'[a] = appCache[a] \/ (At(r, "add") /\ a = req[r].id[1]
                                                          /\ appCache'[a] = req[r].app)
<1> DEFINE Goal == /\ AppsOK' /\ UNCHANGED <<apps, seen>>
                   /\ \A a \in Apps : appCache'[a] = appCache[a] \/ (At(r, "add") /\ a = req[r].id[1]
                                                          /\ appCache'[a] = req[r].app)
<1>1. ASSUME NEW call \in Calls, ServeHTTP(r, call) PROVE Goal
  BY <1>1 DEF ServeHTTP, AppsOK
<1>2. CASE addApplication(r)
  <2>1. req[r].pc = "add" /\ req[r].id[1] \in Apps /\ req[r].app \in Contents
    BY <1>2, StepAt, FlowFacts
  <2> QED
    BY <1>2, <2>1 DEF addApplication, AppsOK
<1>3. CASE getApplication(r) \/ getOrCreateCacheEntry(r) \/ createCacheEntry(r)
  BY <1>3 DEF getApplication, getOrCreateCacheEntry, createCacheEntry, AppsOK
<1>4. CASE setModifyResponse(r) \/ forward(r) \/ respond(r)
  BY <1>4 DEF setModifyResponse, forward, respond, AppsOK
<1> QED
  BY <1>1, <1>2, <1>3, <1>4 DEF RequestStep, Step

\* The bounds.
LEMMA BoundsStep ==
  ASSUME BoundsOK, NEW r \in Requests, RequestStep(r)
  PROVE  BoundsOK'
<1> USE BoundsAssumption DEF BoundsOK
<1>1. ASSUME NEW call \in Calls, ServeHTTP(r, call) PROVE BoundsOK'
  BY <1>1 DEF ServeHTTP
<1>2. CASE getApplication(r)
  BY <1>2 DEF getApplication, Fault
<1>3. CASE addApplication(r) \/ getOrCreateCacheEntry(r) \/ createCacheEntry(r)
  BY <1>3 DEF addApplication, getOrCreateCacheEntry, createCacheEntry
<1>4. CASE setModifyResponse(r)
  BY <1>4 DEF setModifyResponse, Fault
<1>5. CASE forward(r)
  <2>1. UNCHANGED changes /\ (UNCHANGED faults \/ Fault)
    BY <1>5 DEF forward
  <2> QED
    BY <2>1 DEF Fault
<1>6. CASE respond(r)
  BY <1>6 DEF respond
<1> QED
  BY <1>1, <1>2, <1>3, <1>4, <1>5, <1>6 DEF RequestStep, Step

\* Empty caches and no requests: the start and a restart.
Started ==
    /\ appCache = [a \in Apps |-> Nil]
    /\ proxyCache = EmptyCache /\ proxies = [i \in ProxyIds |-> Nil]
    /\ req = [r \in Requests |-> NoRequest]

\* Nothing is referred to then.
LEMMA StartedFacts ==
  ASSUME Started
  PROVE  /\ ProxiesOK /\ RequestsOK /\ FlowInv /\ LiveInv
         /\ appCache \in [Apps -> Contents \cup {Nil}]
         /\ \A a \in Apps : appCache[a] = Nil
         /\ \A r \in Requests : Idle(req[r])
         /\ \A h \in Handlers, k \in CacheKeys : proxyCache[h][k] = Nil
<1>1. RequestsOK /\ \A r \in Requests : Idle(req[r])
  BY NoRequestFacts DEF Started, RequestsOK
<1>2. FlowInv
  BY <1>1 DEF FlowInv, Flow, Idle
<1>3. ProxiesOK /\ \A h \in Handlers, k \in CacheKeys : proxyCache[h][k] = Nil
  BY DEF Started, EmptyCache, ProxiesOK
<1>4. InUse = {}
  BY <1>1, <1>3, NilFacts DEF InUse, Idle
<1> QED
  BY <1>1, <1>2, <1>3, <1>4 DEF Started, LiveInv

\* Steps of others that leave the requests alone.
WorldStep ==
    \/ \E a \in Apps : expireApplication(a) \/ ChangeApplication(a)
    \/ \E h \in Handlers : \E id \in Identifiers[h] : expireProxy(h, id)

\* What they do to the Applications.
LEMMA WorldApps ==
  ASSUME AppsOK, BoundsOK, WorldStep
  PROVE  /\ AppsOK' /\ BoundsOK' /\ UNCHANGED req
         /\ \A a \in Apps : appCache'[a] \in {appCache[a], Nil} /\ seen[a] \subseteq seen'[a]
         /\ \A a \in Apps : apps'[a] = apps[a] \/ apps'[a] = NoApp \/ apps'[a] \in seen'[a]
<1> DEFINE Goal ==
      /\ AppsOK' /\ BoundsOK' /\ UNCHANGED req
      /\ \A a \in Apps : appCache'[a] \in {appCache[a], Nil} /\ seen[a] \subseteq seen'[a]
      /\ \A a \in Apps : apps'[a] = apps[a] \/ apps'[a] = NoApp \/ apps'[a] \in seen'[a]
<1>1. ASSUME NEW b \in Apps, expireApplication(b) PROVE Goal
  BY <1>1 DEF expireApplication, AppsOK, BoundsOK
<1>2. ASSUME NEW b \in Apps, ChangeApplication(b) PROVE Goal
  <2>1. PICK c \in Contents \cup {NoApp} : apps' = [apps EXCEPT ![b] = c]
    BY <1>2 DEF ChangeApplication
  <2>2. seen' = [seen EXCEPT ![b] = @ \cup ({c} \ {NoApp})] /\ UNCHANGED <<appCache, req, faults>>
    BY <1>2, <2>1 DEF ChangeApplication, AppsOK
  <2>3. changes' \in 0..MaxChanges
    BY <1>2, BoundsAssumption DEF ChangeApplication, BoundsOK
  <2> QED
    BY <2>1, <2>2, <2>3 DEF AppsOK, BoundsOK
<1>3. ASSUME NEW h \in Handlers, NEW id \in Identifiers[h], expireProxy(h, id) PROVE Goal
  BY <1>3 DEF expireProxy, AppsOK, BoundsOK
<1> QED
  BY <1>1, <1>2, <1>3 DEF WorldStep

\* And to the proxies.
LEMMA WorldProxies ==
  ASSUME ProxiesOK, LiveInv, WorldStep
  PROVE  /\ ProxiesOK' /\ LiveInv'
         /\ \A h \in Handlers, k \in CacheKeys : proxyCache'[h][k] \in {proxyCache[h][k], Nil}
         /\ \A i \in InUse' : proxies'[i] = proxies[i]
<1>1. UNCHANGED req
  BY DEF WorldStep, expireApplication, ChangeApplication, expireProxy
<1>2. CASE UNCHANGED <<proxyCache, proxies>>
  <2>1. InUse' = InUse
    BY <1>1, <1>2 DEF InUse
  <2> QED
    BY <1>2, <2>1 DEF ProxiesOK, LiveInv
<1>3. ASSUME NEW h \in Handlers, NEW id \in Identifiers[h], expireProxy(h, id)
      PROVE  /\ ProxiesOK' /\ LiveInv'
             /\ \A g \in Handlers, k \in CacheKeys : proxyCache'[g][k] \in {proxyCache[g][k], Nil}
             /\ \A i \in InUse' : proxies'[i] = proxies[i]
  <2>1. cacheKey(id) \in CacheKeys /\ Sweep /\ proxyCache' = [proxyCache EXCEPT ![h][cacheKey(id)] = Nil]
    BY <1>3, KeyFacts DEF expireProxy
  <2>2. /\ proxyCache' \in [Handlers -> [CacheKeys -> ProxyIds \cup {Nil}]]
        /\ \A g \in Handlers, k \in CacheKeys : proxyCache'[g][k] \in {proxyCache[g][k], Nil}
    BY <2>1 DEF ProxiesOK
  <2>3. /\ proxies' \in [ProxyIds -> Proxies \cup {Nil}]
        /\ \A i \in InUse' : proxies'[i] = proxies[i]
    BY <2>1, SweepEffect
  <2>4. ASSUME NEW i \in InUse' PROVE i \in InUse
    <3>1. i \in ProxyIds /\ i # Nil
      BY NilFacts DEF InUse
    <3> QED
      BY <1>1, <2>2, <2>4, <3>1, InUseFacts
  <2> QED
    BY <2>2, <2>3, <2>4 DEF ProxiesOK, LiveInv
<1> QED
  BY <1>2, <1>3 DEF WorldStep, expireApplication, ChangeApplication

\* The start satisfies the invariant of the types.
LEMMA InitTInv == Init => TInv
<1> SUFFICES ASSUME Init PROVE TInv
  OBVIOUS
<1>1. Started
  BY DEF Init, Started
<1>2. ProxiesOK /\ RequestsOK /\ FlowInv /\ LiveInv /\ appCache \in [Apps -> Contents \cup {Nil}]
  BY <1>1, StartedFacts
<1>3. AppsOK
  BY <1>2 DEF Init, AppsOK
<1>4. BoundsOK
  BY BoundsAssumption DEF Init, BoundsOK
<1> QED
  BY <1>2, <1>3, <1>4 DEF TInv, TypeParts

\* Every step keeps it.
LEMMA StepTInv == TInv /\ [Next]_vars => TInv'
<1> SUFFICES ASSUME TInv, [Next]_vars PROVE TInv'
  OBVIOUS
<1> USE DEF TInv, TypeParts
<1>1. ASSUME NEW r \in Requests, RequestStep(r) PROVE TInv'
  <2>1. Moves(r) /\ Flow(req'[r])
    BY <1>1, FlowStep
  <2>2. RequestsOK' /\ FlowInv'
    BY <2>1 DEF Moves, RequestsOK, FlowInv
  <2>3. AppsOK' /\ BoundsOK' /\ ProxiesOK' /\ LiveInv'
    BY <1>1, AppsStep, BoundsStep, LiveStep
  <2> QED
    BY <2>2, <2>3
<1>2. CASE WorldStep
  <2>1. AppsOK' /\ BoundsOK' /\ UNCHANGED req /\ ProxiesOK' /\ LiveInv'
    BY <1>2, WorldApps, WorldProxies
  <2>2. RequestsOK' /\ FlowInv'
    BY <2>1 DEF RequestsOK, FlowInv
  <2> QED
    BY <2>1, <2>2
<1>3. CASE Restart
  <2>1. Started'
    BY <1>3 DEF Restart, Started
  <2>2. (Started => /\ ProxiesOK /\ RequestsOK /\ FlowInv /\ LiveInv
                    /\ appCache \in [Apps -> Contents \cup {Nil}])'
    BY StartedFacts, PTL
  <2>3. AppsOK'
    BY <1>3, <2>1, <2>2 DEF Restart, AppsOK
  <2>4. BoundsOK'
    BY <1>3, BoundsAssumption DEF Restart, Fault, BoundsOK
  <2> QED
    BY <2>1, <2>2, <2>3, <2>4
<1>4. CASE UNCHANGED vars
  <2>1. InUse' = InUse
    BY <1>4 DEF vars, InUse
  <2>2. AppsOK' /\ ProxiesOK' /\ RequestsOK' /\ BoundsOK'
    BY <1>4 DEF vars, AppsOK, ProxiesOK, RequestsOK, BoundsOK
  <2>3. FlowInv' /\ LiveInv'
    BY <1>4, <2>1 DEF vars, FlowInv, LiveInv
  <2> QED
    BY <2>2, <2>3
<1> QED
  BY <1>1, <1>2, <1>3, <1>4 DEF Next, RequestStep, WorldStep

\* The invariant of the types holds in every reachable state.
THEOREM TypeInvariant == Spec => []TInv
<1>1. Init => TInv
  BY InitTInv
<1>2. TInv /\ [Next]_vars => TInv'
  BY StepTInv
<1> QED
  BY <1>1, <1>2, PTL DEF Spec

\* Type correctness: a proxy that a request refers to has not been swept.
THEOREM TypeCorrect == Spec => []TypeOK
<1>1. TInv => TypeOK
  <2> SUFFICES ASSUME TInv PROVE TypeOK
    OBVIOUS
  <2>1. ASSUME NEW r \in Requests, req[r].proxy # Nil PROVE proxies[req[r].proxy] # Nil
    <3>1. req[r].proxy \in ProxyIds
      BY <2>1, RequestFields DEF TInv, TypeParts
    <3>2. req[r].proxy \in InUse
      BY <3>1, InUseFacts
    <3> QED
      BY <3>2 DEF TInv, LiveInv
  <2> QED
    BY <2>1 DEF TInv, TypeParts, AppsOK, ProxiesOK, RequestsOK, BoundsOK, TypeOK
<1> QED
  BY <1>1, TypeInvariant, PTL

-----------------------------------------------------------------------------
(* Routing                                                                 *)

\* What was registered once has been registered.
LEMMA RegisteredStays ==
  ASSUME NEW s, NEW t, \A a \in Apps : s[a] \subseteq t[a], NEW id, NEW target,
         Registered(s, id, target)
  PROVE  Registered(t, id, target)
  BY DEF Registered

\* Whoever refers to a proxy makes it one in use.
LEMMA ReferredInUse ==
  ASSUME NEW i \in ProxyIds, NEW h \in Handlers, NEW id
  PROVE  /\ Refers(proxyCache, req, i, h, id) => i \in InUse
         /\ Refers(proxyCache', req', i, h, id) => i \in InUse'
<1>1. id \in Identifiers[h] => cacheKey(id) \in CacheKeys
  BY KeyFacts
<1> QED
  BY <1>1, InUseFacts DEF Refers, Caches, Holds

\* The copies the gateway has are from the history.
LEMMA SeenStep ==
  ASSUME TInv, SeenInv, NEW r \in Requests, RequestStep(r)
  PROVE  SeenInv'
<1> USE DEF TInv, TypeParts
<1>1. Moves(r) /\ UNCHANGED <<apps, seen>>
  BY FlowStep, AppsStep
<1>2. ASSUME NEW a \in Apps, appCache'[a] # Nil PROVE appCache'[a] \in seen[a]
  BY <1>2, AppsStep DEF SeenInv
<1>3. ASSUME req'[r].pc = "add" PROVE req'[r].app \in seen[req'[r].id[1]]
  <2>1. getApplication(r)
    <3>1. ASSUME NEW call \in Calls PROVE ~ServeHTTP(r, call)
      BY <1>3, ServeEffect DEF Idle
    <3>2. ~addApplication(r)
      BY <1>3, StepAt, FlowFacts, AddEffect DEF Idle, Finds
    <3>3. ~getOrCreateCacheEntry(r) /\ ~createCacheEntry(r)
      BY <1>3, StepAt, FlowFacts, LookupEffect, CreateEffect DEF GetsProxy
    <3>4. ~setModifyResponse(r) /\ ~forward(r)
      BY <1>3, ModifyEffect, ForwardEffect DEF Idle
    <3>5. ~respond(r)
      BY <1>3, AnswerEffect DEF Idle, respond
    <3> QED
      BY <3>1, <3>2, <3>3, <3>4, <3>5 DEF RequestStep, Step
  <2>2. /\ req[r].id[1] \in Apps /\ req'[r].id = req[r].id
        /\ req'[r].app = apps[req[r].id[1]] /\ req'[r].app \in Contents
    BY <1>3, <2>1, GetEffect DEF Idle, SameCall
  <2> QED
    BY <2>2, ContentsAssumption DEF SeenInv
<1>4. ASSUME NEW q \in Requests, req'[q].pc = "add" PROVE req'[q].app \in seen[req'[q].id[1]]
  BY <1>1, <1>3, <1>4 DEF Moves, SeenInv
<1> QED
  BY <1>1, <1>2, <1>4 DEF SeenInv

\* A target that a request has is registered for its names.
LEMMA TargetStep ==
  ASSUME TInv, SeenInv, TargetInv, NEW r \in Requests, RequestStep(r)
  PROVE  TargetInv'
<1> USE DEF TInv, TypeParts
<1>1. Moves(r) /\ UNCHANGED <<apps, seen>>
  BY FlowStep, AppsStep
<1> DEFINE Goal ==
      req'[r].pc \in {"proxy", "create", "modify"} => Registered(seen, req'[r].id, req'[r].target)
<1> SUFFICES Goal
  BY <1>1 DEF Moves, TargetInv
<1>2. ASSUME NEW call \in Calls, ServeHTTP(r, call) PROVE Goal
  <2>1. ASSUME NEW id, id[1] \in Apps, appCache[id[1]] \in Contents, NEW t,
               \E e \in appCache[id[1]] : Matches(appCache[id[1]], id) = {e} /\ e.target = t
        PROVE  Registered(seen, id, t)
    <3>1. appCache[id[1]] \in seen[id[1]]
      BY <2>1, NilFacts DEF SeenInv
    <3> QED
      BY <2>1, <3>1 DEF Registered
  <2> QED
    BY <1>2, <2>1, ServeEffect DEF Idle
<1>3. CASE getApplication(r)
  BY <1>3, GetEffect DEF Idle
<1>4. CASE addApplication(r)
  <2>1. req[r].id[1] \in Apps /\ req[r].app \in Contents /\ req[r].app \in seen[req[r].id[1]]
    BY <1>4, StepAt, FlowFacts DEF SeenInv
  <2> QED
    BY <1>4, <2>1, AddEffect DEF Idle, Finds, SameCall, Registered
<1>5. CASE getOrCreateCacheEntry(r)
  <2>1. Registered(seen, req[r].id, req[r].target)
    BY <1>5, StepAt DEF TargetInv
  <2>2. req'[r].id = req[r].id /\ req'[r].target = req[r].target
    BY <1>5, StepAt, FlowFacts, LookupEffect DEF GetsProxy, SameCall
  <2> QED
    BY <2>1, <2>2
<1>6. CASE createCacheEntry(r)
  <2>1. Registered(seen, req[r].id, req[r].target)
    BY <1>6, StepAt DEF TargetInv
  <2>2. req'[r].id = req[r].id /\ req'[r].target = req[r].target
    BY <1>6, CreateEffect DEF GetsProxy, SameCall
  <2> QED
    BY <2>1, <2>2
<1>7. CASE setModifyResponse(r) \/ forward(r)
  BY <1>7, ModifyEffect, ForwardEffect DEF Idle
<1>8. CASE respond(r)
  BY <1>8, AnswerEffect DEF respond, Idle
<1> QED
  BY <1>2, <1>3, <1>4, <1>5, <1>6, <1>7, <1>8 DEF RequestStep, Step

\* A step other than a new proxy makes no new references: the request takes its proxy from
\* the entry of the cache for its names.
LEMMA ReferencesStay ==
  ASSUME TInv, NEW r \in Requests, RequestStep(r), ~createCacheEntry(r),
         NEW i \in ProxyIds, NEW h \in Handlers, NEW id \in AllIdentifiers,
         Refers(proxyCache', req', i, h, id)
  PROVE  Refers(proxyCache, req, i, h, id)
<1> USE DEF TInv, TypeParts
<1> DEFINE x == req[r]
           y == req'[r]
<1>1. Moves(r) /\ UNCHANGED proxyCache /\ Nil # i
  BY FlowStep, KeptStep, NilFacts
<1>2. CASE Caches(proxyCache', i, h, id)
  BY <1>1, <1>2 DEF Refers, Caches
<1>3. ASSUME NEW q \in Requests \ {r}, Holds(req'[q], i, h, id)
      PROVE  Refers(proxyCache, req, i, h, id)
  BY <1>1, <1>3 DEF Moves, Refers
<1>4. \/ y.proxy = Nil
      \/ SameCall(x, y) /\ y.proxy = x.proxy
      \/ SameCall(x, y) /\ Caches(proxyCache, y.proxy, x.handler, x.id)
  <2>1. ASSUME NEW call \in Calls, ServeHTTP(r, call) PROVE y.proxy = Nil
    BY <2>1, ServeEffect DEF Idle
  <2>2. CASE getApplication(r)
    BY <2>2, GetEffect DEF Idle
  <2>3. CASE addApplication(r)
    BY <2>3, StepAt, FlowFacts, AddEffect DEF Idle, Finds
  <2>4. CASE getOrCreateCacheEntry(r)
    BY <2>4, StepAt, FlowFacts, LookupEffect DEF GetsProxy, Caches
  <2>5. CASE setModifyResponse(r) \/ forward(r)
    BY <2>5, ModifyEffect, ForwardEffect DEF Idle
  <2>6. CASE respond(r)
    BY <2>6, AnswerEffect DEF Idle, respond
  <2> QED
    BY <2>1, <2>2, <2>3, <2>4, <2>5, <2>6 DEF RequestStep, Step
<1>5. ASSUME Holds(y, i, h, id) PROVE Refers(proxyCache, req, i, h, id)
  BY <1>1, <1>4, <1>5 DEF SameCall, Holds, Refers
<1> QED
  BY <1>2, <1>3, <1>5 DEF Refers

\* A new proxy is referred to for one API only; it replaces one in the cache.
LEMMA ReferencesAdded ==
  ASSUME TInv, KeysTellApart, NEW r \in Requests, NEW n \in ProxyIds, Adds(r, n), At(r, "create"),
         NEW i \in ProxyIds, NEW h \in Handlers, NEW id \in AllIdentifiers,
         Refers(proxyCache', req', i, h, id)
  PROVE  IF i = n THEN h = req[r].handler /\ id = req[r].id ELSE Refers(proxyCache, req, i, h, id)
<1> USE DEF TInv, TypeParts
<1>1. /\ req[r].handler \in Handlers /\ req[r].id \in Identifiers[req[r].handler]
      /\ cacheKey(req[r].id) \in CacheKeys
  BY FlowFacts
<1>2. n \notin InUse /\ GetsProxy(r, n)
  BY DEF Adds
<1>3. ASSUME Caches(proxyCache', i, h, id)
      PROVE  IF i = n THEN h = req[r].handler /\ id = req[r].id ELSE Caches(proxyCache, i, h, id)
  <2>1. id \in Identifiers[h] /\ cacheKey(id) \in CacheKeys /\ proxyCache'[h][cacheKey(id)] = i
    BY <1>3, KeyFacts DEF Caches
  <2>2. CASE h = req[r].handler /\ cacheKey(id) = cacheKey(req[r].id)
    <3>1. id = req[r].id
      BY <1>1, <2>1, <2>2 DEF KeysTellApart
    <3>2. i = n
      BY <2>1, <2>2 DEF Adds
    <3> QED
      BY <2>2, <3>1, <3>2
  <2>3. CASE ~(h = req[r].handler /\ cacheKey(id) = cacheKey(req[r].id))
    <3>1. proxyCache[h][cacheKey(id)] = i
      BY <2>1, <2>3 DEF Adds
    <3>2. i \in InUse
      BY <2>1, <3>1, InUseFacts
    <3> QED
      BY <1>2, <2>1, <3>1, <3>2 DEF Caches
  <2> QED
    BY <2>2, <2>3
<1>4. ASSUME NEW q \in Requests, Holds(req'[q], i, h, id)
      PROVE  IF i = n THEN h = req[r].handler /\ id = req[r].id
             ELSE \E s \in Requests : Holds(req[s], i, h, id)
  <2>1. CASE q = r
    BY <1>2, <1>4, <2>1 DEF GetsProxy, SameCall, Holds
  <2>2. CASE q # r
    <3>1. Holds(req[q], i, h, id)
      BY <1>2, <1>4, <2>2 DEF GetsProxy, Moves
    <3>2. i \in InUse
      BY <3>1, InUseFacts DEF Holds
    <3> QED
      BY <1>2, <3>1, <3>2
  <2> QED
    BY <2>1, <2>2
<1> QED
  BY <1>3, <1>4 DEF Refers

\* All who refer to a proxy still mean the same API.
LEMMA OneApiStep ==
  ASSUME TInv, KeysTellApart, OneApiInv, NEW r \in Requests, RequestStep(r)
  PROVE  OneApiInv'
<1> SUFFICES ASSUME NEW i \in ProxyIds, NEW g \in Handlers, NEW h \in Handlers,
                    NEW id1 \in AllIdentifiers, NEW id2 \in AllIdentifiers,
                    Refers(proxyCache', req', i, g, id1), Refers(proxyCache', req', i, h, id2)
             PROVE  g = h /\ id1 = id2
  BY DEF OneApiInv
<1>1. CASE createCacheEntry(r)
  <2>1. PICK n \in ProxyIds : Adds(r, n)
    BY <1>1, AddsStep DEF TInv, TypeParts
  <2>2. At(r, "create")
    BY <1>1, StepAt
  <2>3. CASE i = n
    BY <2>1, <2>2, <2>3, ReferencesAdded
  <2>4. CASE i # n
    <3>1. Refers(proxyCache, req, i, g, id1) /\ Refers(proxyCache, req, i, h, id2)
      BY <2>1, <2>2, <2>4, ReferencesAdded
    <3> QED
      BY <3>1 DEF OneApiInv
  <2> QED
    BY <2>3, <2>4
<1>2. CASE ~createCacheEntry(r)
  <2>1. Refers(proxyCache, req, i, g, id1) /\ Refers(proxyCache, req, i, h, id2)
    BY <1>2, ReferencesStay
  <2> QED
    BY <2>1 DEF OneApiInv
<1> QED
  BY <1>1, <1>2

\* A proxy goes to what was registered for its API, and rewrites for this API.
LEMMA ProxyStep ==
  ASSUME TInv, KeysTellApart, TargetInv, OneApiInv, ProxyInv, NEW r \in Requests, RequestStep(r)
  PROVE  ProxyInv'
<1> SUFFICES ASSUME NEW i \in ProxyIds, NEW h \in Handlers, NEW id \in AllIdentifiers,
                    Refers(proxyCache', req', i, h, id)
             PROVE  /\ Registered(seen', id, proxies'[i].target)
                    /\ proxies'[i].modify # Nil =>
                         /\ proxies'[i].modify.gateway = id
                         /\ Registered(seen', id, proxies'[i].modify.target)
  BY DEF ProxyInv
<1>1. seen' = seen /\ i \in InUse'
  BY AppsStep, ReferredInUse DEF TInv, TypeParts
<1>2. CASE createCacheEntry(r)
  <2>1. PICK n \in ProxyIds : Adds(r, n)
    BY <1>2, AddsStep DEF TInv, TypeParts
  <2>2. At(r, "create")
    BY <1>2, StepAt
  <2>3. CASE i = n
    <3>1. id = req[r].id
      BY <2>1, <2>2, <2>3, ReferencesAdded
    <3>2. Registered(seen, req[r].id, req[r].target)
      BY <2>2 DEF TargetInv
    <3> QED
      BY <1>1, <2>1, <2>3, <3>1, <3>2 DEF Adds
  <2>4. CASE i # n
    <3>1. Refers(proxyCache, req, i, h, id)
      BY <2>1, <2>2, <2>4, ReferencesAdded
    <3>2. proxies'[i] = proxies[i]
      BY <1>1, <2>1, <2>4 DEF Adds
    <3> QED
      BY <1>1, <3>1, <3>2 DEF ProxyInv
  <2> QED
    BY <2>3, <2>4
<1>3. CASE ~createCacheEntry(r)
  <2>1. Refers(proxyCache, req, i, h, id)
    BY <1>3, ReferencesStay
  <2>2. Kept(r)
    BY <1>3, KeptStep DEF TInv, TypeParts
  <2>3. /\ Registered(seen, id, proxies[i].target)
        /\ proxies[i].modify # Nil =>
             /\ proxies[i].modify.gateway = id
             /\ Registered(seen, id, proxies[i].modify.target)
    BY <2>1 DEF ProxyInv
  <2>4. CASE proxies'[i].modify = proxies[i].modify
    BY <1>1, <2>2, <2>3, <2>4 DEF Kept
  <2>5. CASE /\ i = req[r].proxy /\ proxies'[i].modify.gateway = req[r].id
             /\ req[r].pc = "modify" /\ proxies'[i].modify.target = req[r].target
    <3>1. req[r].handler \in Handlers /\ req[r].id \in AllIdentifiers
      <4>1. req[r].pc # "idle"
        BY <2>5, NilFacts DEF TInv, FlowInv, Flow
      <4> QED
        BY <4>1, FlowFacts DEF TInv, TypeParts
    <3>2. Refers(proxyCache, req, i, req[r].handler, req[r].id)
      BY <2>5 DEF Refers, Holds
    <3>3. id = req[r].id
      BY <2>1, <3>1, <3>2 DEF OneApiInv
    <3>4. Registered(seen, req[r].id, req[r].target)
      BY <2>5 DEF TargetInv
    <3> QED
      BY <1>1, <2>2, <2>3, <2>5, <3>3, <3>4 DEF Kept
  <2> QED
    BY <1>1, <2>2, <2>4, <2>5 DEF Kept
<1> QED
  BY <1>2, <1>3

\* A request that was sent has set ModifyResponse, and no one unsets it.
LEMMA ModifyStep ==
  ASSUME TInv, ModifyInv, NEW r \in Requests, RequestStep(r)
  PROVE  ModifyInv'
<1> USE DEF TInv, TypeParts
<1> SUFFICES ASSUME NEW q \in Requests, req'[q].pc \in {"send", "respond"}
             PROVE  proxies'[req'[q].proxy].modify # Nil
  BY DEF ModifyInv
<1> DEFINE i == req'[q].proxy
           Set == proxies'[i].modify # Nil
<1> SUFFICES Set
  OBVIOUS
<1>1. Moves(r)
  BY FlowStep
<1>2. TInv'
  <2>1. [Next]_vars
    BY DEF Next, RequestStep
  <2> QED
    BY <2>1, StepTInv
<1>3. i \in ProxyIds /\ i \in InUse'
  <2>1. Flow(req'[q]) /\ req'[q].proxy \in ProxyIds \cup {Nil}
    BY <1>1, <1>2 DEF FlowInv, Moves, RequestType
  <2>2. i \in ProxyIds
    BY <2>1 DEF Flow
  <2> QED
    BY <2>2, InUseFacts
<1>4. CASE q # r
  <2>1. req'[q] = req[q] /\ proxies[i].modify # Nil
    BY <1>1, <1>4 DEF Moves, ModifyInv
  <2>2. i \in InUse
    BY <1>3, <2>1, InUseFacts
  <2> HIDE DEF i
  <2>3. CASE createCacheEntry(r)
    <3>1. PICK n \in ProxyIds : Adds(r, n)
      BY <2>3, AddsStep
    <3>2. i # n
      BY <2>2, <3>1 DEF Adds
    <3> QED
      BY <1>3, <2>1, <3>1, <3>2 DEF Adds
  <2>4. CASE ~createCacheEntry(r)
    <3>1. Kept(r)
      BY <2>4, KeptStep
    <3> QED
      BY <1>3, <2>1, <3>1, NilFacts DEF Kept
  <2> QED
    BY <2>3, <2>4
<1>5. CASE q = r /\ setModifyResponse(r)
  <2> DEFINE m == [gateway |-> req[r].id, target |-> req[r].target]
  <2>1. req'[r].proxy = req[r].proxy /\ proxies' = [proxies EXCEPT ![req[r].proxy].modify = m]
    BY <1>5, ModifyEffect DEF Idle
  <2>2. /\ req[r].proxy \in ProxyIds /\ req[r].id \in AllIdentifiers
        /\ req[r].target \in AllTargets
    BY <1>5, StepAt, FlowFacts
  <2>3. m \in Modifiers /\ m # Nil
    BY <2>2, NilFacts DEF Modifiers
  <2>4. proxies[req[r].proxy] \in Proxies
    BY <2>2, InUseFacts DEF LiveInv, ProxiesOK
  <2> HIDE DEF m
  <2>5. proxies'[req[r].proxy] = [proxies[req[r].proxy] EXCEPT !.modify = m]
    BY <2>1, <2>2 DEF ProxiesOK
  <2>6. proxies'[req[r].proxy].modify = m
    BY <2>4, <2>5 DEF Proxies
  <2> QED
    BY <1>5, <2>1, <2>3, <2>6
<1>6. CASE q = r /\ forward(r)
  <2>1. req'[r].proxy = req[r].proxy
    BY <1>6, ForwardEffect DEF Idle
  <2>2. proxies[i].modify # Nil
    BY <1>6, <2>1, StepAt DEF ModifyInv
  <2>3. ~createCacheEntry(r)
    BY <1>6, StepAt
  <2>4. Kept(r)
    BY <2>3, KeptStep
  <2> QED
    BY <1>3, <2>2, <2>4, NilFacts DEF Kept
<1>7. CASE q = r /\ ~setModifyResponse(r) /\ ~forward(r)
  <2>1. ASSUME NEW call \in Calls PROVE ~ServeHTTP(r, call)
    BY <1>7, ServeEffect DEF Idle
  <2>2. ~getApplication(r) /\ ~addApplication(r)
    BY <1>7, StepAt, FlowFacts, GetEffect, AddEffect DEF Idle, Finds
  <2>3. ~getOrCreateCacheEntry(r) /\ ~createCacheEntry(r)
    BY <1>7, StepAt, FlowFacts, LookupEffect, CreateEffect DEF GetsProxy
  <2>4. ~respond(r)
    BY <1>7, AnswerEffect DEF Idle, respond
  <2> QED
    BY <1>7, <2>1, <2>2, <2>3, <2>4 DEF RequestStep, Step
<1> QED
  BY <1>4, <1>5, <1>6, <1>7

\* The parts of the invariant that routing adds to that of the types.
RouteParts == SeenInv /\ TargetInv /\ OneApiInv /\ ProxyInv /\ ModifyInv

\* The world takes references away and adds to the history: routes stay what they are.
LEMMA WorldRoutes ==
  ASSUME TInv, RouteParts, req' = req,
         \A a \in Apps : appCache'[a] \in {appCache[a], Nil} /\ seen[a] \subseteq seen'[a],
         \A a \in Apps : apps'[a] = apps[a] \/ apps'[a] = NoApp \/ apps'[a] \in seen'[a],
         \A h \in Handlers, k \in CacheKeys : proxyCache'[h][k] \in {proxyCache[h][k], Nil},
         \A i \in InUse' : proxies'[i] = proxies[i]
  PROVE  RouteParts'
<1> USE DEF TInv, TypeParts
<1>1. req' = req /\ SeenInv /\ TargetInv /\ OneApiInv /\ ProxyInv /\ ModifyInv
  BY DEF RouteParts
<1>2. SeenInv'
  <2>1. ASSUME NEW r \in Requests, req'[r].pc = "add" PROVE req'[r].app \in seen'[req'[r].id[1]]
    <3>1. req[r].id[1] \in Apps
      BY <1>1, <2>1, FlowFacts
    <3> QED
      BY <1>1, <2>1, <3>1 DEF SeenInv
  <2> QED
    BY <1>1, <2>1 DEF SeenInv
<1>3. ASSUME NEW id, NEW target, Registered(seen, id, target) PROVE Registered(seen', id, target)
  BY <1>3, RegisteredStays
<1>4. TargetInv'
  BY <1>1, <1>3 DEF TargetInv
<1>5. ASSUME NEW i \in ProxyIds, NEW h \in Handlers, NEW id \in AllIdentifiers,
             Refers(proxyCache', req', i, h, id)
      PROVE  Refers(proxyCache, req, i, h, id) /\ proxies'[i] = proxies[i]
  <2>1. i \in InUse' /\ i # Nil
    BY <1>5, ReferredInUse, NilFacts
  <2>2. Caches(proxyCache', i, h, id) => Caches(proxyCache, i, h, id)
    BY <2>1, KeyFacts DEF Caches
  <2> QED
    BY <1>1, <1>5, <2>1, <2>2 DEF Refers
<1>6. OneApiInv'
  BY <1>1, <1>5 DEF OneApiInv
<1>7. ProxyInv'
  BY <1>1, <1>3, <1>5 DEF ProxyInv
<1>8. ModifyInv'
  <2>1. ASSUME NEW r \in Requests, req[r].pc \in {"send", "respond"}
        PROVE  req[r].proxy \in InUse'
    BY <1>1, <2>1, FlowFacts, InUseFacts
  <2> QED
    BY <1>1, <2>1 DEF ModifyInv
<1> QED
  BY <1>2, <1>4, <1>6, <1>7, <1>8 DEF RouteParts

\* No one refers to a proxy at the start.
LEMMA StartedRoutes ==
  ASSUME Started, \A a \in Apps : apps[a] # NoApp => apps[a] \in seen[a]
  PROVE  RouteParts
<1>1. /\ \A a \in Apps : appCache[a] = Nil
      /\ \A r \in Requests : Idle(req[r])
      /\ \A h \in Handlers, k \in CacheKeys : proxyCache[h][k] = Nil
  BY StartedFacts
<1>2. SeenInv /\ TargetInv /\ ModifyInv
  BY <1>1 DEF SeenInv, TargetInv, ModifyInv, Idle
<1>3. ASSUME NEW i \in ProxyIds, NEW h \in Handlers, NEW id PROVE ~Refers(proxyCache, req, i, h, id)
  <2>1. i # Nil
    BY NilFacts
  <2>2. ~Caches(proxyCache, i, h, id)
    BY <1>1, <2>1, KeyFacts DEF Caches
  <2>3. ASSUME NEW r \in Requests PROVE ~Holds(req[r], i, h, id)
    BY <1>1, <2>1 DEF Idle, Holds
  <2> QED
    BY <2>2, <2>3 DEF Refers
<1>4. OneApiInv /\ ProxyInv
  BY <1>3 DEF OneApiInv, ProxyInv
<1> QED
  BY <1>2, <1>4 DEF RouteParts

\* The start satisfies the invariant of routing.
LEMMA InitRInv == KeysTellApart /\ Init => RInv
<1> SUFFICES ASSUME KeysTellApart, Init PROVE RInv
  OBVIOUS
<1>1. Started
  BY DEF Init, Started
<1>2. \A a \in Apps : apps[a] # NoApp => apps[a] \in seen[a]
  BY DEF Init
<1>3. TInv /\ RouteParts
  BY <1>1, <1>2, InitTInv, StartedRoutes
<1> QED
  BY <1>3 DEF RInv, RouteParts

\* Every step keeps it.
LEMMA StepRInv == RInv /\ [Next]_vars => RInv'
<1> SUFFICES ASSUME RInv, [Next]_vars PROVE RInv'
  OBVIOUS
<1>1. TInv /\ KeysTellApart /\ RouteParts
  BY DEF RInv, RouteParts
<1>2. TInv' /\ KeysTellApart'
  BY <1>1, StepTInv DEF KeysTellApart
<1> SUFFICES RouteParts'
  BY <1>2 DEF RInv, RouteParts
<1>3. ASSUME NEW r \in Requests, RequestStep(r) PROVE RouteParts'
  BY <1>1, <1>3, SeenStep, TargetStep, OneApiStep, ProxyStep, ModifyStep DEF RouteParts
<1>4. CASE WorldStep
  BY <1>1, <1>4, WorldApps, WorldProxies, WorldRoutes DEF TInv, TypeParts
<1>5. CASE Restart
  <2>1. Started' /\ (\A a \in Apps : apps[a] # NoApp => apps[a] \in seen[a])'
    BY <1>1, <1>5 DEF Restart, Started, RouteParts, SeenInv
  <2>2. (Started /\ (\A a \in Apps : apps[a] # NoApp => apps[a] \in seen[a]) => RouteParts)'
    BY StartedRoutes, PTL
  <2> QED
    BY <2>1, <2>2
<1>6. CASE UNCHANGED vars
  BY <1>1, <1>6 DEF vars, RouteParts, SeenInv, TargetInv, OneApiInv, ProxyInv, ModifyInv
<1> QED
  BY <1>3, <1>4, <1>5, <1>6 DEF Next, RequestStep, WorldStep

\* The invariant of routing, when the cache keys tell the APIs of a handler apart (which
\* names like "ab", "c" and "a", "bc" do not).
THEOREM RoutingInvariant == KeysTellApart /\ Spec => []RInv
<1>1. KeysTellApart /\ Init => RInv
  BY InitRInv
<1>2. RInv /\ [Next]_vars => RInv'
  BY StepRInv
<1> QED
  BY <1>1, <1>2, PTL DEF Spec

\* The URL that is called belongs to the API whose names the path has, whatever other
\* requests, changes of Applications and expired entries came in between.
THEOREM PathLeadsToItsApi == KeysTellApart /\ Spec => []PathDefinesApi
<1>1. RInv => PathDefinesApi
  <2> SUFFICES ASSUME RInv, NEW r \in Requests, At(r, "send")
               PROVE  \E content \in seen[req[r].id[1]] : \E e \in content :
                         /\ Matches(content, req[r].id) = {e}
                         /\ called(r) = [origin |-> e.target.origin,
                                         path |-> joinPaths(e.target.path, req[r].path)]
    BY DEF PathDefinesApi
  <2> DEFINE i == req[r].proxy
  <2>1. /\ i \in ProxyIds /\ req[r].handler \in Handlers /\ req[r].id \in AllIdentifiers
    BY FlowFacts DEF RInv, TInv, TypeParts
  <2>2. Refers(proxyCache, req, i, req[r].handler, req[r].id)
    BY DEF Refers, Holds
  <2>3. Registered(seen, req[r].id, proxies[i].target)
    BY <2>1, <2>2 DEF RInv, ProxyInv
  <2>4. PICK content \in seen[req[r].id[1]] : \E e \in content :
            Matches(content, req[r].id) = {e} /\ e.target = proxies[i].target
    BY <2>3 DEF Registered
  <2>5. called(r) = [origin |-> proxies[i].target.origin,
                     path |-> joinPaths(proxies[i].target.path, req[r].path)]
    BY DEF called
  <2> QED
    BY <2>4, <2>5
<1> QED
  BY <1>1, RoutingInvariant, PTL

\* When an API has kept its target, both of its reverse proxy and of ModifyResponse have it.
LEMMA OneTarget ==
  ASSUME NEW id, NEW t, NEW u, Registered(seen, id, t), Registered(seen, id, u), ~Moved(id)
  PROVE  t = u
<1>1. PICK c \in seen[id[1]] : \E e \in c : Matches(c, id) = {e} /\ e.target = t
  BY DEF Registered
<1>2. PICK d \in seen[id[1]] : \E f \in d : Matches(d, id) = {f} /\ f.target = u
  BY DEF Registered
<1> QED
  BY <1>1, <1>2 DEF Moved

\* A redirect beneath the target that was called is rewritten to a path of the gateway that
\* leads, by the names of its API and through the same reverse proxy, to the location that
\* the external system named, whoever has set ModifyResponse last; after the API has moved,
\* it is so when ModifyResponse was set with the target of the proxy.
THEOREM RedirectsLeadBack == KeysTellApart /\ PathsAreClean /\ Spec => []RedirectsComeBack
<1>1. RInv /\ PathsAreClean => RedirectsComeBack
  <2> SUFFICES ASSUME RInv, PathsAreClean, NEW r \in Requests, At(r, "respond"),
                      Beneath(req[r].loc, proxies[req[r].proxy].target),
                      \/ ~Moved(req[r].id)
                      \/ proxies[req[r].proxy].modify.target = proxies[req[r].proxy].target
               PROVE  rewritten(r) # Nil /\ LeadsTo(r, rewritten(r))
    BY DEF RedirectsComeBack
  <2> DEFINE i == req[r].proxy
             h == req[r].handler
             id == req[r].id
             m == proxies[i].modify
             t == proxies[i].target
             loc == req[r].loc
             rest == TrimPrefix(loc.path, t.path)
  <2>1. /\ i \in ProxyIds /\ h \in Handlers /\ id \in Identifiers[h] /\ id \in AllIdentifiers
        /\ loc \in Locations
    <3>1. Flow(req[r])
      BY DEF RInv, TInv, FlowInv
    <3> QED
      BY <3>1, FlowFacts DEF RInv, TInv, TypeParts, Flow
  <2>2. m \in Modifiers
    <3>1. proxies[i] \in Proxies
      BY <2>1, InUseFacts DEF RInv, TInv, TypeParts, ProxiesOK, LiveInv
    <3>2. m # Nil
      BY DEF RInv, ModifyInv
    <3> QED
      BY <3>1, <3>2 DEF Proxies
  <2>3. m.gateway = id /\ m.target = t
    <3>1. Refers(proxyCache, req, i, h, id)
      BY DEF Refers, Holds
    <3>2. m # Nil
      BY <2>2, NilFacts
    <3>3. m.gateway = id /\ Registered(seen, id, m.target) /\ Registered(seen, id, t)
      BY <2>1, <3>1, <3>2 DEF RInv, ProxyInv
    <3> QED
      BY <3>3, OneTarget
  <2>4. t.path \in Paths
    <3>1. t \in AllTargets
      BY <2>2, <2>3 DEF Modifiers
    <3> QED
      BY <3>1, ContentsAssumption DEF AllTargets, IsEntry, Paths
  <2>5. loc \in [origin : Origins, path : Paths]
    BY <2>1, CallsAssumption DEF Paths
  <2> HIDE DEF id, h, t, loc, i
  <2>6. /\ loc.origin = t.origin /\ t.origin.scheme \in {"http", "https"}
        /\ loc.path # <<>> => Last(loc.path) # <<>>
        /\ HasPrefix(loc.path, t.path)
        /\ t.path # <<>> /\ Last(t.path) # <<>> => IsPrefix(t.path, loc.path)
    <3>1. Beneath(loc, t)
      BY DEF t, loc, i
    <3> QED
      BY <2>4, <2>5, <3>1, BeginsWith DEF Beneath
  <2>7. rewritten(r) = id \o rest
    BY <2>3, <2>6 DEF rewritten, urlRewriter, id, t, loc, i
  <2>8. \A k \in 1..Len(loc.path) : loc.path[k] # <<>>
    <3>1. Len(loc.path) \in Nat
      BY <2>5, LenProperties DEF Paths
    <3>2. \A k \in 1..(Len(loc.path) - 1) : loc.path[k] # <<>>
      BY <2>1 DEF PathsAreClean
    <3> QED
      BY <2>6, <3>1, <3>2 DEF Last
  <2>9. /\ rest \in Paths /\ (rest # <<>> => Last(rest) # <<>>)
        /\ joinPaths(t.path, rest) = loc.path
    BY <2>4, <2>5, <2>6, <2>8, PutBack
  <2> HIDE DEF rest
  <2>10. /\ Extractable(h, id \o rest) /\ apiIdentifier(h, id \o rest) = id
         /\ targetAPIPath(h, id \o rest) = rest
    BY <2>1, <2>9, TakenApart DEF PathsAreClean
  <2>11. loc = [origin |-> t.origin, path |-> joinPaths(t.path, targetAPIPath(h, id \o rest))]
    BY <2>5, <2>6, <2>9, <2>10
  <2>12. LeadsTo(r, rewritten(r))
    BY <2>7, <2>10, <2>11 DEF LeadsTo, h, id, t, loc, i
  <2>13. id \o rest # Nil
    <3>1. id \o rest \in Paths
      BY <2>1, <2>9, NamesFacts, ConcatProperties DEF Paths
    <3> QED
      BY <3>1, ValuesAssumption DEF Paths
  <2> QED
    BY <2>7, <2>12, <2>13
<1>2. PathsAreClean /\ [Next]_vars => PathsAreClean'
  BY DEF PathsAreClean
<1> QED
  BY <1>1, <1>2, RoutingInvariant, PTL DEF Spec
=============================================================================
