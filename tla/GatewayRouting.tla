--------------------------- MODULE GatewayRouting ---------------------------
(***************************************************************************)
(* The Central Application Gateway: from the path of a request to the      *)
(* external URL that is called, and from the Location of the answer back   *)
(* to a path of the gateway (components/central-application-gateway,       *)
(* internal/proxy and internal/metadata).                                  *)
(*                                                                         *)
(* A request names an Application, a service and, on the port for Compass, *)
(* an entry.  The Application is read through a cache; the reverse proxy   *)
(* of the API comes from a second cache and carries, besides its target,   *)
(* the ModifyResponse function that every request that uses it sets anew.  *)
(* Applications change and entries of both caches expire meanwhile.        *)
(* Credentials and tokens are the subject of Gateway.                      *)
(*                                                                         *)
(* A path is the sequence of its segments, a segment a sequence of         *)
(* numbers; after a trailing slash the last segment is empty.              *)
(***************************************************************************)
EXTENDS Naturals, Sequences, FiniteSets, FiniteSetsExt, SequencesExt

CONSTANTS
    Requests,   \* callers; each makes one request after the other
    Apps,       \* names of Applications, as segments
    Contents,   \* what an Application may hold: sets of Entries
    Calls,      \* the requests of callers: [handler, path]
    Locations,  \* URLs that external systems redirect to
    ProxyIds,   \* bound: tells reverse proxies in use apart
    NoApp,      \* there is no such Application
    Nil,        \* not cached, not set
    MaxChanges, \* bound: changes of Applications
    MaxFaults   \* bound: failing calls and restarts

Handlers == {"kyma", "compass"}

Origins == [scheme : {"http", "https", "ftp"}, name : Nat, port : Nat]

\* The services of an Application and their entries; two display names may have the
\* same normalised form.
IsEntry(e) ==
    /\ e.service.normal \in Seq(Nat) /\ e.entry.normal \in Seq(Nat)
    /\ e.type \in {"API", "Events"}
    /\ e.target.origin \in Origins /\ e.target.path \in Seq(Seq(Nat))

ASSUME ContentsAssumption ==
    /\ \A content \in Contents : IsFiniteSet(content) /\ \A e \in content : IsEntry(e)
    /\ NoApp \notin Contents /\ Nil \notin Contents
ASSUME CallsAssumption ==
    /\ \A c \in Calls : c.handler \in Handlers /\ c.path \in Seq(Seq(Nat))
    /\ Locations \subseteq [origin : Origins, path : Seq(Seq(Nat))]
ASSUME BoundsAssumption == MaxChanges \in Nat /\ MaxFaults \in Nat

-----------------------------------------------------------------------------
(* Paths                                                                   *)

\* strings.Trim(path, "/"): the empty segments at both ends go.
Trim(path) ==
    LET full == {i \in DOMAIN path : path[i] # <<>>}
    IN  IF full = {} THEN <<>> ELSE SubSeq(path, Min(full), Max(full))

NamesIn(handler) == IF handler = "kyma" THEN 2 ELSE 3

\* pathExtractor: the names, and what follows them.
Extractable(handler, path) == Len(Trim(path)) >= NamesIn(handler)

apiIdentifier(handler, path) == SubSeq(Trim(path), 1, NamesIn(handler))

targetAPIPath(handler, path) ==
    SubSeq(Trim(path), NamesIn(handler) + 1, Len(Trim(path)))

\* Mutant: two names for both handlers.
gwURLOfService(id) == SubSeq(id, 1, 2)

\* The path of the gateway under which the API is called.
gwURL(id) == id

\* joinPaths: exactly one slash in between.
joinPaths(a, b) ==
    LET open   == IF a # <<>> /\ Last(a) = <<>> THEN Front(a) ELSE a
        closed == IF b # <<>> /\ Head(b) = <<>> THEN Tail(b) ELSE b
    IN  IF b = <<>> THEN a ELSE open \o closed

\* strings.HasPrefix of the paths: the last segment of t may go on in p.
HasPrefix(p, t) ==
    \/ t = <<>>
    \/ /\ Len(p) >= Len(t) /\ Front(t) = SubSeq(p, 1, Len(t) - 1)
       /\ IsPrefix(Last(t), p[Len(t)])

\* strings.TrimPrefix and JoinPath: what is left of the segment in which t ends, if
\* anything is, becomes a segment of its own.
TrimPrefix(p, t) ==
    IF t = <<>> THEN p
    ELSE LET seg  == p[Len(t)]
             rest == SubSeq(seg, Len(Last(t)) + 1, Len(seg))
         IN  (IF rest = <<>> THEN <<>> ELSE <<rest>>) \o SubSeq(p, Len(t) + 1, Len(p))

\* urlRewriter: the path of the gateway that stands for the location, or Nil if the
\* location is left as it is.
urlRewriter(gateway, target, loc) ==
    IF /\ loc.origin.scheme \in {"http", "https"}
       /\ loc.origin.name = target.origin.name
       /\ HasPrefix(loc.path, target.path)
    THEN gateway \o TrimPrefix(loc.path, target.path)
    ELSE Nil

-----------------------------------------------------------------------------
(* Registered APIs                                                         *)

\* NormalizeName: what a caller writes for a display name.
NormalizeName(name) == name.normal

\* getMatchFunction and matchServiceAndEntry
Matches(content, id) ==
    {e \in content :
        /\ e.type = "API" /\ NormalizeName(e.service) = id[2]
        /\ Len(id) = 3 => NormalizeName(e.entry) = id[3]}

\* Mutant: the first of several matches is taken.
foundAmongSeveral(content, id) == Matches(content, id) # {}

\* get: exactly one entry has to match.
found(content, id) == Cardinality(Matches(content, id)) = 1

convert(content, id) == (CHOOSE e \in Matches(content, id) : TRUE).target

\* The key of the proxy cache: the names, one after the other.
cacheKey(id) == FlattenSeq(id)

Identifiers ==
    [h \in Handlers |->
        {apiIdentifier(h, c.path) : c \in {d \in Calls : d.handler = h /\ Extractable(h, d.path)}}]

AllIdentifiers == UNION {Identifiers[h] : h \in Handlers}

CacheKeys == {cacheKey(id) : id \in AllIdentifiers}

AllTargets == UNION {{e.target : e \in content} : content \in Contents}

Modifiers == [gateway : AllIdentifiers, target : AllTargets]

Proxies == [target : AllTargets, modify : Modifiers \cup {Nil}]

\* What is not set is none of the values.
ASSUME ValuesAssumption ==
    Nil \notin Proxies \cup ProxyIds \cup Modifiers /\ Nil \notin Seq(Seq(Nat))

VARIABLES
    apps,       \* the Applications on the cluster
    appCache,   \* the cache of the Application repository
    proxyCache, \* per handler, the reverse proxies in its cache
    proxies,    \* the reverse proxies: their target and their ModifyResponse
    req,        \* the requests
    seen,       \* history: what every Application has been
    changes, faults

vars == <<apps, appCache, proxyCache, proxies, req, seen, changes, faults>>

RequestType ==
    [pc : {"idle", "get", "add", "proxy", "create", "modify", "send", "respond"},
     handler : Handlers,
     id : AllIdentifiers \cup {Nil},
     path : {targetAPIPath(c.handler, c.path) : c \in Calls} \cup {Nil},
     app : Contents \cup {Nil},         \* the copy that was read from the cluster
     target : AllTargets \cup {Nil},    \* serviceAPI.TargetUrl
     proxy : ProxyIds \cup {Nil},       \* the cache entry
     loc : Locations \cup {Nil}]        \* Location of the answer

TypeOK ==
    /\ apps \in [Apps -> Contents \cup {NoApp}]
    /\ appCache \in [Apps -> Contents \cup {Nil}]
    /\ proxyCache \in [Handlers -> [CacheKeys -> ProxyIds \cup {Nil}]]
    /\ proxies \in [ProxyIds -> Proxies \cup {Nil}]
    /\ req \in [Requests -> RequestType]
    /\ \A r \in Requests : req[r].proxy # Nil => proxies[req[r].proxy] # Nil
    /\ seen \in [Apps -> SUBSET Contents]
    /\ changes \in 0..MaxChanges /\ faults \in 0..MaxFaults

NoRequest ==
    [pc |-> "idle", handler |-> "kyma", id |-> Nil, path |-> Nil, app |-> Nil, target |-> Nil,
     proxy |-> Nil, loc |-> Nil]

EmptyCache == [h \in Handlers |-> [k \in CacheKeys |-> Nil]]

\* The gateway has started; the Applications are what users and Compass made them.
Init ==
    /\ apps \in [Apps -> Contents \cup {NoApp}]
    /\ appCache = [a \in Apps |-> Nil]
    /\ proxyCache = EmptyCache /\ proxies = [i \in ProxyIds |-> Nil]
    /\ req = [r \in Requests |-> NoRequest]
    /\ seen = [a \in Apps |-> {apps[a]} \ {NoApp}]
    /\ changes = 0 /\ faults = 0

-----------------------------------------------------------------------------

Fault == faults < MaxFaults /\ faults' = faults + 1

NoFault == UNCHANGED faults

At(r, pc) == req[r].pc = pc

Go(r, next) == req' = [req EXCEPT ![r] = next]

\* The caller has its answer, or its error.
Answer(r) == Go(r, NoRequest)

\* A reverse proxy that no cache entry and no request refers to is gone.
InUse ==
    {i \in ProxyIds :
        \/ \E h \in Handlers, k \in CacheKeys : proxyCache[h][k] = i
        \/ \E r \in Requests : req[r].proxy = i}

Sweep == proxies' = [i \in ProxyIds |-> IF i \in InUse' THEN proxies[i] ELSE Nil]

\* With the API of the request in hand; handleErrors if there is none, or are several.
withAPI(request, content) ==
    IF found(content, request.id)
    THEN [request EXCEPT !.pc = "proxy", !.target = convert(content, request.id), !.app = Nil]
    ELSE NoRequest

-----------------------------------------------------------------------------
(* A request                                                               *)

\* ServeHTTP up to the lookup in the cache of Applications; a path with too few names
\* is refused.
ServeHTTP(r, call) ==
    LET id  == apiIdentifier(call.handler, call.path)
        new == [NoRequest EXCEPT !.pc = "get", !.handler = call.handler, !.id = id,
                                 !.path = targetAPIPath(call.handler, call.path)]
        a   == id[1]
    IN  /\ At(r, "idle") /\ Extractable(call.handler, call.path)
        /\ Go(r, IF a \in Apps /\ appCache[a] # Nil THEN withAPI(new, appCache[a]) ELSE new)
        /\ UNCHANGED <<apps, appCache, proxyCache, proxies, seen, changes, faults>>

\* Mutant: the error is not looked at.
getApplicationUnchecked(r) ==
    /\ At(r, "get") /\ NoFault
    /\ Go(r, [req[r] EXCEPT !.pc = "add", !.app = apps[req[r].id[1]]])
    /\ UNCHANGED <<apps, appCache, proxyCache, proxies, seen, changes>>

\* getApplication: from the cluster; an Application that is not there is an error.
getApplication(r) ==
    LET a == req[r].id[1]
    IN  /\ At(r, "get")
        /\ \/ /\ a \in Apps /\ apps[a] # NoApp /\ NoFault
              /\ Go(r, [req[r] EXCEPT !.pc = "add", !.app = apps[a]])
           \/ (a \notin Apps \/ apps[a] = NoApp) /\ NoFault /\ Answer(r)
           \/ Fault /\ Answer(r)
        /\ UNCHANGED <<apps, appCache, proxyCache, proxies, seen, changes>>

\* Add keeps a copy that another request has added meanwhile; this request goes on with
\* the copy it read.
addApplication(r) ==
    LET a == req[r].id[1]
    IN  /\ At(r, "add")
        /\ appCache' = [appCache EXCEPT ![a] = IF @ = Nil THEN req[r].app ELSE @]
        /\ Go(r, withAPI(req[r], req[r].app))
        /\ UNCHANGED <<apps, proxyCache, proxies, seen, changes, faults>>

\* getOrCreateCacheEntry: a cached proxy is used as it is.
getOrCreateCacheEntry(r) ==
    LET entry == proxyCache[req[r].handler][cacheKey(req[r].id)]
    IN  /\ At(r, "proxy")
        /\ Go(r, IF entry # Nil THEN [req[r] EXCEPT !.pc = "modify", !.proxy = entry]
                 ELSE [req[r] EXCEPT !.pc = "create"])
        /\ UNCHANGED <<apps, appCache, proxyCache, proxies, seen, changes, faults>>

\* createCacheEntry and Put, over what another request has put there.
createCacheEntry(r) ==
    LET i == CHOOSE j \in ProxyIds \ InUse : TRUE
        h == req[r].handler
    IN  /\ At(r, "create") /\ ProxyIds \ InUse # {}
        /\ proxyCache' = [proxyCache EXCEPT ![h][cacheKey(req[r].id)] = i]
        /\ Go(r, [req[r] EXCEPT !.pc = "modify", !.proxy = i])
        /\ proxies' = [j \in ProxyIds |->
                          IF j = i THEN [target |-> req[r].target, modify |-> Nil]
                          ELSE IF j \in InUse' THEN proxies[j] ELSE Nil]
        /\ UNCHANGED <<apps, appCache, seen, changes, faults>>

\* The authorisation (Gateway) succeeds or not; then the request sets ModifyResponse of
\* the proxy, which others may be using.
setModifyResponse(r) ==
    LET modify == [gateway |-> gwURL(req[r].id),
                   target |-> req[r].target]
    IN  /\ At(r, "modify")
        /\ UNCHANGED <<apps, appCache, proxyCache, seen, changes>>
        /\ \/ /\ proxies' = [proxies EXCEPT ![req[r].proxy].modify = modify]
              /\ Go(r, [req[r] EXCEPT !.pc = "send", !.target = Nil]) /\ NoFault
           \/ Fault /\ Answer(r) /\ Sweep

\* The director of the proxy: the URL that is called.
called(r) ==
    LET target == proxies[req[r].proxy].target
    IN  [origin |-> target.origin,
         path |-> joinPaths(target.path, req[r].path)]

\* The call fails or is answered, with or without a redirect.
forward(r) ==
    /\ At(r, "send")
    /\ \/ /\ \E l \in Locations : Go(r, [req[r] EXCEPT !.pc = "respond", !.loc = l])
          /\ NoFault
       \/ Answer(r) /\ (NoFault \/ Fault)
    /\ UNCHANGED <<apps, appCache, proxyCache, seen, changes>> /\ Sweep

\* The Location that the caller gets: a path of the gateway, or Nil if it is not changed.
rewritten(r) ==
    LET modify == proxies[req[r].proxy].modify
    IN  urlRewriter(modify.gateway, modify.target, req[r].loc)

\* responseModifier: ModifyResponse as it is by now.
respond(r) ==
    /\ At(r, "respond") /\ Answer(r)
    /\ UNCHANGED <<apps, appCache, proxyCache, seen, changes, faults>> /\ Sweep

-----------------------------------------------------------------------------
(* Time and the world                                                      *)

\* Mutant: entries without an expiration.
keepApplication(a) == FALSE /\ UNCHANGED vars

\* The time to live of an entry has passed.  Only what is outdated is expired here: an
\* entry that is replaced by its equal cannot be told from the old one.
expireApplication(a) ==
    /\ appCache[a] \notin {Nil, apps[a]} /\ appCache' = [appCache EXCEPT ![a] = Nil]
    /\ UNCHANGED <<apps, proxyCache, proxies, req, seen, changes, faults>>

\* The target of the proxy is what the Application registers under this name.
Current(i, id) ==
    /\ id[1] \in Apps /\ apps[id[1]] # NoApp
    /\ found(apps[id[1]], id) /\ proxies[i].target = convert(apps[id[1]], id)

expireProxy(h, id) ==
    LET k == cacheKey(id)
    IN  /\ proxyCache[h][k] # Nil /\ ~Current(proxyCache[h][k], id)
        /\ proxyCache' = [proxyCache EXCEPT ![h][k] = Nil]
        /\ UNCHANGED <<apps, appCache, req, seen, changes, faults>> /\ Sweep

ChangeApplication(a) ==
    /\ changes < MaxChanges /\ changes' = changes + 1
    /\ apps' \in {[apps EXCEPT ![a] = c] : c \in (Contents \cup {NoApp}) \ {apps[a]}}
    /\ seen' = [seen EXCEPT ![a] = @ \cup ({apps'[a]} \ {NoApp})]
    /\ UNCHANGED <<appCache, proxyCache, proxies, req, faults>>

\* The process stops and starts again.
Restart ==
    /\ Fault
    /\ appCache' = [a \in Apps |-> Nil]
    /\ proxyCache' = EmptyCache /\ proxies' = [i \in ProxyIds |-> Nil]
    /\ req' = [r \in Requests |-> NoRequest]
    /\ UNCHANGED <<apps, seen, changes>>

Step(r) ==
    \/ getApplication(r) \/ addApplication(r)
    \/ getOrCreateCacheEntry(r) \/ createCacheEntry(r)
    \/ setModifyResponse(r) \/ forward(r) \/ respond(r)

Next ==
    \/ \E r \in Requests : Step(r) \/ \E call \in Calls : ServeHTTP(r, call)
    \/ \E a \in Apps : expireApplication(a) \/ ChangeApplication(a)
    \/ \E h \in Handlers : \E id \in Identifiers[h] : expireProxy(h, id)
    \/ Restart

\* Requests in progress go on: calls of external systems have a timeout, reads of the
\* cluster are ended by the API server.  Entries of the caches expire.
Spec ==
    /\ Init /\ [][Next]_vars
    /\ \A r \in Requests : WF_vars(Step(r))
    /\ \A a \in Apps : WF_vars(expireApplication(a))
    /\ \A h \in Handlers : \A id \in Identifiers[h] : WF_vars(expireProxy(h, id))

-----------------------------------------------------------------------------
(* Properties                                                              *)

\* The URL called belongs to an API that the Application has registered, at some time
\* and without a second one that matches, under the very names of the path: "The port
\* and URL path define which application API is called"
\* (docs/user/technical-reference/02-20-application-gateway.md).
PathDefinesApi ==
    \A r \in Requests : At(r, "send") =>
        \E content \in seen[req[r].id[1]] : \E e \in content :
            /\ Matches(content, req[r].id) = {e}
            /\ called(r) = [origin |-> e.target.origin,
                            path |-> joinPaths(e.target.path, req[r].path)]

\* The location lies beneath the target: on the same origin, with all the segments of the
\* target and, if the target has a trailing slash, more of them.  It has no trailing slash
\* itself, which the gateway would drop.
Beneath(loc, target) ==
    LET slash == target.path # <<>> /\ Last(target.path) = <<>>
    IN  /\ loc.origin = target.origin /\ loc.origin.scheme \in {"http", "https"}
        /\ loc.path # <<>> => Last(loc.path) # <<>>
        /\ IsPrefix(IF slash THEN Front(target.path) ELSE target.path, loc.path)
        /\ Len(loc.path) >= Len(target.path)

\* The path, requested from the gateway, leads by the same names to the location, through
\* the reverse proxy that has answered this request.
LeadsTo(r, path) ==
    LET h == req[r].handler
        t == proxies[req[r].proxy].target
    IN  /\ Extractable(h, path) /\ apiIdentifier(h, path) = req[r].id
        /\ req[r].loc = [origin |-> t.origin, path |-> joinPaths(t.path, targetAPIPath(h, path))]

\* The API has had two targets.
Moved(id) ==
    \E c, d \in seen[id[1]] : \E e \in c, f \in d :
        Matches(c, id) = {e} /\ Matches(d, id) = {f} /\ e.target # f.target

\* A redirect beneath the target that was called is rewritten, to a path of the gateway that
\* leads to the location the external system named, whoever has set ModifyResponse last.
\* Only when the API has moved may a cached proxy, which calls the old target, judge its
\* answers by the new one (proxy.go:78); RoutesSettle says that this ends.
RedirectsComeBack ==
    \A r \in Requests :
        LET p == proxies[req[r].proxy]
        IN  /\ At(r, "respond") /\ Beneath(req[r].loc, p.target)
            /\ ~Moved(req[r].id) \/ p.modify.target = p.target
            => rewritten(r) # Nil /\ LeadsTo(r, rewritten(r))

\* Every location that is rewritten is reached by the path that replaces it: what lies
\* outside of the target is left unmodified (reverseproxy_test.go, "Changed Subpath").
RewrittenMeansBeneath ==
    \A r \in Requests : At(r, "respond") /\ rewritten(r) # Nil => LeadsTo(r, rewritten(r))

\* The request reaches the API that is registered now, and its redirects are judged by
\* the target that was called.
UpToDate(r) ==
    /\ At(r, "send") => Current(req[r].proxy, req[r].id)
    /\ At(r, "respond") =>
         proxies[req[r].proxy].modify.target = proxies[req[r].proxy].target

\* Once the Applications rest, the two caches, which expire one after the other and fill
\* each other with what is outdated (repository.go:174, cache.go:67), catch up.
RoutesSettle == <>[](\A r \in Requests : UpToDate(r))
=============================================================================
