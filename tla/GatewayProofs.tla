--------------------------- MODULE GatewayProofs ---------------------------
(***************************************************************************)
(* Proofs about Gateway, from the inductive invariants of GatewayInv.      *)
(*                                                                         *)
(* Routing: OwnInv says that what a request has belongs to its API and to  *)
(* its proxy, and CacheInv that what a cache holds belongs to everyone who *)
(* finds it under his key, which needs that the keys tell APIs and clients *)
(* apart (KeysTellApart, a hypothesis of the theorem).  Each step gives a  *)
(* request something of its own or something of a cache.                   *)
(*                                                                         *)
(* Refused tokens: a request that is repeated has dropped its token from   *)
(* the cache, and it may only come back through another request.  The      *)
(* argument is that a token enters a cache once, right after it was        *)
(* issued: while it is pending no cache and no other request has it        *)
(* (PendingInv), so none can have been refused with it, and what enters a  *)
(* cache differs from everything that was refused (RefusedInv).  What a    *)
(* request takes from the caches is then new to it (RenewedInv).           *)
(*                                                                         *)
(* A step of a request changes this request alone (Moves).  The lemmas     *)
(* called Effect say what each step does to it, so that the others need    *)
(* not look at records.                                                    *)
(***************************************************************************)
EXTENDS GatewayInv, TLAPS

USE DEF worldVars, cacheVars, NoFault, At

\* y agrees with x on the API and its proxy, on the tokens, on the first attempt.
SameTarget(x, y) == y.api = x.api /\ y.serviceAPI = x.serviceAPI /\ y.entry = x.entry

SameTokens(x, y) == y.tok = x.tok /\ y.ctok = x.ctok /\ y.csrf = x.csrf

SameFirst(x, y) ==
    y.first = x.first /\ y.firstCsrf = x.firstCsrf /\ (y.retried <=> x.retried)

\* y is x at another step.
Keeps(x, y) == SameTarget(x, y) /\ SameTokens(x, y) /\ SameFirst(x, y) /\ y.for = x.for

\* A request that has no proxy and no tokens yet.
NoTokens(x) ==
    /\ x.entry = Nil /\ x.for = "api" /\ x.tok = Nil /\ x.ctok = Nil /\ x.csrf = Nil
    /\ x.first = Nil /\ x.firstCsrf = Nil /\ x.retried = FALSE

Idle(x) == x.pc = "idle" /\ x.serviceAPI = Nil /\ NoTokens(x)

\* Only the request r changes.
Moves(r) ==
    /\ req' \in [Requests -> RequestType] /\ req'[r] \in RequestType
    /\ \A q \in Requests \ {r} : req'[q] = req[q]

\* A request is set to y.
LEMMA SetMoves ==
  ASSUME RequestsOK, NEW r \in Requests, NEW y \in RequestType, Set(r, y)
  PROVE  Moves(r) /\ req'[r] = y
  BY DEF RequestsOK, Set, Moves

\* The request that is not there.
LEMMA NoRequestFacts == NoRequest \in RequestType /\ Idle(NoRequest)
<1>1. (CHOOSE a \in Apis : TRUE) \in Apis
  BY ApisAssumption
<1> QED
  BY <1>1 DEF NoRequest, RequestType, Pcs, Idle, NoTokens

\* An answered request is forgotten.
LEMMA AnswerEffect ==
  ASSUME RequestsOK, NEW r \in Requests, Answer(r)
  PROVE  Moves(r) /\ Idle(req'[r])
  BY NoRequestFacts DEF RequestsOK, Answer, Moves

\* What is not set is none of the values.
LEMMA NilFacts ==
  /\ Nil \notin OAuthTokens /\ Nil \notin CsrfTokens /\ Nil \notin Tokens
  /\ Nil \notin StoredCreds /\ Nil \notin ServiceAPIs /\ Nil \notin CacheEntries
  /\ Nil \notin AllCreds /\ Nil # Custom
  /\ Custom \notin OAuthTokens /\ Custom \notin StoredCreds
  BY ValuesAssumption DEF Bearers, Tokens, CacheEntries

\* Credentials are no token.
LEMMA CredentialsAreNoToken ==
  ASSUME NEW t \in StoredCreds
  PROVE  t \notin Tokens /\ t \notin OAuthTokens
  BY DEF StoredCreds, Tokens, OAuthTokens, CsrfTokens

\* A new token is one of those that could be issued, and no one has it.
LEMMA FreshFacts ==
  ASSUME NEW tokens, FreshTokens(tokens) # {}
  PROVE  Fresh(tokens) \in tokens /\ Fresh(tokens) \notin InUse
  BY DEF Fresh, FreshTokens

\* Nor is the caller's token one that was issued here.
LEMMA CustomIsNoToken == Custom \notin Tokens
  BY ValuesAssumption DEF Bearers, Tokens

\* No cache and no request has a token that is not in use.
LEMMA NoOneHas ==
  ASSUME NEW t \in Tokens \ InUse
  PROVE  /\ \A k \in TokenKeys : tokenCache[k] # t
         /\ \A e \in Endpoints : csrfCache[e] # t
         /\ \A r \in Requests : ~Holds(req[r], t)
  BY DEF InUse, Held, Holds

\* The key of an API in the proxy cache.
LEMMA KeyFacts ==
  ASSUME NEW a \in Apis
  PROVE  cacheKey(a) \in CacheKeys
  BY DEF CacheKeys

\* What is read from a store of credentials is what the API may be registered with.
LEMMA ReadFacts ==
  ASSUME NEW a \in Apis, NEW store, Auth[a] # "none" => store[SecretOf[a]] \in CredsOf[SecretOf[a]]
  PROVE  readServiceAPI(a, store) \in ServiceAPIs /\ readServiceAPI(a, store).api = a
<1>1. CredentialsFrom(a, store) \in ApiCreds(a) /\ ApiCreds(a) \subseteq AllCreds
  BY ApisAssumption DEF CredentialsFrom, ApiCreds, AllCreds, Credentials
<1> QED
  BY <1>1 DEF readServiceAPI, ServiceAPIs

-----------------------------------------------------------------------------
(* What the steps do to their request                                      *)

\* A new request.
LEMMA ServeEffect ==
  ASSUME RequestsOK, CachesOK, NEW r \in Requests, NEW a \in Apis, NEW custom \in BOOLEAN,
         ServeHTTP(r, a, custom)
  PROVE  /\ Moves(r) /\ req'[r].api = a /\ NoTokens(req'[r])
         /\ \/ req'[r].pc = "secret" /\ req'[r].serviceAPI = Nil /\ Auth[a] # "none"
            \/ req'[r].pc = "lookup" /\ req'[r].serviceAPI # Nil /\ req'[r].serviceAPI.api = a
<1> DEFINE new == [NoRequest EXCEPT !.api = a, !.custom = custom, !.header = custom]
           cached == CredentialsFrom(a, secretCache)
           read == readServiceAPI(a, secretCache)
           found == [new EXCEPT !.pc = "lookup", !.serviceAPI = read]
           notFound == [new EXCEPT !.pc = "secret"]
<1>1. new \in RequestType /\ new.api = a /\ NoTokens(new) /\ new.serviceAPI = Nil
  BY NoRequestFacts DEF RequestType, NoTokens, Idle
<1>2. Set(r, IF cached # Nil THEN found ELSE notFound)
  BY DEF ServeHTTP
<1> HIDE DEF new
<1>3. CASE cached = Nil
  <2>0. Auth[a] # "none"
    BY <1>3, NilFacts DEF CredentialsFrom, AllCreds
  <2>1. /\ notFound \in RequestType /\ notFound.api = a /\ notFound.pc = "secret"
        /\ NoTokens(notFound) /\ notFound.serviceAPI = Nil
    BY <1>1 DEF RequestType, NoTokens, Pcs
  <2> HIDE DEF notFound
  <2> QED
    BY <1>2, <1>3, <2>0, <2>1, SetMoves
<1>4. CASE cached # Nil
  <2>0. Auth[a] # "none" => secretCache[SecretOf[a]] \in CredsOf[SecretOf[a]]
    BY <1>4, ApisAssumption DEF CachesOK, CredentialsFrom
  <2>1. read \in ServiceAPIs /\ read.api = a
    BY <2>0, ReadFacts
  <2> HIDE DEF read
  <2>2. /\ found \in RequestType /\ found.api = a /\ found.pc = "lookup"
        /\ NoTokens(found) /\ found.serviceAPI = read
    BY <1>1, <2>1 DEF RequestType, NoTokens, Pcs
  <2> HIDE DEF found
  <2> QED
    BY <1>2, <1>4, <2>1, <2>2, SetMoves, NilFacts
<1> QED
  BY <1>3, <1>4

\* The credentials are read from the cluster, or the request fails.
LEMMA GetSecretEffect ==
  ASSUME RequestsOK, WorldOK, NEW r \in Requests, getSecret(r)
  PROVE  /\ Moves(r)
         /\ \/ Idle(req'[r])
            \/ /\ req'[r].pc = "addSecret" /\ req'[r].api = req[r].api
               /\ req'[r].serviceAPI # Nil /\ req'[r].serviceAPI.api = req[r].api
               /\ req'[r].entry = req[r].entry /\ req'[r].for = req[r].for
               /\ SameTokens(req[r], req'[r]) /\ SameFirst(req[r], req'[r])
<1> DEFINE read == readServiceAPI(req[r].api, secret)
           y == [req[r] EXCEPT !.pc = "addSecret", !.serviceAPI = read]
<1>1. req[r] \in RequestType /\ req[r].api \in Apis
  BY DEF RequestsOK, RequestType
<1>2. read \in ServiceAPIs /\ read.api = req[r].api
  BY <1>1, ReadFacts, ApisAssumption DEF WorldOK
<1>3. Set(r, y) \/ Answer(r)
  BY DEF getSecret, handleErrors
<1> HIDE DEF read
<1>4. "addSecret" \in Pcs
  BY DEF Pcs
<1>5. /\ y \in RequestType /\ y.pc = "addSecret" /\ y.api = req[r].api /\ y.serviceAPI = read
      /\ y.entry = req[r].entry /\ y.for = req[r].for
      /\ SameTokens(req[r], y) /\ SameFirst(req[r], y)
  BY <1>1, <1>2, <1>4 DEF RequestType, SameTokens, SameFirst
<1> HIDE DEF y
<1> QED
  BY <1>2, <1>3, <1>5, SetMoves, AnswerEffect, NilFacts

\* A step that does nothing but go on to the next.
LEMMA GoOn ==
  ASSUME RequestsOK, NEW r \in Requests, NEW step \in Pcs, Set(r, [req[r] EXCEPT !.pc = step])
  PROVE  Moves(r) /\ req'[r].pc = step /\ Keeps(req[r], req'[r])
<1> DEFINE y == [req[r] EXCEPT !.pc = step]
<1>1. y \in RequestType /\ y.pc = step /\ Keeps(req[r], y)
  BY DEF RequestsOK, RequestType, Keeps, SameTarget, SameTokens, SameFirst
<1> HIDE DEF y
<1> QED
  BY <1>1, SetMoves DEF y

\* A request gets its proxy.
GetsEntry(r, entry) ==
    /\ Moves(r) /\ req'[r].pc = "authorize" /\ req'[r].api = req[r].api
    /\ req'[r].entry = entry /\ req'[r].serviceAPI = Nil /\ req'[r].for = req[r].for
    /\ SameTokens(req[r], req'[r]) /\ SameFirst(req[r], req'[r])

\* The step to a proxy that is there.
LEMMA GotEntry ==
  ASSUME RequestsOK, NEW r \in Requests, NEW entry \in CacheEntries,
         Set(r, [req[r] EXCEPT !.pc = "authorize", !.entry = entry, !.serviceAPI = Nil])
  PROVE  GetsEntry(r, entry)
<1> DEFINE y == [req[r] EXCEPT !.pc = "authorize", !.entry = entry, !.serviceAPI = Nil]
<1>1. req[r] \in RequestType /\ "authorize" \in Pcs
  BY DEF RequestsOK, Pcs
<1>2. y \in RequestType
  BY <1>1 DEF RequestType
<1>3. /\ y.pc = "authorize" /\ y.api = req[r].api
      /\ y.entry = entry /\ y.serviceAPI = Nil /\ y.for = req[r].for
      /\ SameTokens(req[r], y) /\ SameFirst(req[r], y)
  BY <1>1 DEF RequestType, SameTokens, SameFirst
<1> HIDE DEF y
<1> QED
  BY <1>2, <1>3, SetMoves DEF y, GetsEntry

\* A request carries something from now on.
Carries(r, bearer, step) ==
    /\ Moves(r) /\ req'[r].pc = step /\ req'[r].for = req[r].for /\ req'[r].csrf = req[r].csrf
    /\ SameTarget(req[r], req'[r]) /\ SameFirst(req[r], req'[r])
    /\ IF req[r].for = "api" THEN req'[r].tok = bearer /\ req'[r].ctok = req[r].ctok
       ELSE req'[r].tok = req[r].tok /\ req'[r].ctok = bearer

\* The step of an authorisation.
LEMMA CarryEffect ==
  ASSUME RequestsOK, NEW r \in Requests, NEW bearer \in Bearers, NEW step \in Pcs,
         Carry(r, bearer, step)
  PROVE  Carries(r, bearer, step)
<1> DEFINE y == [req[r] EXCEPT !.tok = bearer, !.pc = step]
           z == [req[r] EXCEPT !.ctok = bearer, !.pc = step]
<1>1. CASE req[r].for = "api"
  <2>1. Set(r, y)
    BY <1>1 DEF Carry
  <2>2. /\ y \in RequestType /\ y.pc = step /\ y.for = req[r].for /\ y.csrf = req[r].csrf
        /\ SameTarget(req[r], y) /\ SameFirst(req[r], y)
        /\ y.tok = bearer /\ y.ctok = req[r].ctok
    BY DEF RequestsOK, RequestType, SameTarget, SameFirst
  <2> HIDE DEF y
  <2> QED
    BY <1>1, <2>1, <2>2, SetMoves DEF Carries
<1>2. CASE req[r].for # "api"
  <2>1. Set(r, z)
    BY <1>2 DEF Carry
  <2>2. /\ z \in RequestType /\ z.pc = step /\ z.for = req[r].for /\ z.csrf = req[r].csrf
        /\ SameTarget(req[r], z) /\ SameFirst(req[r], z)
        /\ z.tok = req[r].tok /\ z.ctok = bearer
    BY DEF RequestsOK, RequestType, SameTarget, SameFirst
  <2> HIDE DEF z
  <2> QED
    BY <1>2, <2>1, <2>2, SetMoves DEF Carries
<1> QED
  BY <1>1, <1>2

\* The caller's token.
LEMMA CustomEffect ==
  ASSUME RequestsOK, NEW r \in Requests, addCustomToken(r)
  PROVE  Carries(r, Custom, Authorized(r)) /\ req[r].for = "api"
<1> DEFINE step == Authorized(r)
           y == [req[r] EXCEPT !.tok = Custom, !.header = FALSE, !.pc = step]
<1>1. step \in Pcs
  BY DEF Authorized, Pcs
<1>2. Set(r, y) /\ req[r].for = "api"
  BY DEF addCustomToken
<1> HIDE DEF step
<1>3. /\ y \in RequestType /\ y.pc = step /\ y.for = req[r].for /\ y.csrf = req[r].csrf
      /\ SameTarget(req[r], y) /\ SameFirst(req[r], y)
      /\ y.tok = Custom /\ y.ctok = req[r].ctok
  BY <1>1 DEF RequestsOK, RequestType, SameTarget, SameFirst
<1> HIDE DEF y
<1>4. Carries(r, Custom, step)
  BY <1>2, <1>3, SetMoves DEF Carries
<1> QED
  BY <1>2, <1>4 DEF step

\* The fields of a request.
LEMMA RequestFields ==
  ASSUME RequestsOK, NEW r \in Requests
  PROVE  /\ req[r] \in RequestType /\ req[r].pc \in Pcs /\ req[r].api \in Apis
         /\ req[r].serviceAPI \in ServiceAPIs \cup {Nil} /\ req[r].entry \in CacheEntries \cup {Nil}
         /\ req[r].for \in {"api", "csrf"} /\ req[r].tok \in Bearers \cup {Nil, Custom}
         /\ req[r].ctok \in Bearers \cup {Nil} /\ req[r].csrf \in CsrfTokens \cup {Nil}
         /\ req[r].firstCsrf \in CsrfTokens \cup {Nil}
  BY DEF RequestsOK, RequestType

\* A proxy is found in the cache, or is to be created.
LEMMA LookupEffect ==
  ASSUME RequestsOK, CachesOK, NEW r \in Requests, getOrCreateCacheEntry(r)
  PROVE  LET found == proxyCache[cacheKey(req[r].api)]
         IN  \/ found \in CacheEntries /\ GetsEntry(r, found)
             \/ Moves(r) /\ req'[r].pc = "create" /\ Keeps(req[r], req'[r])
<1> DEFINE found == proxyCache[cacheKey(req[r].api)]
<1>1. found \in CacheEntries \cup {Nil}
  BY RequestFields, KeyFacts DEF CachesOK
<1>2. CASE found # Nil
  BY <1>1, <1>2, GotEntry DEF getOrCreateCacheEntry
<1>3. CASE found = Nil
  <2>1. "create" \in Pcs
    BY DEF Pcs
  <2> QED
    BY <1>3, <2>1, GoOn DEF getOrCreateCacheEntry
<1> QED
  BY <1>2, <1>3

\* A proxy keeps the API and its credentials.
LEMMA NewEntry ==
  ASSUME NEW x \in ServiceAPIs
  PROVE  newCacheEntry(x) \in CacheEntries /\ newCacheEntry(x).api = x.api
<1>1. newCacheEntry(x) \in [api : Apis, cred : AllCreds]
  BY DEF newCacheEntry, ServiceAPIs
<1> QED
  BY <1>1 DEF newCacheEntry, CacheEntries, ServiceAPIs

\* A new proxy is for the API that was read.
LEMMA CreateEffect ==
  ASSUME RequestsOK, NEW r \in Requests, req[r].serviceAPI # Nil, createCacheEntry(r)
  PROVE  LET entry == newCacheEntry(req[r].serviceAPI)
         IN  /\ entry \in CacheEntries /\ entry.api = req[r].serviceAPI.api
             /\ GetsEntry(r, entry)
             /\ proxyCache' = [proxyCache EXCEPT ![cacheKey(req[r].api)] = entry]
<1> DEFINE entry == newCacheEntry(req[r].serviceAPI)
<1>1. entry \in CacheEntries /\ entry.api = req[r].serviceAPI.api
  BY RequestFields, NewEntry
<1> HIDE DEF entry
<1>2. GetsEntry(r, entry)
  BY <1>1, GotEntry DEF createCacheEntry, entry
<1> QED
  BY <1>1, <1>2 DEF createCacheEntry, entry

\* The steps that may follow an authorisation.
LEMMA AuthorizedStep ==
  ASSUME NEW r \in Requests
  PROVE  /\ Authorized(r) \in Pcs /\ Authorized(r) \in {"csrfRequest", "invalidateCsrf", "csrf"}
         /\ Authorized(r) = "csrfRequest" <=> req[r].for = "csrf"
         /\ Authorized(r) = "csrf" => ~req[r].retried
  BY DEF Authorized, Pcs

\* Stored credentials.
LEMMA CredentialsEffect ==
  ASSUME RequestsOK, NEW r \in Requests, req[r].entry # Nil, addCredentials(r)
  PROVE  \E bearer \in StoredCreds :
            bearer.cred = req[r].entry.cred /\ Carries(r, bearer, Authorized(r))
<1> DEFINE bearer == [cred |-> req[r].entry.cred]
<1>1. bearer \in StoredCreds /\ bearer.cred = req[r].entry.cred
  BY RequestFields DEF StoredCreds, CacheEntries, ServiceAPIs
<1>2. bearer \in Bearers
  BY <1>1 DEF Bearers
<1>3. Carry(r, bearer, Authorized(r))
  BY DEF addCredentials
<1> HIDE DEF bearer
<1> QED
  BY <1>1, <1>2, <1>3, CarryEffect, AuthorizedStep

\* The key of a proxy's token.
LEMMA TokenKeyFacts ==
  ASSUME NEW entry \in CacheEntries, Auth[entry.api] = "oauth"
  PROVE  entry \in OAuthEntries /\ tokenKey(entry) \in TokenKeys
  BY DEF OAuthEntries, TokenKeys

\* A token is found in the cache, or is to be asked for.
LEMMA GetTokenEffect ==
  ASSUME RequestsOK, CachesOK, NEW r \in Requests, req[r].entry # Nil, GetToken(r)
  PROVE  LET found == tokenCache[tokenKey(req[r].entry)]
         IN  /\ Auth[req[r].entry.api] = "oauth"
             /\ \/ found \in OAuthTokens /\ Carries(r, found, Authorized(r))
                \/ Moves(r) /\ req'[r].pc = "token" /\ Keeps(req[r], req'[r])
<1> DEFINE found == tokenCache[tokenKey(req[r].entry)]
<1>0. Auth[req[r].entry.api] = "oauth"
  BY DEF GetToken
<1>1. found \in OAuthTokens \cup {Nil}
  BY <1>0, RequestFields, TokenKeyFacts DEF CachesOK
<1>2. CASE found # Nil
  <2>1. found \in Bearers
    BY <1>1, <1>2 DEF Bearers
  <2>2. Carry(r, found, Authorized(r))
    BY <1>2 DEF GetToken
  <2> QED
    BY <1>0, <1>1, <1>2, <2>1, <2>2, CarryEffect, AuthorizedStep
<1>3. CASE found = Nil
  <2>1. "token" \in Pcs
    BY DEF Pcs
  <2> QED
    BY <1>0, <1>3, <2>1, GoOn DEF GetToken
<1> QED
  BY <1>2, <1>3

\* The tokens that are issued for a proxy.
LEMMA IssuedFacts ==
  ASSUME NEW entry \in CacheEntries
  PROVE  OAuthTokensFor(entry) \subseteq OAuthTokens
         /\ \A t \in OAuthTokensFor(entry) : Belongs(t, entry)
<1>1. entry.api \in Apis /\ entry.cred \in AllCreds
  BY DEF CacheEntries, ServiceAPIs
<1> QED
  BY <1>1 DEF OAuthTokensFor, OAuthTokens, Belongs

\* The OAuth server issues a new token, or the request fails.
LEMMA RequestTokenEffect ==
  ASSUME RequestsOK, WorldOK, NEW r \in Requests, req[r].entry # Nil, requestToken(r)
  PROVE  /\ dead' \subseteq Tokens
         /\ \/ Moves(r) /\ Idle(req'[r])
            \/ \E t \in OAuthTokens :
                  /\ t \in Tokens \ InUse /\ Belongs(t, req[r].entry)
                  /\ Carries(r, t, "addToken")
<1> DEFINE tokens == OAuthTokensFor(req[r].entry)
           t == Fresh(tokens)
<1>1. CASE Answer(r) /\ UNCHANGED dead
  BY <1>1, AnswerEffect DEF WorldOK
<1>2. CASE FreshTokens(tokens) # {} /\ Issue(t) /\ Carry(r, t, "addToken")
  <2>1. t \in tokens /\ t \notin InUse
    BY <1>2, FreshFacts
  <2>2. req[r].entry \in CacheEntries
    BY RequestFields
  <2>3. t \in OAuthTokens /\ Belongs(t, req[r].entry)
    BY <2>1, <2>2, IssuedFacts
  <2> HIDE DEF t
  <2>4. t \in Bearers /\ t \in Tokens /\ "addToken" \in Pcs
    BY <2>3 DEF Bearers, Tokens, Pcs
  <2>5. dead' \subseteq Tokens
    BY <1>2 DEF Issue, WorldOK
  <2> QED
    BY <1>2, <2>1, <2>3, <2>4, <2>5, CarryEffect
<1> QED
  BY <1>1, <1>2 DEF requestToken, handleErrors

\* A CSRF token is not needed, found in the cache, or to be asked for.
LEMMA AddCSRFEffect ==
  ASSUME RequestsOK, CachesOK, NEW r \in Requests, req[r].entry # Nil, AddCSRFToken(r)
  PROVE  LET e == Endpoint[req[r].entry.api]
         IN  /\ Moves(r) /\ SameTarget(req[r], req'[r]) /\ SameFirst(req[r], req'[r])
             /\ req'[r].tok = req[r].tok /\ req'[r].ctok = req[r].ctok
             /\ \/ /\ req'[r].pc = "send" /\ req'[r].for = req[r].for
                   /\ \/ req'[r].csrf = req[r].csrf
                      \/ /\ hasCSRFToken(req[r].entry.api) /\ e \in Endpoints
                         /\ req'[r].csrf = csrfCache[e] /\ csrfCache[e] \in CsrfTokens
                \/ /\ req'[r].pc = "authorize" /\ req'[r].for = "csrf"
                   /\ req'[r].csrf = req[r].csrf /\ hasCSRFToken(req[r].entry.api)
<1> DEFINE e == Endpoint[req[r].entry.api]
           x == req[r]
           y1 == [x EXCEPT !.pc = "send"]
           y2 == [x EXCEPT !.pc = "send", !.csrf = csrfCache[e]]
           y3 == [x EXCEPT !.pc = "authorize", !.for = "csrf"]
<1>1. x \in RequestType /\ "send" \in Pcs /\ "authorize" \in Pcs
  BY RequestFields DEF Pcs
<1>2. \/ ~hasCSRFToken(x.entry.api) /\ Set(r, y1)
      \/ hasCSRFToken(x.entry.api) /\ csrfCache[e] # Nil /\ Set(r, y2)
      \/ hasCSRFToken(x.entry.api) /\ Set(r, y3)
  BY DEF AddCSRFToken
<1>3. hasCSRFToken(x.entry.api) => e \in Endpoints
  BY RequestFields DEF hasCSRFToken, Endpoints, CacheEntries, ServiceAPIs
<1> HIDE DEF e, x
<1>4. CASE ~hasCSRFToken(x.entry.api) /\ Set(r, y1)
  <2>1. y1 \in RequestType
    BY <1>1 DEF RequestType
  <2>2. y1.pc = "send" /\ Keeps(x, y1)
    BY <1>1 DEF RequestType, Keeps, SameTarget, SameTokens, SameFirst
  <2> HIDE DEF y1
  <2> QED
    BY <1>4, <2>1, <2>2, SetMoves DEF x, Keeps, SameTokens
<1>5. CASE hasCSRFToken(x.entry.api) /\ csrfCache[e] # Nil /\ Set(r, y2)
  <2>1. csrfCache[e] \in CsrfTokens /\ e \in Endpoints
    BY <1>3, <1>5 DEF CachesOK
  <2>2. y2 \in RequestType
    BY <1>1, <2>1 DEF RequestType
  <2>3. /\ y2.pc = "send" /\ SameTarget(x, y2) /\ SameFirst(x, y2) /\ y2.for = x.for
        /\ y2.tok = x.tok /\ y2.ctok = x.ctok /\ y2.csrf = csrfCache[e]
    BY <1>1 DEF RequestType, SameTarget, SameFirst
  <2> HIDE DEF y2
  <2> QED
    BY <1>5, <2>1, <2>2, <2>3, SetMoves DEF x, e
<1>6. CASE hasCSRFToken(x.entry.api) /\ Set(r, y3)
  <2>1. y3 \in RequestType
    BY <1>1 DEF RequestType
  <2>2. /\ y3.pc = "authorize" /\ SameTarget(x, y3) /\ SameFirst(x, y3) /\ y3.for = "csrf"
        /\ y3.tok = x.tok /\ y3.ctok = x.ctok /\ y3.csrf = x.csrf
    BY <1>1 DEF RequestType, SameTarget, SameFirst
  <2> HIDE DEF y3
  <2> QED
    BY <1>6, <2>1, <2>2, SetMoves DEF x
<1> QED
  BY <1>2, <1>4, <1>5, <1>6

\* The external system issues a new CSRF token, or the request fails.
LEMMA RequestCSRFEffect ==
  ASSUME RequestsOK, WorldOK, FlowInv, NEW r \in Requests, requestCSRFToken(r)
  PROVE  /\ dead' \subseteq Tokens
         /\ \/ Moves(r) /\ Idle(req'[r])
            \/ \E t \in CsrfTokens :
                 /\ t \in Tokens \ InUse /\ t.endpoint = Endpoint[req[r].entry.api]
                 /\ Moves(r) /\ req'[r].pc = "addCsrf" /\ req'[r].csrf = t
                 /\ req'[r].ctok = Nil /\ req'[r].for = "api" /\ req'[r].tok = req[r].tok
                 /\ SameTarget(req[r], req'[r]) /\ SameFirst(req[r], req'[r])
<1> DEFINE tokens == CsrfTokensOf(req[r].entry.api)
           t == Fresh(tokens)
           x == req[r]
           y == [x EXCEPT !.pc = "addCsrf", !.csrf = t, !.ctok = Nil, !.for = "api"]
<1>1. CASE Answer(r) /\ UNCHANGED dead
  BY <1>1, AnswerEffect DEF WorldOK
<1>2. CASE FreshTokens(tokens) # {} /\ Issue(t) /\ Set(r, y)
  <2>1. t \in tokens /\ t \notin InUse
    BY <1>2, FreshFacts
  <2>2. x \in RequestType /\ "addCsrf" \in Pcs /\ x.entry \in CacheEntries \cup {Nil}
    BY RequestFields DEF Pcs
  <2>3. x.entry # Nil /\ hasCSRFToken(x.entry.api)
    BY DEF requestCSRFToken, FlowInv, Flow
  <2>4. Endpoint[x.entry.api] \in Endpoints
    BY <2>2, <2>3 DEF hasCSRFToken, Endpoints, CacheEntries, ServiceAPIs
  <2>5. t \in CsrfTokens /\ t.endpoint = Endpoint[x.entry.api]
    BY <2>1, <2>4 DEF CsrfTokensOf, CsrfTokens
  <2> HIDE DEF t, x
  <2>6. y \in RequestType
    BY <2>2, <2>5 DEF RequestType
  <2>7. /\ y.pc = "addCsrf" /\ y.csrf = t /\ y.ctok = Nil /\ y.for = "api" /\ y.tok = x.tok
        /\ SameTarget(x, y) /\ SameFirst(x, y)
    BY <2>2 DEF RequestType, SameTarget, SameFirst
  <2>8. dead' \subseteq Tokens /\ t \in Tokens
    BY <1>2, <2>5 DEF Issue, WorldOK, Tokens
  <2> HIDE DEF y
  <2> QED
    BY <1>2, <2>1, <2>5, <2>6, <2>7, <2>8, SetMoves DEF x
<1> QED
  BY <1>1, <1>2 DEF requestCSRFToken, handleErrors

\* The answer is passed on, or the request is tried once more: it remembers what was
\* refused, and its token is not cached.
LEMMA RoundTripEffect ==
  ASSUME RequestsOK, NEW r \in Requests, RoundTrip(r)
  PROVE  \/ Moves(r) /\ Idle(req'[r]) /\ UNCHANGED tokenCache
         \/ /\ Moves(r) /\ req'[r].pc = "authorize" /\ req'[r].tok = Nil /\ req'[r].csrf = Nil
            /\ req'[r].ctok = req[r].ctok /\ req'[r].retried = TRUE /\ req'[r].for = req[r].for
            /\ req'[r].first = req[r].tok /\ req'[r].firstCsrf = req[r].csrf
            /\ SameTarget(req[r], req'[r])
            /\ tokenCache' = IF Auth[req[r].entry.api] = "oauth"
                             THEN [tokenCache EXCEPT ![tokenKey(req[r].entry)] = Nil]
                             ELSE tokenCache
<1> DEFINE x == req[r]
           y == [x EXCEPT !.pc = "authorize", !.tok = Nil, !.csrf = Nil, !.retried = TRUE,
                          !.first = x.tok, !.firstCsrf = x.csrf]
<1>1. CASE Answer(r) /\ UNCHANGED tokenCache
  BY <1>1, AnswerEffect
<1>2. CASE retry(r)
  <2>1. /\ Set(r, y)
        /\ tokenCache' = IF Auth[req[r].entry.api] = "oauth"
                         THEN [tokenCache EXCEPT ![tokenKey(req[r].entry)] = Nil]
                         ELSE tokenCache
    BY <1>2 DEF retry
  <2>2. x \in RequestType /\ "authorize" \in Pcs
    BY RequestFields DEF Pcs
  <2> HIDE DEF x
  <2>3. y \in RequestType
    BY <2>2 DEF RequestType
  <2>4. /\ y.pc = "authorize" /\ y.tok = Nil /\ y.csrf = Nil /\ y.ctok = x.ctok
        /\ y.retried = TRUE /\ y.for = x.for /\ y.first = x.tok /\ y.firstCsrf = x.csrf
        /\ SameTarget(x, y)
    BY <2>2 DEF RequestType, SameTarget
  <2> HIDE DEF y
  <2> QED
    BY <2>1, <2>3, <2>4, SetMoves DEF x
<1> QED
  BY <1>1, <1>2 DEF RoundTrip

\* The steps that change a cache and go on.
GoesOn(r, step) == Moves(r) /\ req'[r].pc = step /\ Keeps(req[r], req'[r])

\* What they do to their request.
LEMMA GoOnEffect ==
  ASSUME RequestsOK, NEW r \in Requests
  PROVE  /\ addSecret(r) => GoesOn(r, "lookup")
         /\ addToken(r) => GoesOn(r, Authorized(r))
         /\ addCSRFToken(r) => GoesOn(r, "send")
         /\ invalidateCSRF(r) => GoesOn(r, "csrf")
<1>1. "lookup" \in Pcs /\ "send" \in Pcs /\ "csrf" \in Pcs
  BY DEF Pcs
<1>2. ASSUME addSecret(r) PROVE GoesOn(r, "lookup")
  BY <1>1, <1>2, GoOn DEF addSecret, GoesOn
<1>3. ASSUME addToken(r) PROVE GoesOn(r, Authorized(r))
  BY <1>3, GoOn, AuthorizedStep DEF addToken, GoesOn
<1>4. ASSUME addCSRFToken(r) PROVE GoesOn(r, "send")
  BY <1>1, <1>4, GoOn DEF addCSRFToken, GoesOn
<1>5. ASSUME invalidateCSRF(r) PROVE GoesOn(r, "csrf")
  BY <1>1, <1>5, GoOn DEF invalidateCSRF, GoesOn
<1> QED
  BY <1>2, <1>3, <1>4, <1>5

\* A step of a request, its first one included.
RequestStep(r) == Step(r) \/ \E a \in Apis, custom \in BOOLEAN : ServeHTTP(r, a, custom)

\* Steps of others: time passes, credentials change.
WorldStep ==
    \/ Time
    \/ \E s \in Secrets : RotateCredentials(s) \/ UpdateSecret(s)
    \/ \E token \in InUse : TokenDies(token)

\* Where a request takes which step.
LEMMA StepAt ==
  ASSUME NEW r \in Requests
  PROVE  /\ getSecret(r) => req[r].pc = "secret"
         /\ addSecret(r) => req[r].pc = "addSecret"
         /\ getOrCreateCacheEntry(r) => req[r].pc = "lookup"
         /\ createCacheEntry(r) => req[r].pc = "create"
         /\ addCustomToken(r) => req[r].pc = "authorize"
         /\ addCredentials(r) => req[r].pc = "authorize"
         /\ GetToken(r) => req[r].pc = "authorize"
         /\ requestToken(r) => req[r].pc = "token"
         /\ addToken(r) => req[r].pc = "addToken"
         /\ AddCSRFToken(r) => req[r].pc = "csrf"
         /\ requestCSRFToken(r) => req[r].pc = "csrfRequest"
         /\ addCSRFToken(r) => req[r].pc = "addCsrf"
         /\ RoundTrip(r) => req[r].pc = "send"
         /\ invalidateCSRF(r) => req[r].pc = "invalidateCsrf"
<1>1. getSecret(r) => req[r].pc = "secret"
  BY DEF getSecret
<1>2. addSecret(r) => req[r].pc = "addSecret"
  BY DEF addSecret
<1>3. getOrCreateCacheEntry(r) => req[r].pc = "lookup"
  BY DEF getOrCreateCacheEntry
<1>4. createCacheEntry(r) => req[r].pc = "create"
  BY DEF createCacheEntry
<1>5. addCustomToken(r) => req[r].pc = "authorize"
  BY DEF addCustomToken
<1>6. addCredentials(r) => req[r].pc = "authorize"
  BY DEF addCredentials, Stored
<1>7. GetToken(r) => req[r].pc = "authorize"
  BY DEF GetToken, Stored
<1>8. requestToken(r) => req[r].pc = "token"
  BY DEF requestToken
<1>9. addToken(r) => req[r].pc = "addToken"
  BY DEF addToken
<1>10. AddCSRFToken(r) => req[r].pc = "csrf"
  BY DEF AddCSRFToken
<1>11. requestCSRFToken(r) => req[r].pc = "csrfRequest"
  BY DEF requestCSRFToken
<1>12. addCSRFToken(r) => req[r].pc = "addCsrf"
  BY DEF addCSRFToken
<1>13. RoundTrip(r) => req[r].pc = "send"
  BY DEF RoundTrip
<1>14. invalidateCSRF(r) => req[r].pc = "invalidateCsrf"
  BY DEF invalidateCSRF
<1> QED
  BY <1>1, <1>2, <1>3, <1>4, <1>5, <1>6, <1>7, <1>8, <1>9, <1>10, <1>11, <1>12, <1>13,
     <1>14

\* What a request has at a step, from the invariant.
LEMMA FlowFacts ==
  ASSUME FlowInv, NEW r \in Requests
  PROVE  /\ req[r].pc \in {"addSecret", "lookup", "create"} => req[r].serviceAPI # Nil
         /\ req[r].pc \in {"authorize", "token", "addToken", "invalidateCsrf", "csrf",
                           "csrfRequest", "addCsrf", "send"} => req[r].entry # Nil
         /\ req[r].pc = "addToken" =>
               (IF req[r].for = "api" THEN req[r].tok ELSE req[r].ctok) \in OAuthTokens
         /\ req[r].pc \in {"token", "addToken"} => Auth[req[r].entry.api] = "oauth"
         /\ req[r].pc = "addCsrf" => req[r].csrf # Nil /\ hasCSRFToken(req[r].entry.api)
  BY DEF FlowInv, Flow

\* The steps that use the API as registered, and those that use the proxy.
LEMMA EntryFacts ==
  ASSUME FlowInv, NEW r \in Requests
  PROVE  /\ createCacheEntry(r) => req[r].serviceAPI # Nil
         /\ (addCredentials(r) \/ GetToken(r) \/ AddCSRFToken(r) \/ RoundTrip(r)
               \/ requestToken(r) \/ requestCSRFToken(r) \/ addToken(r) \/ addCSRFToken(r)
               \/ addCustomToken(r) \/ invalidateCSRF(r)) => req[r].entry # Nil
  BY FlowFacts, StepAt

-----------------------------------------------------------------------------
(* What the steps do to what is known of their request                     *)

\* A step of a request leaves the other requests alone.
LEMMA OnlyOneMoves ==
  ASSUME RequestsOK, WorldOK, CachesOK, FlowInv, NEW r \in Requests, RequestStep(r)
  PROVE  Moves(r)
<1>1. ASSUME NEW a \in Apis, NEW custom \in BOOLEAN, ServeHTTP(r, a, custom)
       PROVE  Moves(r)
  BY <1>1, ServeEffect DEF NoTokens
<1>2. CASE getSecret(r)
  BY <1>2, GetSecretEffect DEF Idle, NoTokens, SameTokens, SameFirst
<1>3. CASE addSecret(r)
  BY <1>3, GoOnEffect DEF GoesOn, Keeps, SameTarget, SameTokens, SameFirst
<1>4. CASE getOrCreateCacheEntry(r)
  BY <1>4, LookupEffect DEF GetsEntry, Keeps, SameTarget, SameTokens, SameFirst
<1>5. CASE createCacheEntry(r)
  BY <1>5, CreateEffect, EntryFacts DEF GetsEntry, SameTokens, SameFirst
<1>6. CASE addCustomToken(r)
  BY <1>6, CustomEffect, AuthorizedStep DEF Carries, SameTarget, SameFirst
<1>7. CASE addCredentials(r)
  BY <1>7, CredentialsEffect, AuthorizedStep, EntryFacts DEF Carries, SameTarget,
     SameFirst
<1>8. CASE GetToken(r)
  BY <1>8, GetTokenEffect, AuthorizedStep, EntryFacts DEF Carries, Keeps, SameTarget,
     SameTokens, SameFirst
<1>9. CASE requestToken(r)
  BY <1>9, RequestTokenEffect, EntryFacts DEF Carries, SameTarget, SameFirst, Idle, NoTokens
<1>10. CASE addToken(r)
  BY <1>10, GoOnEffect, AuthorizedStep DEF GoesOn, Keeps, SameTarget, SameTokens,
     SameFirst
<1>11. CASE AddCSRFToken(r)
  BY <1>11, AddCSRFEffect, EntryFacts DEF SameTarget, SameFirst
<1>12. CASE requestCSRFToken(r)
  BY <1>12, RequestCSRFEffect DEF SameTarget, SameFirst, Idle, NoTokens
<1>13. CASE addCSRFToken(r)
  BY <1>13, GoOnEffect DEF GoesOn, Keeps, SameTarget, SameTokens, SameFirst
<1>14. CASE RoundTrip(r)
  BY <1>14, RoundTripEffect DEF SameTarget, Idle, NoTokens
<1>15. CASE invalidateCSRF(r)
  BY <1>15, GoOnEffect DEF GoesOn, Keeps, SameTarget, SameTokens, SameFirst
<1> QED
  BY <1>1, <1>2, <1>3, <1>4, <1>5, <1>6, <1>7, <1>8, <1>9, <1>10, <1>11, <1>12, <1>13,
     <1>14, <1>15 DEF RequestStep, Step

\* The request has what its next step needs.
LEMMA FlowStep ==
  ASSUME RequestsOK, WorldOK, CachesOK, FlowInv, NEW r \in Requests, RequestStep(r)
  PROVE  Flow(req'[r])
<1>0. Flow(req[r])
  BY DEF FlowInv
<1>00. req[r].for \in {"api", "csrf"}
  BY RequestFields
<1>1. ASSUME NEW a \in Apis, NEW custom \in BOOLEAN, ServeHTTP(r, a, custom)
       PROVE  Flow(req'[r])
  <2> DEFINE x == req'[r]
  <2>1. NoTokens(x)
    BY <1>1, ServeEffect
  <2>2. \/ x.pc = "secret" /\ Auth[x.api] # "none"
        \/ x.pc = "lookup" /\ x.serviceAPI # Nil
    BY <1>1, ServeEffect
  <2> HIDE DEF x
  <2>3. x.entry = Nil /\ x.for = "api" /\ ~x.retried
    BY <2>1 DEF NoTokens
  <2>4. Flow(x)
    BY <2>2, <2>3 DEF Flow
  <2> QED
    BY <2>4 DEF x
<1>2. CASE getSecret(r)
  BY <1>2, GetSecretEffect, StepAt, <1>0, NilFacts DEF Idle, NoTokens, SameTokens,
     SameFirst, Flow
<1>3. CASE addSecret(r)
  BY <1>3, GoOnEffect, StepAt, <1>0, NilFacts DEF GoesOn, Keeps, SameTarget, SameTokens,
     SameFirst, Flow
<1>4. CASE getOrCreateCacheEntry(r)
  BY <1>4, LookupEffect, StepAt, <1>0, NilFacts DEF GetsEntry, Keeps, SameTarget,
     SameTokens, SameFirst, Flow
<1>5. CASE createCacheEntry(r)
  BY <1>5, CreateEffect, EntryFacts, StepAt, <1>0, NilFacts DEF GetsEntry, SameTokens,
     SameFirst, Flow
<1>6. CASE addCustomToken(r)
  BY <1>6, CustomEffect, AuthorizedStep, StepAt, <1>0, NilFacts DEF Carries, SameTarget,
     SameFirst, Flow
<1>7. CASE addCredentials(r)
  <2>1. PICK bearer \in StoredCreds : Carries(r, bearer, Authorized(r))
    BY <1>7, CredentialsEffect, EntryFacts
  <2>2. bearer # Nil
    BY NilFacts
  <2> QED
    BY <1>7, <2>1, <2>2, AuthorizedStep, StepAt, <1>0, <1>00 DEF Carries, SameTarget, Flow
<1>8. CASE GetToken(r)
  <2> DEFINE found == tokenCache[tokenKey(req[r].entry)]
  <2>0. Auth[req[r].entry.api] = "oauth"
    BY <1>8, GetTokenEffect, EntryFacts
  <2>1. CASE found \in OAuthTokens /\ Carries(r, found, Authorized(r))
    <3>1. found # Nil
      BY <2>1, NilFacts
    <3> HIDE DEF found
    <3> QED
      BY <1>8, <2>1, <3>1, AuthorizedStep, StepAt, <1>0, <1>00 DEF Carries, SameTarget, Flow
  <2>2. CASE GoesOn(r, "token")
    BY <1>8, <2>0, <2>2, StepAt, <1>0 DEF GoesOn, Keeps, SameTarget, SameTokens, Flow
  <2> QED
    BY <1>8, <2>1, <2>2, GetTokenEffect, EntryFacts DEF GoesOn
<1>9. CASE requestToken(r)
  <2>1. CASE Idle(req'[r])
    BY <2>1 DEF Idle, NoTokens, Flow
  <2>2. ASSUME NEW t \in OAuthTokens, Carries(r, t, "addToken") PROVE Flow(req'[r])
    <3>1. t # Nil
      BY NilFacts
    <3> QED
      BY <1>9, <2>2, <3>1, StepAt, <1>0, <1>00 DEF Carries, SameTarget, Flow
  <2> QED
    BY <1>9, <2>1, <2>2, RequestTokenEffect, EntryFacts
<1>10. CASE addToken(r)
  <2>1. GoesOn(r, Authorized(r))
    BY <1>10, GoOnEffect
  <2>2. req[r].for = "api" => req[r].tok # Nil
    BY <1>10, StepAt, <1>0, NilFacts DEF Flow
  <2>3. req[r].for = "csrf" => req[r].ctok # Nil /\ req[r].tok # Nil
    BY <1>10, StepAt, <1>0, NilFacts DEF Flow
  <2> QED
    BY <1>10, <2>1, <2>2, <2>3, AuthorizedStep, StepAt, <1>0, <1>00
    DEF GoesOn, Keeps, SameTarget, SameTokens, Flow
<1>11. CASE AddCSRFToken(r)
  BY <1>11, AddCSRFEffect, EntryFacts, StepAt, <1>0, NilFacts DEF SameTarget, SameFirst,
     Flow
<1>12. CASE requestCSRFToken(r)
  <2>1. CASE Idle(req'[r])
    BY <2>1 DEF Idle, NoTokens, Flow
  <2>2. CASE \E t \in CsrfTokens : req'[r].pc = "addCsrf" /\ req'[r].csrf = t /\ req'[r].for = "api"
                             /\ req'[r].tok = req[r].tok /\ SameTarget(req[r], req'[r])
    BY <1>12, <2>2, StepAt, <1>0, <1>00, NilFacts DEF SameTarget, Flow
  <2> QED
    BY <1>12, <2>1, <2>2, RequestCSRFEffect
<1>13. CASE addCSRFToken(r)
  BY <1>13, GoOnEffect, StepAt, <1>0, NilFacts DEF GoesOn, Keeps, SameTarget, SameTokens,
     SameFirst, Flow
<1>14. CASE RoundTrip(r)
  BY <1>14, RoundTripEffect, StepAt, <1>0, NilFacts DEF SameTarget, Idle, NoTokens, Flow
<1>15. CASE invalidateCSRF(r)
  BY <1>15, GoOnEffect, StepAt, <1>0, NilFacts DEF GoesOn, Keeps, SameTarget, SameTokens,
     SameFirst, Flow
<1> QED
  BY <1>1, <1>2, <1>3, <1>4, <1>5, <1>6, <1>7, <1>8, <1>9, <1>10, <1>11, <1>12, <1>13,
     <1>14, <1>15 DEF RequestStep, Step

\* The request does not get what was refused.
LEMMA RenewedStep ==
  ASSUME RequestsOK, WorldOK, CachesOK, FlowInv, RefusedInv, RenewedInv, NEW r \in
         Requests, RequestStep(r)
  PROVE  Renewed(req'[r])
<1>0. Renewed(req[r])
  BY DEF RenewedInv
<1>1. ASSUME NEW a \in Apis, NEW custom \in BOOLEAN, ServeHTTP(r, a, custom)
       PROVE  Renewed(req'[r])
  BY <1>1, ServeEffect, <1>0 DEF NoTokens, Renewed
<1>2. CASE getSecret(r)
  BY <1>2, GetSecretEffect, <1>0 DEF Idle, NoTokens, SameTokens, SameFirst, Renewed
<1>3. CASE addSecret(r)
  BY <1>3, GoOnEffect, <1>0 DEF GoesOn, Keeps, SameTarget, SameTokens, SameFirst, Renewed
<1>4. CASE getOrCreateCacheEntry(r)
  BY <1>4, LookupEffect, <1>0 DEF GetsEntry, Keeps, SameTarget, SameTokens, SameFirst,
     Renewed
<1>5. CASE createCacheEntry(r)
  BY <1>5, CreateEffect, EntryFacts, <1>0 DEF GetsEntry, SameTokens, SameFirst, Renewed
<1>6. CASE addCustomToken(r)
  <2>1. Carries(r, Custom, Authorized(r)) /\ Custom \notin OAuthTokens
    BY <1>6, CustomEffect, NilFacts
  <2> QED
    BY <2>1, <1>0 DEF Carries, SameFirst, Renewed
<1>7. CASE addCredentials(r)
  <2>1. PICK bearer \in StoredCreds : Carries(r, bearer, Authorized(r))
    BY <1>7, CredentialsEffect, EntryFacts
  <2>2. bearer \notin OAuthTokens
    BY CredentialsAreNoToken
  <2> QED
    BY <2>1, <2>2, <1>0 DEF Carries, SameFirst, Renewed
<1>8. CASE GetToken(r)
  <2> DEFINE found == tokenCache[tokenKey(req[r].entry)]
  <2>0. Auth[req[r].entry.api] = "oauth"
    BY <1>8, GetTokenEffect, EntryFacts
  <2>1. CASE found \in OAuthTokens /\ Carries(r, found, Authorized(r))
    <3>1. req[r].retried => found # req[r].first
      BY <2>0, <2>1 DEF RefusedInv, Refused
    <3> HIDE DEF found
    <3> QED
      BY <2>1, <3>1, <1>0 DEF Carries, SameFirst, Renewed
  <2>2. CASE GoesOn(r, "token")
    BY <2>2, <1>0 DEF GoesOn, Keeps, SameTokens, SameFirst, Renewed
  <2> QED
    BY <1>8, <2>1, <2>2, GetTokenEffect, EntryFacts DEF GoesOn
<1>9. CASE requestToken(r)
  <2>1. CASE Idle(req'[r])
    BY <2>1 DEF Idle, NoTokens, Renewed
  <2>2. ASSUME NEW t \in Tokens \ InUse, Carries(r, t, "addToken") PROVE Renewed(req'[r])
    <3>1. t # req[r].first
      BY NoOneHas DEF Holds
    <3> QED
      BY <2>2, <3>1, <1>0 DEF Carries, SameFirst, Renewed
  <2> QED
    BY <1>9, <2>1, <2>2, RequestTokenEffect, EntryFacts
<1>10. CASE addToken(r)
  BY <1>10, GoOnEffect, AuthorizedStep, <1>0 DEF GoesOn, Keeps, SameTarget, SameTokens,
     SameFirst, Renewed
<1>11. CASE AddCSRFToken(r)
  <2>1. req[r].pc = "csrf" /\ req[r].entry # Nil
    BY <1>11, StepAt, EntryFacts
  <2>2. ASSUME req[r].retried, hasCSRFToken(req[r].entry.api),
               csrfCache[Endpoint[req[r].entry.api]] \in CsrfTokens
        PROVE  csrfCache[Endpoint[req[r].entry.api]] # req[r].firstCsrf
    BY <2>1, <2>2, NilFacts DEF RefusedInv, Refused, Invalidated
  <2> QED
    BY <1>11, <2>1, <2>2, <1>0, AddCSRFEffect DEF SameFirst, Renewed
<1>12. CASE requestCSRFToken(r)
  <2>1. CASE Idle(req'[r])
    BY <2>1 DEF Idle, NoTokens, Renewed
  <2>2. ASSUME NEW t \in Tokens \ InUse, req'[r].csrf = t, req'[r].tok = req[r].tok,
               SameFirst(req[r], req'[r])
        PROVE  Renewed(req'[r])
    <3>1. t # req[r].firstCsrf
      BY NoOneHas DEF Holds
    <3> QED
      BY <2>2, <3>1, <1>0 DEF SameFirst, Renewed
  <2> QED
    BY <1>12, <2>1, <2>2, RequestCSRFEffect
<1>13. CASE addCSRFToken(r)
  BY <1>13, GoOnEffect, <1>0 DEF GoesOn, Keeps, SameTarget, SameTokens, SameFirst, Renewed
<1>14. CASE RoundTrip(r)
  BY <1>14, RoundTripEffect, <1>0, NilFacts DEF SameTarget, Idle, NoTokens, Renewed
<1>15. CASE invalidateCSRF(r)
  BY <1>15, GoOnEffect, <1>0 DEF GoesOn, Keeps, SameTarget, SameTokens, SameFirst, Renewed
<1> QED
  BY <1>1, <1>2, <1>3, <1>4, <1>5, <1>6, <1>7, <1>8, <1>9, <1>10, <1>11, <1>12, <1>13,
     <1>14, <1>15 DEF RequestStep, Step

-----------------------------------------------------------------------------
(* What the steps of a request do to the caches                            *)

\* Steps that only read the caches.
LEMMA CachesRead ==
  ASSUME NEW r \in Requests, NEW a, NEW custom
  PROVE  (\/ ServeHTTP(r, a, custom) \/ getSecret(r) \/ getOrCreateCacheEntry(r)
          \/ addCustomToken(r) \/ addCredentials(r) \/ GetToken(r) \/ requestToken(r)
          \/ AddCSRFToken(r) \/ requestCSRFToken(r)) => UNCHANGED cacheVars
<1>1. ServeHTTP(r, a, custom) \/ getSecret(r) \/ getOrCreateCacheEntry(r) => UNCHANGED cacheVars
  BY DEF ServeHTTP, getSecret, getOrCreateCacheEntry
<1>2. addCustomToken(r) \/ addCredentials(r) \/ GetToken(r) => UNCHANGED cacheVars
  BY DEF addCustomToken, addCredentials, GetToken
<1>3. requestToken(r) \/ AddCSRFToken(r) \/ requestCSRFToken(r) => UNCHANGED cacheVars
  BY DEF requestToken, AddCSRFToken, requestCSRFToken
<1> QED
  BY <1>1, <1>2, <1>3

\* The entry of a token, and of a CSRF token.
LEMMA EndpointFacts ==
  ASSUME RequestsOK, NEW r \in Requests, req[r].entry # Nil
  PROVE  /\ req[r].entry \in CacheEntries /\ req[r].entry.api \in Apis
         /\ Auth[req[r].entry.api] = "oauth" =>
               req[r].entry \in OAuthEntries /\ tokenKey(req[r].entry) \in TokenKeys
         /\ hasCSRFToken(req[r].entry.api) => Endpoint[req[r].entry.api] \in Endpoints
<1>1. req[r].entry \in CacheEntries
  BY RequestFields
<1>2. req[r].entry.api \in Apis
  BY <1>1 DEF CacheEntries, ServiceAPIs
<1> QED
  BY <1>1, <1>2, TokenKeyFacts DEF hasCSRFToken, Endpoints

\* What is pending is a token.
LEMMA PendingIsToken ==
  ASSUME RequestsOK, FlowInv, NEW r \in Requests
  PROVE  /\ Pending(req[r]) # Nil => Pending(req[r]) \in Tokens /\ Holds(req[r], Pending(req[r]))
         /\ req[r].pc = "addToken" =>
               /\ Pending(req[r]) \in OAuthTokens
               /\ Pending(req[r]) = IF req[r].for = "api" THEN req[r].tok ELSE req[r].ctok
         /\ req[r].pc = "addCsrf" => Pending(req[r]) \in CsrfTokens /\ Pending(req[r]) = req[r].csrf
<1>1. req[r].pc = "addToken" =>
         (IF req[r].for = "api" THEN req[r].tok ELSE req[r].ctok) \in OAuthTokens
  BY FlowFacts
<1>2. req[r].pc = "addCsrf" => req[r].csrf \in CsrfTokens
  BY FlowFacts, RequestFields
<1> QED
  BY <1>1, <1>2 DEF Pending, Holds, Tokens

\* A token enters a cache when it was pending.
CachesMove(r) ==
    /\ \A k \in TokenKeys : tokenCache'[k] \in {tokenCache[k], Nil, Pending(req[r])}
    /\ \A e \in Endpoints : csrfCache'[e] \in {csrfCache[e], Nil, Pending(req[r])}

\* Other tokens do not enter the caches.
LEMMA CachesMoveStep ==
  ASSUME RequestsOK, WorldOK, CachesOK, FlowInv, NEW r \in Requests, RequestStep(r)
  PROVE  CachesMove(r)
<1>1. ASSUME NEW a \in Apis, NEW custom \in BOOLEAN, ServeHTTP(r, a, custom)
       PROVE  CachesMove(r)
  BY <1>1, CachesRead DEF CachesMove
<1>2. CASE getSecret(r)
  BY <1>2, CachesRead DEF CachesMove
<1>3. CASE addSecret(r)
  BY <1>3 DEF addSecret, CachesMove
<1>4. CASE getOrCreateCacheEntry(r)
  BY <1>4, CachesRead DEF CachesMove
<1>5. CASE createCacheEntry(r)
  BY <1>5 DEF createCacheEntry, CachesMove
<1>6. CASE addCustomToken(r)
  BY <1>6, CachesRead DEF CachesMove
<1>7. CASE addCredentials(r)
  BY <1>7, CachesRead DEF CachesMove
<1>8. CASE GetToken(r)
  BY <1>8, CachesRead DEF CachesMove
<1>9. CASE requestToken(r)
  BY <1>9, CachesRead DEF CachesMove
<1>10. CASE addToken(r)
  <2>1. tokenKey(req[r].entry) \in TokenKeys /\ Pending(req[r]) \in OAuthTokens
    BY <1>10, StepAt, EntryFacts, EndpointFacts, PendingIsToken, FlowFacts
  <2>2. tokenCache' = [tokenCache EXCEPT ![tokenKey(req[r].entry)] = Pending(req[r])]
    BY <1>10, StepAt, PendingIsToken DEF addToken
  <2>3. UNCHANGED <<secretCache, proxyCache, csrfCache>>
    BY <1>10 DEF addToken
  <2> QED
    BY <2>1, <2>2, <2>3 DEF CachesOK, CachesMove
<1>11. CASE AddCSRFToken(r)
  BY <1>11, CachesRead DEF CachesMove
<1>12. CASE requestCSRFToken(r)
  BY <1>12, CachesRead DEF CachesMove
<1>13. CASE addCSRFToken(r)
  <2>1. Endpoint[req[r].entry.api] \in Endpoints /\ Pending(req[r]) \in CsrfTokens
    BY <1>13, StepAt, EntryFacts, EndpointFacts, PendingIsToken, FlowFacts
  <2>2. csrfCache' = [csrfCache EXCEPT ![Endpoint[req[r].entry.api]] = Pending(req[r])]
    BY <1>13, StepAt, PendingIsToken DEF addCSRFToken
  <2>3. UNCHANGED <<secretCache, proxyCache, tokenCache>>
    BY <1>13 DEF addCSRFToken
  <2> QED
    BY <2>1, <2>2, <2>3 DEF CachesOK, CachesMove
<1>14. CASE RoundTrip(r)
  <2>1. Auth[req[r].entry.api] = "oauth" => tokenKey(req[r].entry) \in TokenKeys
    BY <1>14, EntryFacts, EndpointFacts
  <2>2. UNCHANGED <<secretCache, proxyCache, csrfCache>>
    BY <1>14 DEF RoundTrip
  <2>3. \/ UNCHANGED tokenCache
        \/ /\ Auth[req[r].entry.api] = "oauth"
           /\ tokenCache' = [tokenCache EXCEPT ![tokenKey(req[r].entry)] = Nil]
    BY <1>14, RoundTripEffect
  <2> QED
    BY <2>1, <2>2, <2>3 DEF CachesOK, CachesMove
<1>15. CASE invalidateCSRF(r)
  <2>1. hasCSRFToken(req[r].entry.api) => Endpoint[req[r].entry.api] \in Endpoints
    BY <1>15, EntryFacts, EndpointFacts
  <2>2. UNCHANGED <<secretCache, proxyCache, tokenCache>>
    BY <1>15 DEF invalidateCSRF
  <2>3. \/ UNCHANGED csrfCache
        \/ /\ hasCSRFToken(req[r].entry.api)
           /\ csrfCache' = [csrfCache EXCEPT ![Endpoint[req[r].entry.api]] = Nil]
    BY <1>15 DEF invalidateCSRF
  <2> QED
    BY <2>1, <2>2, <2>3 DEF CachesOK, CachesMove
<1> QED
  BY <1>1, <1>2, <1>3, <1>4, <1>5, <1>6, <1>7, <1>8, <1>9, <1>10, <1>11, <1>12, <1>13,
     <1>14, <1>15 DEF RequestStep, Step

\* What enters a cache is of its type.
LEMMA CachesOKStep ==
  ASSUME RequestsOK, WorldOK, CachesOK, FlowInv, NEW r \in Requests, RequestStep(r)
  PROVE  CachesOK'
<1>1. ASSUME NEW a \in Apis, NEW custom \in BOOLEAN, ServeHTTP(r, a, custom)
       PROVE  CachesOK'
  BY <1>1, CachesRead DEF CachesOK
<1>2. CASE getSecret(r)
  BY <1>2, CachesRead DEF CachesOK
<1>3. CASE addSecret(r)
  <2> DEFINE name == SecretOf[req[r].api]
             cred == req[r].serviceAPI.cred
  <2>1. Auth[req[r].api] # "none" /\ req[r].serviceAPI.api = req[r].api
    BY <1>3, StepAt DEF FlowInv, Flow
  <2>2. req[r].serviceAPI \in ServiceAPIs /\ req[r].api \in Apis
    BY <1>3, StepAt, FlowFacts, RequestFields
  <2>3. name \in Secrets /\ cred \in CredsOf[name]
    BY <2>1, <2>2, ApisAssumption DEF ServiceAPIs, ApiCreds
  <2>4. cred \in Credentials
    BY <2>3 DEF Credentials
  <2>5. /\ secretCache' = [secretCache EXCEPT ![name] = IF @ = Nil THEN cred ELSE @]
        /\ UNCHANGED <<proxyCache, tokenCache, csrfCache>>
    BY <1>3 DEF addSecret
  <2> HIDE DEF name, cred
  <2> QED
    BY <2>3, <2>4, <2>5 DEF CachesOK
<1>4. CASE getOrCreateCacheEntry(r)
  BY <1>4, CachesRead DEF CachesOK
<1>5. CASE createCacheEntry(r)
  <2>1. cacheKey(req[r].api) \in CacheKeys /\ newCacheEntry(req[r].serviceAPI) \in CacheEntries
    BY <1>5, EntryFacts, RequestFields, KeyFacts, CreateEffect
  <2>2. proxyCache' = [proxyCache EXCEPT ![cacheKey(req[r].api)] = newCacheEntry(req[r].serviceAPI)]
    BY <1>5, EntryFacts, CreateEffect
  <2>3. UNCHANGED <<secretCache, tokenCache, csrfCache>>
    BY <1>5 DEF createCacheEntry
  <2> QED
    BY <2>1, <2>2, <2>3 DEF CachesOK
<1>6. CASE addCustomToken(r)
  BY <1>6, CachesRead DEF CachesOK
<1>7. CASE addCredentials(r)
  BY <1>7, CachesRead DEF CachesOK
<1>8. CASE GetToken(r)
  BY <1>8, CachesRead DEF CachesOK
<1>9. CASE requestToken(r)
  BY <1>9, CachesRead DEF CachesOK
<1>10. CASE addToken(r)
  <2>1. tokenKey(req[r].entry) \in TokenKeys /\ Pending(req[r]) \in OAuthTokens
    BY <1>10, StepAt, EntryFacts, EndpointFacts, PendingIsToken, FlowFacts
  <2>2. tokenCache' = [tokenCache EXCEPT ![tokenKey(req[r].entry)] = Pending(req[r])]
    BY <1>10, StepAt, PendingIsToken DEF addToken
  <2>3. UNCHANGED <<secretCache, proxyCache, csrfCache>>
    BY <1>10 DEF addToken
  <2> QED
    BY <2>1, <2>2, <2>3 DEF CachesOK
<1>11. CASE AddCSRFToken(r)
  BY <1>11, CachesRead DEF CachesOK
<1>12. CASE requestCSRFToken(r)
  BY <1>12, CachesRead DEF CachesOK
<1>13. CASE addCSRFToken(r)
  <2>1. Endpoint[req[r].entry.api] \in Endpoints /\ Pending(req[r]) \in CsrfTokens
    BY <1>13, StepAt, EntryFacts, EndpointFacts, PendingIsToken, FlowFacts
  <2>2. csrfCache' = [csrfCache EXCEPT ![Endpoint[req[r].entry.api]] = Pending(req[r])]
    BY <1>13, StepAt, PendingIsToken DEF addCSRFToken
  <2>3. UNCHANGED <<secretCache, proxyCache, tokenCache>>
    BY <1>13 DEF addCSRFToken
  <2> QED
    BY <2>1, <2>2, <2>3 DEF CachesOK
<1>14. CASE RoundTrip(r)
  <2>1. Auth[req[r].entry.api] = "oauth" => tokenKey(req[r].entry) \in TokenKeys
    BY <1>14, EntryFacts, EndpointFacts
  <2>2. UNCHANGED <<secretCache, proxyCache, csrfCache>>
    BY <1>14 DEF RoundTrip
  <2>3. \/ UNCHANGED tokenCache
        \/ /\ Auth[req[r].entry.api] = "oauth"
           /\ tokenCache' = [tokenCache EXCEPT ![tokenKey(req[r].entry)] = Nil]
    BY <1>14, RoundTripEffect
  <2> QED
    BY <2>1, <2>2, <2>3 DEF CachesOK
<1>15. CASE invalidateCSRF(r)
  <2>1. hasCSRFToken(req[r].entry.api) => Endpoint[req[r].entry.api] \in Endpoints
    BY <1>15, EntryFacts, EndpointFacts
  <2>2. UNCHANGED <<secretCache, proxyCache, tokenCache>>
    BY <1>15 DEF invalidateCSRF
  <2>3. \/ UNCHANGED csrfCache
        \/ /\ hasCSRFToken(req[r].entry.api)
           /\ csrfCache' = [csrfCache EXCEPT ![Endpoint[req[r].entry.api]] = Nil]
    BY <1>15 DEF invalidateCSRF
  <2> QED
    BY <2>1, <2>2, <2>3 DEF CachesOK
<1> QED
  BY <1>1, <1>2, <1>3, <1>4, <1>5, <1>6, <1>7, <1>8, <1>9, <1>10, <1>11, <1>12, <1>13,
     <1>14, <1>15 DEF RequestStep, Step

-----------------------------------------------------------------------------
(* Refused tokens                                                          *)

\* A token that enters a cache is none that was refused: it was pending.  So y, which is
\* the request q or q at another step, is as safe from its first tokens as q was.
LEMMA StillRefused ==
  ASSUME RequestsOK, FlowInv, PendingInv, RefusedInv, NEW r \in Requests, CachesMove(r),
         NEW q \in Requests, NEW y, y.entry = req[q].entry, SameFirst(req[q], y),
         y.retried /\ Invalidated(y) => Invalidated(req[q])
  PROVE  Refused(y, tokenCache', csrfCache')
<1> DEFINE x == req[q]
           k == tokenKey(x.entry)
           e == Endpoint[x.entry.api]
<1> SUFFICES ASSUME y.retried PROVE Refused(y, tokenCache', csrfCache')
  BY DEF Refused
<1>1. x.retried /\ x.entry # Nil /\ y.entry = x.entry
  BY DEF SameFirst, RefusedInv, Refused
<1>2. y.first = x.first /\ y.firstCsrf = x.firstCsrf
  BY DEF SameFirst
<1>3. Pending(req[r]) # Nil => Pending(req[r]) \notin {x.first, x.firstCsrf}
  BY DEF PendingInv, Holds
<1>4. ASSUME x.first \in OAuthTokens, Auth[x.entry.api] = "oauth"
      PROVE  tokenCache'[k] # x.first
  <2>1. k \in TokenKeys /\ Nil \notin OAuthTokens
    BY <1>1, <1>4, EndpointFacts, NilFacts
  <2>2. tokenCache[k] # x.first
    BY <1>1, <1>4 DEF RefusedInv, Refused
  <2> HIDE DEF k, x
  <2> QED
    BY <1>3, <1>4, <2>1, <2>2 DEF CachesMove
<1>5. ASSUME Invalidated(y), x.firstCsrf # Nil, hasCSRFToken(x.entry.api)
      PROVE  csrfCache'[e] # x.firstCsrf
  <2>1. e \in Endpoints
    BY <1>1, <1>5, EndpointFacts
  <2>2. csrfCache[e] # x.firstCsrf
    BY <1>1, <1>5 DEF RefusedInv, Refused
  <2> HIDE DEF e, x
  <2> QED
    BY <1>3, <1>5, <2>1, <2>2 DEF CachesMove
<1> HIDE DEF x
<1> QED
  BY <1>1, <1>2, <1>4, <1>5 DEF Refused

\* What was refused stays out of the caches of the request.
LEMMA RefusedStep ==
  ASSUME RequestsOK, WorldOK, CachesOK, FlowInv, PendingInv, RefusedInv, NEW r \in
         Requests, RequestStep(r)
  PROVE  Refused(req'[r], tokenCache', csrfCache')
<1>0. CachesMove(r)
  BY CachesMoveStep
<1>00. req[r].retried => req[r].pc \notin {"secret", "addSecret", "lookup", "create"}
  BY DEF FlowInv, Flow
<1>1. ASSUME NEW a \in Apis, NEW custom \in BOOLEAN, ServeHTTP(r, a, custom)
       PROVE  Refused(req'[r], tokenCache', csrfCache')
  BY <1>1, ServeEffect DEF NoTokens, Refused
<1>2. CASE getSecret(r)
  <2>1. CASE Idle(req'[r])
    BY <2>1 DEF Idle, NoTokens, Refused
  <2>2. CASE ~Idle(req'[r])
    <3>1. req'[r].entry = req[r].entry /\ SameFirst(req[r], req'[r])
      BY <1>2, <2>2, GetSecretEffect DEF Idle, NoTokens
    <3>2. req'[r].retried /\ Invalidated(req'[r]) => Invalidated(req[r])
      BY <1>2, <2>2, StepAt, GetSecretEffect DEF Idle, NoTokens, SameFirst, Invalidated, FlowInv, Flow
    <3> QED
      BY <1>0, <3>1, <3>2, StillRefused
  <2> QED
    BY <2>1, <2>2
<1>3. CASE addSecret(r)
  <2>1. req'[r].entry = req[r].entry /\ SameFirst(req[r], req'[r])
    BY <1>3, GoOnEffect DEF GoesOn, Keeps, SameTarget
  <2>2. req'[r].retried /\ Invalidated(req'[r]) => Invalidated(req[r])
    BY <1>3, StepAt, GoOnEffect DEF GoesOn, Keeps, SameTarget, SameFirst, Invalidated
  <2> QED
    BY <1>0, <2>1, <2>2, StillRefused
<1>4. CASE getOrCreateCacheEntry(r)
  <2>1. ~req[r].retried
    BY <1>00, StepAt, <1>4
  <2> QED
    BY <1>4, <2>1, LookupEffect DEF GetsEntry, Keeps, SameFirst, Refused
<1>5. CASE createCacheEntry(r)
  <2>1. ~req[r].retried
    BY <1>00, StepAt, <1>5
  <2> QED
    BY <1>5, <2>1, CreateEffect, EntryFacts DEF GetsEntry, Keeps, SameFirst, Refused
<1>6. CASE addCustomToken(r)
  <2>1. req'[r].entry = req[r].entry /\ SameFirst(req[r], req'[r])
    BY <1>6, CustomEffect, AuthorizedStep DEF Carries, SameTarget
  <2>2. req'[r].retried /\ Invalidated(req'[r]) => Invalidated(req[r])
    BY <1>6, StepAt, CustomEffect, AuthorizedStep DEF Carries, SameTarget, SameFirst, Invalidated
  <2> QED
    BY <1>0, <2>1, <2>2, StillRefused
<1>7. CASE addCredentials(r)
  <2>1. req'[r].entry = req[r].entry /\ SameFirst(req[r], req'[r])
    BY <1>7, CredentialsEffect, AuthorizedStep, EntryFacts DEF Carries, SameTarget
  <2>2. req'[r].retried /\ Invalidated(req'[r]) => Invalidated(req[r])
    BY <1>7, StepAt, CredentialsEffect, AuthorizedStep, EntryFacts DEF Carries, SameTarget, SameFirst, Invalidated
  <2> QED
    BY <1>0, <2>1, <2>2, StillRefused
<1>8. CASE GetToken(r)
  <2>1. req'[r].entry = req[r].entry /\ SameFirst(req[r], req'[r])
    BY <1>8, GetTokenEffect, AuthorizedStep, EntryFacts DEF Carries, Keeps, SameTarget
  <2>2. req'[r].retried /\ Invalidated(req'[r]) => Invalidated(req[r])
    BY <1>8, StepAt, GetTokenEffect, AuthorizedStep, EntryFacts DEF Carries, Keeps, SameTarget, SameFirst, Invalidated
  <2> QED
    BY <1>0, <2>1, <2>2, StillRefused
<1>9. CASE requestToken(r)
  <2>1. CASE Idle(req'[r])
    BY <2>1 DEF Idle, NoTokens, Refused
  <2>2. CASE ~Idle(req'[r])
    <3>1. req'[r].entry = req[r].entry /\ SameFirst(req[r], req'[r])
      BY <1>9, <2>2, RequestTokenEffect, EntryFacts DEF Carries, SameTarget
    <3>2. req'[r].retried /\ Invalidated(req'[r]) => Invalidated(req[r])
      BY <1>9, <2>2, StepAt, RequestTokenEffect, EntryFacts DEF Carries, SameTarget, SameFirst, Invalidated, FlowInv, Flow
    <3> QED
      BY <1>0, <3>1, <3>2, StillRefused
  <2> QED
    BY <2>1, <2>2
<1>10. CASE addToken(r)
  <2>1. req'[r].entry = req[r].entry /\ SameFirst(req[r], req'[r])
    BY <1>10, GoOnEffect, AuthorizedStep DEF GoesOn, Keeps, SameTarget
  <2>2. req'[r].retried /\ Invalidated(req'[r]) => Invalidated(req[r])
    BY <1>10, StepAt, GoOnEffect, AuthorizedStep DEF GoesOn, Keeps, SameTarget, SameFirst, Invalidated
  <2> QED
    BY <1>0, <2>1, <2>2, StillRefused
<1>11. CASE AddCSRFToken(r)
  <2>1. req'[r].entry = req[r].entry /\ SameFirst(req[r], req'[r])
    BY <1>11, AddCSRFEffect, EntryFacts DEF SameTarget
  <2>2. req'[r].retried /\ Invalidated(req'[r]) => Invalidated(req[r])
    BY <1>11, StepAt, AddCSRFEffect, EntryFacts DEF SameTarget, SameFirst, Invalidated
  <2> QED
    BY <1>0, <2>1, <2>2, StillRefused
<1>12. CASE requestCSRFToken(r)
  <2>1. CASE Idle(req'[r])
    BY <2>1 DEF Idle, NoTokens, Refused
  <2>2. CASE ~Idle(req'[r])
    <3>1. req'[r].entry = req[r].entry /\ SameFirst(req[r], req'[r])
      BY <1>12, <2>2, RequestCSRFEffect DEF SameTarget
    <3>2. req'[r].retried /\ Invalidated(req'[r]) => Invalidated(req[r])
      BY <1>12, <2>2, StepAt, RequestCSRFEffect DEF SameTarget, SameFirst, Invalidated, FlowInv, Flow
    <3> QED
      BY <1>0, <3>1, <3>2, StillRefused
  <2> QED
    BY <2>1, <2>2
<1>13. CASE addCSRFToken(r)
  <2>1. req'[r].entry = req[r].entry /\ SameFirst(req[r], req'[r])
    BY <1>13, GoOnEffect DEF GoesOn, Keeps, SameTarget
  <2>2. req'[r].retried /\ Invalidated(req'[r]) => Invalidated(req[r])
    BY <1>13, StepAt, GoOnEffect DEF GoesOn, Keeps, SameTarget, SameFirst, Invalidated
  <2> QED
    BY <1>0, <2>1, <2>2, StillRefused
<1>14. CASE RoundTrip(r)
  <2>1. CASE Idle(req'[r])
    BY <2>1 DEF Idle, NoTokens, Refused
  <2>2. CASE ~Idle(req'[r])
    <3>1. /\ req'[r].entry = req[r].entry /\ req'[r].pc = "authorize" /\ req'[r].for = req[r].for
          /\ Auth[req[r].entry.api] = "oauth" =>
                tokenCache' = [tokenCache EXCEPT ![tokenKey(req[r].entry)] = Nil]
      BY <1>14, <2>2, RoundTripEffect DEF SameTarget
    <3>2. req[r].for = "api"
      BY <1>14, StepAt DEF FlowInv, Flow
    <3>3. /\ req[r].entry # Nil
          /\ Auth[req[r].entry.api] = "oauth" => tokenKey(req[r].entry) \in TokenKeys
      BY <1>14, EntryFacts, EndpointFacts
    <3>4. Auth[req[r].entry.api] = "oauth" => tokenCache'[tokenKey(req[r].entry)] = Nil
      BY <3>1, <3>3 DEF CachesOK
    <3>5. ~Invalidated(req'[r])
      BY <3>1, <3>2 DEF Invalidated
    <3> QED
      BY <3>1, <3>3, <3>4, <3>5, NilFacts DEF Refused
  <2> QED
    BY <2>1, <2>2
<1>15. CASE invalidateCSRF(r)
  <2> DEFINE e == Endpoint[req[r].entry.api]
  <2>1. req'[r].entry = req[r].entry /\ SameFirst(req[r], req'[r])
    BY <1>15, GoOnEffect DEF GoesOn, Keeps, SameTarget
  <2>2. req[r].retried => req[r].entry # Nil /\
          (req[r].first \in OAuthTokens /\ Auth[req[r].entry.api] = "oauth"
              => tokenCache[tokenKey(req[r].entry)] # req[r].first)
    BY DEF RefusedInv, Refused
  <2>3. hasCSRFToken(req[r].entry.api) => csrfCache'[e] = Nil
    BY <1>15, EntryFacts, EndpointFacts DEF invalidateCSRF, CachesOK
  <2>4. UNCHANGED tokenCache
    BY <1>15 DEF invalidateCSRF
  <2> QED
    BY <2>1, <2>2, <2>3, <2>4 DEF SameFirst, Refused
<1> QED
  BY <1>1, <1>2, <1>3, <1>4, <1>5, <1>6, <1>7, <1>8, <1>9, <1>10, <1>11, <1>12, <1>13,
     <1>14, <1>15 DEF RequestStep, Step

-----------------------------------------------------------------------------
(* Pending tokens                                                          *)

\* After the step the request waits to cache nothing, and has what it or a cache had.
TakesKnown(r) ==
    /\ Pending(req'[r]) = Nil
    /\ \A t \in Tokens : Holds(req'[r], t) =>
          \/ Holds(req[r], t)
          \/ \E k \in TokenKeys : tokenCache[k] = t
          \/ \E e \in Endpoints : csrfCache[e] = t

\* Or it has got a new token.
TakesNew(r) ==
    /\ UNCHANGED cacheVars
    /\ \E t \in Tokens \ InUse :
          /\ Pending(req'[r]) = t /\ t \notin {req'[r].first, req'[r].firstCsrf}
          /\ \A u \in Tokens : Holds(req'[r], u) => Holds(req[r], u) \/ u = t

\* What tokens a step gives to its request.
LEMMA TokensTaken ==
  ASSUME RequestsOK, WorldOK, CachesOK, FlowInv, NEW r \in Requests, RequestStep(r)
  PROVE  TakesKnown(r) \/ TakesNew(r)
<1>0. Nil \notin Tokens
  BY NilFacts
<1>1. ASSUME NEW a \in Apis, NEW custom \in BOOLEAN, ServeHTTP(r, a, custom)
       PROVE  TakesKnown(r) \/ TakesNew(r)
  BY <1>1, <1>0, ServeEffect DEF NoTokens, TakesKnown, Pending, Holds
<1>2. CASE getSecret(r)
  BY <1>2, <1>0, GetSecretEffect DEF Idle, NoTokens, SameTokens, SameFirst, TakesKnown,
     Pending, Holds
<1>3. CASE addSecret(r)
  <2>1. GoesOn(r, "lookup")
    BY <1>3, GoOnEffect
  <2> QED
    BY <2>1, <1>0, AuthorizedStep DEF GoesOn, Keeps, SameTokens, SameFirst, TakesKnown, Pending, Holds
<1>4. CASE getOrCreateCacheEntry(r)
  BY <1>4, LookupEffect DEF GetsEntry, Keeps, SameTokens, SameFirst, TakesKnown, Pending,
     Holds
<1>5. CASE createCacheEntry(r)
  BY <1>5, CreateEffect, EntryFacts DEF GetsEntry, SameTokens, SameFirst, TakesKnown,
     Pending, Holds
<1>6. CASE addCustomToken(r)
  <2>1. Carries(r, Custom, Authorized(r)) /\ Custom \notin Tokens
    BY <1>6, CustomEffect, CustomIsNoToken
  <2> QED
    BY <2>1, AuthorizedStep DEF Carries, SameFirst, TakesKnown, Pending, Holds
<1>7. CASE addCredentials(r)
  <2>1. PICK bearer \in StoredCreds : Carries(r, bearer, Authorized(r))
    BY <1>7, CredentialsEffect, EntryFacts
  <2>2. bearer \notin Tokens
    BY CredentialsAreNoToken
  <2> QED
    BY <2>1, <2>2, AuthorizedStep DEF Carries, SameFirst, TakesKnown, Pending, Holds
<1>8. CASE GetToken(r)
  <2> DEFINE found == tokenCache[tokenKey(req[r].entry)]
  <2>0. Auth[req[r].entry.api] = "oauth"
    BY <1>8, GetTokenEffect, EntryFacts
  <2>1. CASE found \in OAuthTokens /\ Carries(r, found, Authorized(r))
    <3>1. \E k \in TokenKeys : tokenCache[k] = found
      BY <1>8, <2>0, EntryFacts, EndpointFacts
    <3> HIDE DEF found
    <3> QED
      BY <2>1, <3>1, AuthorizedStep DEF Carries, SameFirst, TakesKnown, Pending, Holds
  <2>2. CASE GoesOn(r, "token")
    BY <2>2 DEF GoesOn, Keeps, SameTokens, SameFirst, TakesKnown, Pending, Holds
  <2> QED
    BY <1>8, <2>1, <2>2, GetTokenEffect, EntryFacts DEF GoesOn
<1>9. CASE requestToken(r)
  <2>1. CASE Idle(req'[r])
    BY <2>1, <1>0 DEF Idle, NoTokens, TakesKnown, Pending, Holds
  <2>2. ASSUME NEW t \in Tokens \ InUse, Carries(r, t, "addToken") PROVE TakesNew(r)
    <3>1. UNCHANGED cacheVars
      BY <1>9, CachesRead
    <3>2. t \notin {req[r].first, req[r].firstCsrf}
      BY NoOneHas DEF Holds
    <3>3. Pending(req'[r]) = t
      BY <2>2 DEF Carries, Pending
    <3>4. ASSUME NEW u \in Tokens, Holds(req'[r], u) PROVE Holds(req[r], u) \/ u = t
      BY <2>2, <3>4 DEF Carries, SameFirst, Holds
    <3> QED
      BY <2>2, <3>1, <3>2, <3>3, <3>4 DEF Carries, SameFirst, TakesNew
  <2> QED
    BY <1>9, <2>1, <2>2, RequestTokenEffect, EntryFacts
<1>10. CASE addToken(r)
  <2>1. GoesOn(r, Authorized(r))
    BY <1>10, GoOnEffect
  <2> QED
    BY <2>1, <1>0, AuthorizedStep DEF GoesOn, Keeps, SameTokens, SameFirst, TakesKnown, Pending, Holds
<1>11. CASE AddCSRFToken(r)
  <2>1. Pending(req'[r]) = Nil
    BY <1>11, AddCSRFEffect, EntryFacts DEF Pending
  <2>2. ASSUME NEW t \in Tokens, Holds(req'[r], t)
        PROVE  Holds(req[r], t) \/ \E e \in Endpoints : csrfCache[e] = t
    BY <1>11, <2>2, AddCSRFEffect, EntryFacts DEF SameFirst, Holds
  <2> QED
    BY <2>1, <2>2 DEF TakesKnown
<1>12. CASE requestCSRFToken(r)
  <2>1. CASE Idle(req'[r])
    BY <2>1, <1>0 DEF Idle, NoTokens, TakesKnown, Pending, Holds
  <2>2. ASSUME NEW t \in Tokens \ InUse, req'[r].pc = "addCsrf", req'[r].csrf = t,
               req'[r].ctok = Nil, req'[r].tok = req[r].tok, SameFirst(req[r], req'[r])
        PROVE  TakesNew(r)
    <3>1. UNCHANGED cacheVars
      BY <1>12, CachesRead
    <3>2. t \notin {req[r].first, req[r].firstCsrf}
      BY NoOneHas DEF Holds
    <3>3. Pending(req'[r]) = t
      BY <2>2 DEF Pending
    <3>4. ASSUME NEW u \in Tokens, Holds(req'[r], u) PROVE Holds(req[r], u) \/ u = t
      BY <2>2, <3>4, <1>0 DEF SameFirst, Holds
    <3> QED
      BY <2>2, <3>1, <3>2, <3>3, <3>4 DEF SameFirst, TakesNew
  <2> QED
    BY <1>12, <2>1, <2>2, RequestCSRFEffect
<1>13. CASE addCSRFToken(r)
  <2>1. GoesOn(r, "send")
    BY <1>13, GoOnEffect
  <2> QED
    BY <2>1, <1>0, AuthorizedStep DEF GoesOn, Keeps, SameTokens, SameFirst, TakesKnown, Pending, Holds
<1>14. CASE RoundTrip(r)
  <2>1. Pending(req'[r]) = Nil
    BY <1>14, RoundTripEffect DEF Idle, Pending
  <2>2. ASSUME NEW t \in Tokens, Holds(req'[r], t) PROVE Holds(req[r], t)
    BY <1>14, <2>2, <1>0, RoundTripEffect DEF Idle, NoTokens, Holds
  <2> QED
    BY <2>1, <2>2 DEF TakesKnown
<1>15. CASE invalidateCSRF(r)
  <2>1. GoesOn(r, "csrf")
    BY <1>15, GoOnEffect
  <2> QED
    BY <2>1, <1>0, AuthorizedStep DEF GoesOn, Keeps, SameTokens, SameFirst, TakesKnown, Pending, Holds
<1> QED
  BY <1>1, <1>2, <1>3, <1>4, <1>5, <1>6, <1>7, <1>8, <1>9, <1>10, <1>11, <1>12, <1>13,
     <1>14, <1>15 DEF RequestStep, Step

\* So a token that another request is about to cache stays its own.
LEMMA PendingStep ==
  ASSUME RequestsOK, WorldOK, CachesOK, FlowInv, PendingInv, NEW r \in Requests, RequestStep(r)
  PROVE  PendingInv'
<1>1. Moves(r)
  BY OnlyOneMoves
<1>2. ASSUME NEW q \in Requests \ {r}, Pending(req[q]) # Nil
      PROVE  /\ Pending(req[q]) \in Tokens /\ ~Holds(req'[r], Pending(req[q]))
             /\ \A k \in TokenKeys : tokenCache'[k] # Pending(req[q])
             /\ \A e \in Endpoints : csrfCache'[e] # Pending(req[q])
  <2> DEFINE p == Pending(req[q])
  <2>1. p \in Tokens /\ Holds(req[q], p)
    BY <1>2, PendingIsToken
  <2>2. /\ \A k \in TokenKeys : tokenCache[k] # p
        /\ \A e \in Endpoints : csrfCache[e] # p
        /\ \A s \in Requests \ {q} : ~Holds(req[s], p)
    BY <1>2 DEF PendingInv
  <2>3. p # Pending(req[r])
    BY <1>2, <2>2, PendingIsToken
  <2>4. CachesMove(r)
    BY CachesMoveStep
  <2> HIDE DEF p
  <2>5. ~Holds(req'[r], p)
    <3>1. CASE TakesKnown(r)
      BY <2>1, <2>2, <3>1 DEF TakesKnown
    <3>2. CASE TakesNew(r)
      <4>1. PICK t \in Tokens \ InUse :
               \A u \in Tokens : Holds(req'[r], u) => Holds(req[r], u) \/ u = t
        BY <3>2 DEF TakesNew
      <4>2. p # t
        BY <2>1, NoOneHas
      <4> QED
        BY <2>1, <2>2, <4>1, <4>2
    <3> QED
      BY <3>1, <3>2, TokensTaken
  <2>6. p # Nil
    BY <1>2 DEF p
  <2>7. /\ \A k \in TokenKeys : tokenCache'[k] # p
        /\ \A e \in Endpoints : csrfCache'[e] # p
    BY <2>2, <2>3, <2>4, <2>6 DEF CachesMove
  <2> QED
    BY <2>1, <2>5, <2>7 DEF p
<1>3. ASSUME NEW q \in Requests, Pending(req'[q]) # Nil
      PROVE  /\ \A k \in TokenKeys : tokenCache'[k] # Pending(req'[q])
             /\ \A e \in Endpoints : csrfCache'[e] # Pending(req'[q])
             /\ \A s \in Requests \ {q} : ~Holds(req'[s], Pending(req'[q]))
             /\ Pending(req'[q]) \notin {req'[q].first, req'[q].firstCsrf}
  <2>1. CASE q # r
    <3>1. req'[q] = req[q] /\ \A s \in Requests \ {r} : req'[s] = req[s]
      BY <1>1, <2>1 DEF Moves
    <3>2. Pending(req[q]) # Nil
      BY <1>3, <3>1
    <3>3. /\ \A s \in Requests \ {q} : ~Holds(req[s], Pending(req[q]))
          /\ Pending(req[q]) \notin {req[q].first, req[q].firstCsrf}
      BY <3>2 DEF PendingInv
    <3>4. \A s \in Requests \ {q} : ~Holds(req'[s], Pending(req[q]))
      BY <1>2, <2>1, <3>1, <3>2, <3>3
    <3> QED
      BY <1>2, <2>1, <3>1, <3>2, <3>3, <3>4
  <2>2. CASE q = r
    <3>1. TakesNew(r)
      BY <1>3, <2>2, TokensTaken DEF TakesKnown
    <3>2. PICK t \in Tokens \ InUse :
             Pending(req'[r]) = t /\ t \notin {req'[r].first, req'[r].firstCsrf}
      BY <3>1 DEF TakesNew
    <3>3. UNCHANGED cacheVars
      BY <3>1 DEF TakesNew
    <3>4. \A s \in Requests \ {r} : ~Holds(req'[s], t)
      BY <1>1, NoOneHas DEF Moves
    <3> QED
      BY <2>2, <3>2, <3>3, <3>4, NoOneHas
  <2> QED
    BY <2>1, <2>2
<1> QED
  BY <1>3 DEF PendingInv

-----------------------------------------------------------------------------
(* The bounds, and the steps of others                                     *)

\* Steps of a request change nothing outside but the tokens in use.
LEMMA WorldOKStep ==
  ASSUME RequestsOK, WorldOK, FlowInv, NEW r \in Requests, RequestStep(r)
  PROVE  WorldOK'
<1>1. ASSUME NEW a \in Apis, NEW custom \in BOOLEAN, ServeHTTP(r, a, custom)
       PROVE  WorldOK'
  BY <1>1 DEF ServeHTTP, WorldOK
<1>2. CASE getSecret(r)
  BY <1>2 DEF getSecret, WorldOK
<1>3. CASE addSecret(r)
  BY <1>3 DEF addSecret, WorldOK
<1>4. CASE getOrCreateCacheEntry(r)
  BY <1>4 DEF getOrCreateCacheEntry, WorldOK
<1>5. CASE createCacheEntry(r)
  BY <1>5 DEF createCacheEntry, WorldOK
<1>6. CASE addCustomToken(r)
  BY <1>6 DEF addCustomToken, WorldOK
<1>7. CASE addCredentials(r)
  BY <1>7 DEF addCredentials, WorldOK
<1>8. CASE GetToken(r)
  BY <1>8 DEF GetToken, WorldOK
<1>9. CASE requestToken(r)
  BY <1>9, RequestTokenEffect, EntryFacts DEF requestToken, WorldOK
<1>10. CASE addToken(r)
  BY <1>10 DEF addToken, WorldOK
<1>11. CASE AddCSRFToken(r)
  BY <1>11 DEF AddCSRFToken, WorldOK
<1>12. CASE requestCSRFToken(r)
  BY <1>12, RequestCSRFEffect DEF requestCSRFToken, WorldOK
<1>13. CASE addCSRFToken(r)
  BY <1>13 DEF addCSRFToken, WorldOK
<1>14. CASE RoundTrip(r)
  BY <1>14 DEF RoundTrip, WorldOK
<1>15. CASE invalidateCSRF(r)
  BY <1>15 DEF invalidateCSRF, WorldOK
<1> QED
  BY <1>1, <1>2, <1>3, <1>4, <1>5, <1>6, <1>7, <1>8, <1>9, <1>10, <1>11, <1>12, <1>13,
     <1>14, <1>15 DEF RequestStep, Step

\* The bounds hold.
LEMMA BoundsStep ==
  ASSUME BoundsOK, NEW r \in Requests, RequestStep(r)
  PROVE  BoundsOK'
<1>1. ASSUME NEW a \in Apis, NEW custom \in BOOLEAN, ServeHTTP(r, a, custom)
       PROVE  BoundsOK'
  BY <1>1, BoundsAssumption DEF ServeHTTP, BoundsOK
<1>2. CASE getSecret(r)
  BY <1>2, BoundsAssumption DEF getSecret, BoundsOK, Fault
<1>3. CASE addSecret(r)
  BY <1>3, BoundsAssumption DEF addSecret, BoundsOK
<1>4. CASE getOrCreateCacheEntry(r)
  BY <1>4, BoundsAssumption DEF getOrCreateCacheEntry, BoundsOK
<1>5. CASE createCacheEntry(r)
  BY <1>5, BoundsAssumption DEF createCacheEntry, BoundsOK
<1>6. CASE addCustomToken(r)
  BY <1>6, BoundsAssumption DEF addCustomToken, BoundsOK
<1>7. CASE addCredentials(r)
  BY <1>7, BoundsAssumption DEF addCredentials, BoundsOK
<1>8. CASE GetToken(r)
  BY <1>8, BoundsAssumption DEF GetToken, BoundsOK
<1>9. CASE requestToken(r)
  BY <1>9, BoundsAssumption DEF requestToken, BoundsOK, Fault
<1>10. CASE addToken(r)
  BY <1>10, BoundsAssumption DEF addToken, BoundsOK
<1>11. CASE AddCSRFToken(r)
  BY <1>11, BoundsAssumption DEF AddCSRFToken, BoundsOK
<1>12. CASE requestCSRFToken(r)
  BY <1>12, BoundsAssumption DEF requestCSRFToken, BoundsOK, Fault
<1>13. CASE addCSRFToken(r)
  BY <1>13, BoundsAssumption DEF addCSRFToken, BoundsOK
<1>14. CASE RoundTrip(r)
  BY <1>14, BoundsAssumption DEF RoundTrip, BoundsOK, Fault
<1>15. CASE invalidateCSRF(r)
  BY <1>15, BoundsAssumption DEF invalidateCSRF, BoundsOK
<1> QED
  BY <1>1, <1>2, <1>3, <1>4, <1>5, <1>6, <1>7, <1>8, <1>9, <1>10, <1>11, <1>12, <1>13,
     <1>14, <1>15 DEF RequestStep, Step

\* Time and the world take entries out of the caches.
LoseEntries ==
    /\ \A k \in CacheKeys : proxyCache'[k] \in {proxyCache[k], Nil}
    /\ \A k \in TokenKeys : tokenCache'[k] \in {tokenCache[k], Nil}
    /\ UNCHANGED csrfCache

\* What the steps of others do.
LEMMA WorldStepEffect ==
  ASSUME WorldOK, CachesOK, BoundsOK, WorldStep
  PROVE  UNCHANGED req /\ LoseEntries /\ WorldOK' /\ CachesOK' /\ BoundsOK'
<1> DEFINE Goal == UNCHANGED req /\ LoseEntries /\ WorldOK' /\ CachesOK' /\ BoundsOK'
<1>1. ASSUME NEW s \in Secrets, ExpireSecret(s) PROVE Goal
  BY <1>1 DEF ExpireSecret, LoseEntries, WorldOK, CachesOK, BoundsOK
<1>2. ASSUME NEW a \in Apis, ExpireProxy(a) PROVE Goal
  <2>1. cacheKey(a) \in CacheKeys
    BY KeyFacts
  <2> QED
    BY <1>2, <2>1 DEF ExpireProxy, LoseEntries, WorldOK, CachesOK, BoundsOK
<1>3. ASSUME NEW k \in TokenKeys, ExpireToken(k) PROVE Goal
  BY <1>3 DEF ExpireToken, LoseEntries, WorldOK, CachesOK, BoundsOK
<1>4. ASSUME NEW s \in Secrets, RotateCredentials(s) PROVE Goal
  <2>1. PICK c \in CredsOf[s] : accepted' = [accepted EXCEPT ![s] = c]
    BY <1>4 DEF RotateCredentials
  <2>2. c \in Credentials /\ UNCHANGED <<secret, cacheVars, req, faults>>
    BY <1>4 DEF RotateCredentials, Credentials
  <2>3. accepted' \in [Secrets -> Credentials] /\ \A q \in Secrets : accepted'[q] \in CredsOf[q]
    BY <2>1, <2>2 DEF WorldOK
  <2>4. dead' \subseteq Tokens
    BY <1>4 DEF RotateCredentials, WorldOK, InUse
  <2>5. changes' \in 0..MaxChanges
    BY <1>4, BoundsAssumption DEF RotateCredentials, Change, BoundsOK
  <2> QED
    BY <2>2, <2>3, <2>4, <2>5 DEF LoseEntries, WorldOK, CachesOK, BoundsOK
<1>5. ASSUME NEW s \in Secrets, UpdateSecret(s) PROVE Goal
  BY <1>5 DEF UpdateSecret, LoseEntries, WorldOK, CachesOK, BoundsOK
<1>6. ASSUME NEW t \in InUse, TokenDies(t) PROVE Goal
  <2>1. dead' \subseteq Tokens /\ UNCHANGED <<secret, accepted, cacheVars, req, faults>>
    BY <1>6 DEF TokenDies, WorldOK, InUse
  <2>2. changes' \in 0..MaxChanges
    BY <1>6, BoundsAssumption DEF TokenDies, Change, BoundsOK
  <2> QED
    BY <2>1, <2>2 DEF LoseEntries, WorldOK, CachesOK, BoundsOK
<1> QED
  BY <1>1, <1>2, <1>3, <1>4, <1>5, <1>6 DEF WorldStep, Time

\* An entry that is taken out breaks nothing.
LEMMA WorldStepIInv ==
  ASSUME IInv, WorldStep
  PROVE  IInv'
<1> USE DEF IInv, TypeParts
<1>1. UNCHANGED req /\ LoseEntries /\ WorldOK' /\ CachesOK' /\ BoundsOK'
  BY WorldStepEffect
<1>2. RequestsOK' /\ FlowInv' /\ RenewedInv'
  BY <1>1 DEF RequestsOK, FlowInv, RenewedInv
<1>4. PendingInv'
  BY <1>1 DEF PendingInv, LoseEntries
<1>5. ASSUME NEW r \in Requests PROVE Refused(req[r], tokenCache', csrfCache')
  <2>1. Refused(req[r], tokenCache, csrfCache) /\ Nil \notin Tokens /\ UNCHANGED csrfCache
    BY <1>1, NilFacts DEF RefusedInv, LoseEntries
  <2>2. req[r].entry # Nil /\ Auth[req[r].entry.api] = "oauth" => tokenKey(req[r].entry) \in TokenKeys
    BY EndpointFacts
  <2> QED
    BY <1>1, <2>1, <2>2, NilFacts DEF Refused, LoseEntries
<1>6. RefusedInv'
  BY <1>1, <1>5 DEF RefusedInv
<1> QED
  BY <1>1, <1>2, <1>4, <1>6

\* A request that is not there has nothing.
LEMMA IdleFacts ==
  ASSUME NEW x, Idle(x), NEW tokens, NEW csrfTokens
  PROVE  Flow(x) /\ Own(x) /\ Renewed(x) /\ Refused(x, tokens, csrfTokens) /\ Pending(x) = Nil
  BY DEF Idle, NoTokens, Flow, Own, Renewed, Refused, Pending

\* Empty caches and no requests: the start and a restart.
LEMMA EmptyFacts ==
  /\ EmptyCaches.secret \in [Secrets -> Credentials \cup {Nil}]
  /\ EmptyCaches.proxy \in [CacheKeys -> CacheEntries \cup {Nil}]
  /\ EmptyCaches.token \in [TokenKeys -> OAuthTokens \cup {Nil}]
  /\ EmptyCaches.csrf \in [Endpoints -> CsrfTokens \cup {Nil}]
  /\ \A s \in Secrets : EmptyCaches.secret[s] = Nil
  /\ \A k \in CacheKeys : EmptyCaches.proxy[k] = Nil
  /\ \A k \in TokenKeys : EmptyCaches.token[k] = Nil
  /\ \A e \in Endpoints : EmptyCaches.csrf[e] = Nil
  BY DEF EmptyCaches

\* A process that has just started.
Started ==
    /\ secretCache = EmptyCaches.secret
    /\ proxyCache = EmptyCaches.proxy /\ tokenCache = EmptyCaches.token
    /\ csrfCache = EmptyCaches.csrf
    /\ req = [r \in Requests |-> NoRequest]

\* It satisfies the invariants.
LEMMA StartedIInv == Started /\ WorldOK /\ BoundsOK => IInv
<1> SUFFICES ASSUME Started, WorldOK, BoundsOK PROVE IInv
  OBVIOUS
<1>1. CachesOK
  BY EmptyFacts DEF Started, CachesOK
<1>2. RequestsOK /\ \A r \in Requests : req[r] = NoRequest
  BY NoRequestFacts DEF Started, RequestsOK
<1>3. \A r \in Requests : /\ Flow(req[r]) /\ Renewed(req[r])
                          /\ Refused(req[r], tokenCache, csrfCache) /\ Pending(req[r]) = Nil
  BY <1>2, NoRequestFacts, IdleFacts
<1>4. PendingInv
  BY <1>3 DEF PendingInv
<1> QED
  BY <1>1, <1>2, <1>3, <1>4 DEF IInv, TypeParts, FlowInv, RefusedInv, RenewedInv

\* Nothing is there that could belong to another API.
LEMMA StartedRouteInv == Started => RouteInv
<1> SUFFICES ASSUME Started PROVE RouteInv
  OBVIOUS
<1>1. \A r \in Requests : Own(req[r])
  BY NoRequestFacts, IdleFacts DEF Started
<1>2. \A entry \in OAuthEntries : tokenKey(entry) \in TokenKeys
  BY DEF TokenKeys
<1>3. CacheInv
  BY <1>2, EmptyFacts, KeyFacts DEF Started, CacheInv
<1> QED
  BY <1>1, <1>3 DEF RouteInv, OwnInv

\* The start.
LEMMA InitIInv == Init => IInv
<1> SUFFICES ASSUME Init PROVE IInv
  OBVIOUS
<1>1. Started
  BY DEF Init, Started
<1>2. \A s \in Secrets : (CHOOSE c \in CredsOf[s] : TRUE) \in CredsOf[s]
  BY ApisAssumption
<1>3. WorldOK
  BY <1>2 DEF Init, WorldOK, Credentials
<1>4. BoundsOK
  BY BoundsAssumption DEF Init, BoundsOK
<1> QED
  BY <1>1, <1>3, <1>4, StartedIInv

\* A restart.
LEMMA RestartIInv == IInv /\ Restart => IInv'
<1> SUFFICES ASSUME IInv, Restart PROVE IInv'
  OBVIOUS
<1>1. Started'
  BY DEF Restart, Started
<1>2. WorldOK'
  BY DEF Restart, WorldOK, IInv, TypeParts
<1>3. BoundsOK'
  BY BoundsAssumption DEF Restart, Fault, BoundsOK, IInv, TypeParts
<1>4. (Started /\ WorldOK /\ BoundsOK => IInv)'
  BY StartedIInv, PTL
<1> QED
  BY <1>1, <1>2, <1>3, <1>4

\* A step of a request.
LEMMA RequestStepIInv ==
  ASSUME IInv, NEW r \in Requests, RequestStep(r)
  PROVE  IInv'
<1> USE DEF IInv, TypeParts
<1>1. Moves(r) /\ CachesMove(r)
  BY OnlyOneMoves, CachesMoveStep
<1>2. RequestsOK'
  BY <1>1 DEF Moves, RequestsOK
<1>3. WorldOK' /\ CachesOK' /\ BoundsOK'
  BY WorldOKStep, CachesOKStep, BoundsStep
<1>4. FlowInv'
  <2>1. Flow(req'[r])
    BY FlowStep
  <2> QED
    BY <1>1, <2>1 DEF FlowInv, Moves
<1>6. RenewedInv'
  <2>1. Renewed(req'[r])
    BY RenewedStep
  <2> QED
    BY <1>1, <2>1 DEF RenewedInv, Moves
<1>7. PendingInv'
  BY PendingStep
<1>8. RefusedInv'
  <2>1. Refused(req'[r], tokenCache', csrfCache')
    BY RefusedStep
  <2>2. ASSUME NEW q \in Requests \ {r} PROVE Refused(req[q], tokenCache', csrfCache')
    BY <1>1, StillRefused DEF SameFirst
  <2> QED
    BY <1>1, <2>1, <2>2 DEF RefusedInv, Moves
<1> QED
  BY <1>2, <1>3, <1>4, <1>6, <1>7, <1>8

\* Every step keeps the invariant.
LEMMA StepIInv == IInv /\ [Next]_vars => IInv'
<1> SUFFICES ASSUME IInv, [Next]_vars PROVE IInv'
  OBVIOUS
<1>1. ASSUME NEW r \in Requests, RequestStep(r) PROVE IInv'
  BY <1>1, RequestStepIInv
<1>2. CASE WorldStep
  BY <1>2, WorldStepIInv
<1>3. CASE Restart
  BY <1>3, RestartIInv
<1>4. CASE UNCHANGED vars
  <2>1. UNCHANGED <<secret, accepted, dead, secretCache, proxyCache, tokenCache, csrfCache, req,
                    changes, faults>>
    BY <1>4 DEF vars
  <2>2. TypeParts'
    BY <2>1 DEF IInv, TypeParts, WorldOK, CachesOK, RequestsOK, BoundsOK
  <2>3. FlowInv'
    BY <2>1 DEF IInv, FlowInv
  <2>4. PendingInv' /\ RefusedInv' /\ RenewedInv'
    BY <2>1 DEF IInv, PendingInv, RefusedInv, RenewedInv
  <2> QED
    BY <2>2, <2>3, <2>4 DEF IInv
<1> QED
  BY <1>1, <1>2, <1>3, <1>4 DEF Next, RequestStep, WorldStep

-----------------------------------------------------------------------------
(* Routing, if the keys tell apart what they are for                       *)

\* What the request gets belongs to its API and to its proxy.
LEMMA OwnStep ==
  ASSUME RequestsOK, WorldOK, CachesOK, FlowInv, OwnInv, CacheInv, NEW r \in Requests,
         RequestStep(r)
  PROVE  Own(req'[r])
<1>0. Own(req[r])
  BY DEF OwnInv
<1>00. req[r].for \in {"api", "csrf"}
  BY RequestFields
<1>1. ASSUME NEW a \in Apis, NEW custom \in BOOLEAN, ServeHTTP(r, a, custom)
       PROVE  Own(req'[r])
  BY <1>1, ServeEffect DEF NoTokens, Own
<1>2. CASE getSecret(r)
  BY <1>2, GetSecretEffect, <1>0, NilFacts DEF Idle, NoTokens, SameTokens, SameFirst, Own
<1>3. CASE addSecret(r)
  BY <1>3, GoOnEffect, <1>0 DEF GoesOn, Keeps, SameTarget, SameTokens, SameFirst, Own
<1>4. CASE getOrCreateCacheEntry(r)
  <2> DEFINE found == proxyCache[cacheKey(req[r].api)]
  <2>0. req[r].entry = Nil
    BY <1>4, StepAt DEF FlowInv, Flow
  <2>1. found # Nil => found.api = req[r].api
    BY RequestFields DEF CacheInv
  <2>2. found \in CacheEntries => found # Nil
    BY NilFacts
  <2> HIDE DEF found
  <2>3. CASE found \in CacheEntries /\ GetsEntry(r, found)
    BY <2>0, <2>1, <2>2, <2>3, <1>0 DEF GetsEntry, SameTokens, Own
  <2>4. CASE GoesOn(r, "create")
    BY <2>4, <1>0 DEF GoesOn, Keeps, SameTarget, SameTokens, Own
  <2> QED
    BY <1>4, <2>3, <2>4, LookupEffect DEF found, GoesOn
<1>5. CASE createCacheEntry(r)
  <2>0. req[r].entry = Nil
    BY <1>5, StepAt DEF FlowInv, Flow
  <2>1. /\ GetsEntry(r, newCacheEntry(req[r].serviceAPI))
        /\ newCacheEntry(req[r].serviceAPI).api = req[r].api
    BY <1>5, <1>0, CreateEffect, EntryFacts DEF Own
  <2> QED
    BY <2>0, <2>1, <1>0 DEF GetsEntry, SameTokens, Own
<1>6. CASE addCustomToken(r)
  BY <1>6, CustomEffect, EntryFacts, <1>0 DEF Carries, SameTarget, Own
<1>7. CASE addCredentials(r)
  <2>1. PICK bearer \in StoredCreds :
           bearer.cred = req[r].entry.cred /\ Carries(r, bearer, Authorized(r))
    BY <1>7, CredentialsEffect, EntryFacts
  <2>2. Belongs(bearer, req[r].entry) /\ req[r].entry # Nil
    BY <1>7, <2>1, CredentialsAreNoToken, EntryFacts DEF Belongs
  <2> QED
    BY <2>1, <2>2, <1>0, <1>00 DEF Carries, SameTarget, Own
<1>8. CASE GetToken(r)
  <2> DEFINE found == tokenCache[tokenKey(req[r].entry)]
  <2>1. CASE found \in OAuthTokens /\ Carries(r, found, Authorized(r))
    <3>1. req[r].entry # Nil /\ req[r].entry \in OAuthEntries
      BY <1>8, EntryFacts, GetTokenEffect, EndpointFacts
    <3>2. Belongs(found, req[r].entry)
      BY <2>1, <3>1, NilFacts DEF CacheInv
    <3> HIDE DEF found
    <3> QED
      BY <2>1, <3>1, <3>2, <1>0, <1>00 DEF Carries, SameTarget, Own
  <2>2. CASE GoesOn(r, "token")
    BY <2>2, <1>0 DEF GoesOn, Keeps, SameTarget, SameTokens, Own
  <2> QED
    BY <1>8, <2>1, <2>2, GetTokenEffect, EntryFacts DEF GoesOn
<1>9. CASE requestToken(r)
  <2>1. CASE Idle(req'[r])
    BY <2>1 DEF Idle, NoTokens, Own
  <2>2. ASSUME NEW t \in OAuthTokens, Belongs(t, req[r].entry), Carries(r, t, "addToken")
        PROVE  Own(req'[r])
    <3>1. req[r].entry # Nil
      BY <1>9, EntryFacts
    <3> QED
      BY <2>2, <3>1, <1>0, <1>00 DEF Carries, SameTarget, Own
  <2> QED
    BY <1>9, <2>1, <2>2, RequestTokenEffect, EntryFacts
<1>10. CASE addToken(r)
  BY <1>10, GoOnEffect, AuthorizedStep, <1>0 DEF GoesOn, Keeps, SameTarget, SameTokens,
     SameFirst, Own
<1>11. CASE AddCSRFToken(r)
  <2>1. req[r].entry # Nil /\ req[r].entry.api = req[r].api
    BY <1>11, <1>0, EntryFacts DEF Own
  <2>2. ASSUME NEW e \in Endpoints, csrfCache[e] \in CsrfTokens PROVE csrfCache[e].endpoint = e
    BY <2>2, NilFacts DEF CacheInv
  <2> QED
    BY <1>11, <2>1, <2>2, <1>0, AddCSRFEffect DEF SameTarget, Own
<1>12. CASE requestCSRFToken(r)
  <2>1. req[r].entry # Nil /\ req[r].entry.api = req[r].api
    BY <1>12, <1>0, EntryFacts DEF Own
  <2> QED
    BY <1>12, <2>1, <1>0, RequestCSRFEffect DEF SameTarget, Idle, NoTokens, Own
<1>13. CASE addCSRFToken(r)
  BY <1>13, GoOnEffect, <1>0 DEF GoesOn, Keeps, SameTarget, SameTokens, SameFirst, Own
<1>14. CASE RoundTrip(r)
  BY <1>14, RoundTripEffect, <1>0 DEF SameTarget, Idle, NoTokens, Own
<1>15. CASE invalidateCSRF(r)
  BY <1>15, GoOnEffect, <1>0 DEF GoesOn, Keeps, SameTarget, SameTokens, SameFirst, Own
<1> QED
  BY <1>1, <1>2, <1>3, <1>4, <1>5, <1>6, <1>7, <1>8, <1>9, <1>10, <1>11, <1>12, <1>13,
     <1>14, <1>15 DEF RequestStep, Step

\* What enters a cache belongs to everyone who finds it there.
LEMMA CacheStep ==
  ASSUME KeysTellApart, RequestsOK, WorldOK, CachesOK, FlowInv, OwnInv, CacheInv, NEW r \in Requests,
         RequestStep(r)
  PROVE  CacheInv'
<1>1. ASSUME NEW a \in Apis, NEW custom \in BOOLEAN, ServeHTTP(r, a, custom)
       PROVE  CacheInv'
  BY <1>1, CachesRead DEF CacheInv
<1>2. CASE getSecret(r)
  BY <1>2, CachesRead DEF CacheInv
<1>3. CASE addSecret(r)
  BY <1>3 DEF addSecret, CacheInv
<1>4. CASE getOrCreateCacheEntry(r)
  BY <1>4, CachesRead DEF CacheInv
<1>5. CASE createCacheEntry(r)
  <2>1. /\ req[r].api \in Apis /\ cacheKey(req[r].api) \in CacheKeys
        /\ newCacheEntry(req[r].serviceAPI).api = req[r].api
    BY <1>5, EntryFacts, RequestFields, KeyFacts, CreateEffect DEF OwnInv, Own
  <2>2. proxyCache' = [proxyCache EXCEPT ![cacheKey(req[r].api)] = newCacheEntry(req[r].serviceAPI)]
    BY <1>5, EntryFacts, CreateEffect
  <2>3. UNCHANGED <<tokenCache, csrfCache>>
    BY <1>5 DEF createCacheEntry
  <2>4. ASSUME NEW a \in Apis, proxyCache'[cacheKey(a)] # Nil
        PROVE  proxyCache'[cacheKey(a)].api = a
    <3>1. cacheKey(a) \in CacheKeys /\ (cacheKey(a) = cacheKey(req[r].api) => a = req[r].api)
      BY <2>1, KeyFacts DEF KeysTellApart
    <3>2. CASE cacheKey(a) = cacheKey(req[r].api)
      BY <2>1, <2>2, <3>1, <3>2 DEF CachesOK
    <3>3. CASE cacheKey(a) # cacheKey(req[r].api)
      BY <2>2, <2>4, <3>1, <3>3 DEF CachesOK, CacheInv
    <3> QED
      BY <3>2, <3>3
  <2> QED
    BY <2>3, <2>4 DEF CacheInv
<1>6. CASE addCustomToken(r)
  BY <1>6, CachesRead DEF CacheInv
<1>7. CASE addCredentials(r)
  BY <1>7, CachesRead DEF CacheInv
<1>8. CASE GetToken(r)
  BY <1>8, CachesRead DEF CacheInv
<1>9. CASE requestToken(r)
  BY <1>9, CachesRead DEF CacheInv
<1>10. CASE addToken(r)
  <2> DEFINE d == req[r].entry
             t == Pending(req[r])
  <2>1. d \in OAuthEntries /\ tokenKey(d) \in TokenKeys /\ t \in OAuthTokens
    BY <1>10, StepAt, EntryFacts, EndpointFacts, PendingIsToken, FlowFacts
  <2>2. tokenCache' = [tokenCache EXCEPT ![tokenKey(d)] = t]
    BY <1>10, StepAt, PendingIsToken DEF addToken
  <2>3. t \in {req[r].tok, req[r].ctok} /\ t \notin {Nil, Custom}
    BY <1>10, <2>1, StepAt, PendingIsToken, NilFacts
  <2>4. Belongs(t, d)
    BY <2>3 DEF OwnInv, Own
  <2>5. UNCHANGED <<proxyCache, csrfCache>>
    BY <1>10 DEF addToken
  <2> HIDE DEF d, t
  <2>6. ASSUME NEW entry \in OAuthEntries, tokenCache'[tokenKey(entry)] # Nil
        PROVE  Belongs(tokenCache'[tokenKey(entry)], entry)
    <3>1. tokenKey(entry) \in TokenKeys
      BY DEF TokenKeys
    <3>2. CASE tokenKey(entry) = tokenKey(d)
      <4>1. entry.cred = d.cred /\ AuthURL[entry.api] = AuthURL[d.api]
        BY <2>1, <3>2 DEF KeysTellApart
      <4>2. tokenCache'[tokenKey(entry)] = t
        BY <2>2, <3>1, <3>2 DEF CachesOK
      <4> QED
        BY <2>4, <4>1, <4>2 DEF Belongs
    <3>3. CASE tokenKey(entry) # tokenKey(d)
      BY <2>2, <2>6, <3>1, <3>3 DEF CachesOK, CacheInv
    <3> QED
      BY <3>2, <3>3
  <2> QED
    BY <2>5, <2>6 DEF CacheInv
<1>11. CASE AddCSRFToken(r)
  BY <1>11, CachesRead DEF CacheInv
<1>12. CASE requestCSRFToken(r)
  BY <1>12, CachesRead DEF CacheInv
<1>13. CASE addCSRFToken(r)
  <2> DEFINE e == Endpoint[req[r].entry.api]
             t == Pending(req[r])
  <2>1. e \in Endpoints /\ t \in CsrfTokens
    BY <1>13, StepAt, EntryFacts, EndpointFacts, PendingIsToken, FlowFacts
  <2>2. csrfCache' = [csrfCache EXCEPT ![e] = t]
    BY <1>13, StepAt, PendingIsToken DEF addCSRFToken
  <2>3. req[r].entry.api = req[r].api
    BY <1>13, EntryFacts DEF OwnInv, Own
  <2>4. t.endpoint = e
    BY <1>13, <2>1, <2>3, StepAt, PendingIsToken, NilFacts DEF OwnInv, Own
  <2>5. UNCHANGED <<proxyCache, tokenCache>>
    BY <1>13 DEF addCSRFToken
  <2> HIDE DEF e, t
  <2> QED
    BY <2>1, <2>2, <2>4, <2>5 DEF CachesOK, CacheInv
<1>14. CASE RoundTrip(r)
  <2>1. \A entry \in OAuthEntries : tokenKey(entry) \in TokenKeys
    BY DEF TokenKeys
  <2>2. UNCHANGED <<secretCache, proxyCache, csrfCache>>
    BY <1>14 DEF RoundTrip
  <2>3. \/ UNCHANGED tokenCache
        \/ tokenCache' = [tokenCache EXCEPT ![tokenKey(req[r].entry)] = Nil]
    BY <1>14, RoundTripEffect
  <2> QED
    BY <2>1, <2>2, <2>3 DEF CachesOK, CacheInv
<1>15. CASE invalidateCSRF(r)
  <2>1. hasCSRFToken(req[r].entry.api) => Endpoint[req[r].entry.api] \in Endpoints
    BY <1>15, EntryFacts, EndpointFacts
  <2>2. UNCHANGED <<secretCache, proxyCache, tokenCache>>
    BY <1>15 DEF invalidateCSRF
  <2>3. \/ UNCHANGED csrfCache
        \/ /\ hasCSRFToken(req[r].entry.api)
           /\ csrfCache' = [csrfCache EXCEPT ![Endpoint[req[r].entry.api]] = Nil]
    BY <1>15 DEF invalidateCSRF
  <2> QED
    BY <2>1, <2>2, <2>3 DEF CachesOK, CacheInv
<1> QED
  BY <1>1, <1>2, <1>3, <1>4, <1>5, <1>6, <1>7, <1>8, <1>9, <1>10, <1>11, <1>12, <1>13,
     <1>14, <1>15 DEF RequestStep, Step

\* Every step keeps the routing.
LEMMA StepRouteInv == KeysTellApart /\ IInv /\ RouteInv /\ [Next]_vars => RouteInv'
<1> SUFFICES ASSUME KeysTellApart, IInv, RouteInv, [Next]_vars PROVE RouteInv'
  OBVIOUS
<1>0. /\ RequestsOK /\ WorldOK /\ CachesOK /\ BoundsOK /\ FlowInv
      /\ OwnInv /\ CacheInv
  BY DEF IInv, TypeParts, RouteInv
<1>1. ASSUME NEW r \in Requests, RequestStep(r) PROVE RouteInv'
  <2>1. Moves(r) /\ Own(req'[r]) /\ CacheInv'
    BY <1>0, <1>1, OnlyOneMoves, OwnStep, CacheStep
  <2> QED
    BY <1>0, <2>1 DEF RouteInv, OwnInv, Moves
<1>2. CASE WorldStep
  <2>1. UNCHANGED req /\ LoseEntries
    BY <1>0, <1>2, WorldStepEffect
  <2>2. \A entry \in OAuthEntries : tokenKey(entry) \in TokenKeys
    BY DEF TokenKeys
  <2>3. CacheInv'
    BY <1>0, <2>1, <2>2, KeyFacts DEF CacheInv, LoseEntries
  <2> QED
    BY <1>0, <2>1, <2>3 DEF RouteInv, OwnInv
<1>3. CASE Restart
  <2>1. Started'
    BY <1>3 DEF Restart, Started
  <2>2. (Started => RouteInv)'
    BY StartedRouteInv, PTL
  <2> QED
    BY <2>1, <2>2
<1>4. CASE UNCHANGED vars
  <2>1. UNCHANGED <<proxyCache, tokenCache, csrfCache, req>>
    BY <1>4 DEF vars
  <2> QED
    BY <1>0, <2>1 DEF RouteInv, OwnInv, CacheInv
<1> QED
  BY <1>1, <1>2, <1>3, <1>4 DEF Next, RequestStep, WorldStep

-----------------------------------------------------------------------------
(* Theorems                                                                *)

\* The invariant holds in every reachable state, for any number of callers, APIs that
\* share secrets, tokens and endpoints, and whatever keys they have in the caches.
THEOREM InductiveInvariant == Spec => []IInv
<1>1. Init => IInv
  BY InitIInv
<1>2. IInv /\ [Next]_vars => IInv'
  BY StepIInv
<1> QED
  BY <1>1, <1>2, PTL DEF Spec

\* Type correctness: a request is sent through a proxy and with an authorisation.
THEOREM TypeCorrect == Spec => []TypeOK
<1>1. IInv => TypeOK
  BY DEF IInv, TypeParts, WorldOK, CachesOK, RequestsOK, BoundsOK, FlowInv, Flow, TypeOK
<1> QED
  BY <1>1, InductiveInvariant, PTL

\* If the keys of the caches tell APIs and clients apart, a request goes to the API its
\* path names, with the credentials of its proxy or a token issued for them, through
\* whichever cache and on behalf of whichever API they came there.
THEOREM GoesToItsApi == KeysTellApart /\ Spec => []RoutedToItsApi
<1>1. Init => RouteInv
  <2>1. Init => Started
    BY DEF Init, Started
  <2> QED
    BY <2>1, StartedRouteInv
<1>2. KeysTellApart /\ IInv /\ RouteInv /\ [Next]_vars => RouteInv'
  BY StepRouteInv
<1>3. IInv /\ RouteInv => RoutedToItsApi
  BY DEF IInv, RouteInv, FlowInv, Flow, OwnInv, Own, RoutedToItsApi
<1>4. KeysTellApart /\ [Next]_vars => KeysTellApart'
  BY DEF KeysTellApart
<1> QED
  BY <1>1, <1>2, <1>3, <1>4, InductiveInvariant, PTL DEF Spec

\* A refused request is not repeated with a token it was refused with, whatever other
\* requests put into the caches between the two attempts, and whatever keys they use.
THEOREM RepeatedWithNewTokens == Spec => []NeverResent
<1>1. IInv => NeverResent
  BY DEF IInv, RenewedInv, Renewed, NeverResent
<1> QED
  BY <1>1, InductiveInvariant, PTL

=============================================================================
