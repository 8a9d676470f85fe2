------------------------------ MODULE Gateway ------------------------------
(***************************************************************************)
(* The Central Application Gateway: concurrent requests to registered APIs *)
(* (components/central-application-gateway, internal/proxy,                *)
(* internal/metadata, internal/csrf and pkg/authorization).                *)
(*                                                                         *)
(* A request reads the credentials of its API through a cache, takes or    *)
(* creates the cached reverse proxy of the API, is authorised with a       *)
(* cached or a new OAuth token and a cached or a new CSRF token, and is    *)
(* sent.  If the answer is 401 or 403, the tokens are dropped and the      *)
(* request is sent once more.  Meanwhile credentials change, tokens        *)
(* expire, calls fail and the process restarts.  The Applications          *)
(* themselves do not change.                                               *)
(***************************************************************************)
EXTENDS Naturals, Sequences

CONSTANTS
    Requests,   \* callers; each makes one request after the other
    Apis,       \* registered APIs, as identifiers [app, service, entry]
    Auth,       \* Auth[a]: "oauth", "basic" or "none", how the API is secured
    Secrets,    \* names of the secrets with credentials
    SecretOf,   \* SecretOf[a]: the secret an API with credentials is registered with
    AuthURL,    \* AuthURL[a]: the OAuth server of an API with OAuth
    Endpoint,   \* Endpoint[a]: its CSRF token endpoint, or NoEndpoint
    NoEndpoint,
    CallerTokens,   \* APIs to whose requests a caller may add a token of its own
    CredsOf,    \* CredsOf[s]: credentials [id, secret] that the secret may hold
    NoCredentials,  \* what an API with "none" is registered with
    Serials,    \* bound: tells tokens in use apart
    Nil,        \* not cached, not set
    Custom,     \* the token a caller passed in the Access-Token header
    Lifetimes,  \* whether the OAuth server says how long a token lives
    MaxChanges, \* bound: changed credentials, expired tokens
    MaxFaults   \* bound: failing calls and restarts

Credentials == UNION {CredsOf[s] : s \in Secrets}

\* Names, credentials and URLs are strings, here sequences of numbers, which the keys of
\* the caches put together.
ASSUME ApisAssumption ==
    /\ Apis # {} /\ CallerTokens \subseteq Apis
    /\ Auth \in [Apis -> {"oauth", "basic", "none"}]
    /\ \A a \in Apis : Auth[a] # "none" => SecretOf[a] \in Secrets
    /\ \A a \in Apis : a.app \in Seq(Nat) /\ a.service \in Seq(Nat) /\ a.entry \in Seq(Nat)
    /\ AuthURL \in [Apis -> Seq(Nat)]
    /\ \A s \in Secrets : CredsOf[s] # {}
    /\ \A c \in Credentials : c.id \in Seq(Nat) /\ c.secret \in Seq(Nat)
ASSUME BoundsAssumption ==
    Lifetimes \in BOOLEAN /\ MaxChanges \in Nat /\ MaxFaults \in Nat

Endpoints == {Endpoint[a] : a \in Apis} \ {NoEndpoint}

\* Credentials that an API may be registered with.
ApiCreds(a) == IF Auth[a] = "none" THEN {NoCredentials} ELSE CredsOf[SecretOf[a]]

AllCreds == Credentials \cup {NoCredentials}

\* A token of the OAuth server at url, issued for credentials.
OAuthTokens ==
    [kind : {"oauth"}, cred : AllCreds, url : {AuthURL[a] : a \in Apis}, n : Serials]

CsrfTokens == [kind : {"csrf"}, endpoint : Endpoints, n : Serials]

Tokens == OAuthTokens \cup CsrfTokens

StoredCreds == [cred : AllCreds]

\* What a request carries: a token, or the credentials themselves.
Bearers == OAuthTokens \cup StoredCreds

\* An API as it is registered, with the credentials of its secret.
ServiceAPIs == {s \in [api : Apis, cred : AllCreds] : s.cred \in ApiCreds(s.api)}

\* CacheEntry: a reverse proxy to the target of an API, with strategies for credentials.
CacheEntries == ServiceAPIs

\* What is not set, and the caller's token, are none of these.
ASSUME ValuesAssumption ==
    /\ Nil \notin AllCreds \cup Bearers \cup Tokens \cup CacheEntries
    /\ Custom \notin Bearers \cup Tokens \cup {Nil}

\* The key of the proxy cache: the names, one after the other.
cacheKey(a) == a.app \o a.service \o a.entry

CacheKeys == {cacheKey(a) : a \in Apis}

OAuthEntries == {entry \in CacheEntries : Auth[entry.api] = "oauth"}

\* Mutant: the client secret is left out of the key.
KeyOfClient(entry) == entry.cred.id \o AuthURL[entry.api]

\* makeOAuthTokenCacheKey: client id, client secret and URL, one after the other.
tokenKey(entry) == entry.cred.id \o entry.cred.secret \o AuthURL[entry.api]

TokenKeys == {tokenKey(entry) : entry \in OAuthEntries}

\* No two APIs have one key in the proxy cache, and one key in the token cache stands for
\* one client of one OAuth server.  The code does not see to it: GatewayRouting shows
\* what happens otherwise.
KeysTellApart ==
    /\ \A a, b \in Apis : cacheKey(a) = cacheKey(b) => a = b
    /\ \A d, e \in OAuthEntries :
          tokenKey(d) = tokenKey(e) => d.cred = e.cred /\ AuthURL[d.api] = AuthURL[e.api]

VARIABLES
    (* the cluster, the OAuth server and the external systems *)
    secret,     \* secret[s]: credentials in the secret s
    accepted,   \* accepted[s]: those of them that the external systems accept
    dead,       \* tokens that are not accepted any more
    (* the caches of the gateway *)
    secretCache, proxyCache, tokenCache, csrfCache,
    (* the requests *)
    req,
    (* bounds *)
    changes, faults

worldVars == <<secret, accepted, dead>>
cacheVars == <<secretCache, proxyCache, tokenCache, csrfCache>>
vars == <<worldVars, cacheVars, req, changes, faults>>

Pcs == {"idle", "secret", "addSecret", "lookup", "create", "authorize", "token", "addToken",
        "invalidateCsrf", "csrf", "csrfRequest", "addCsrf", "send"}

RequestType ==
    [pc : Pcs,
     api : Apis,
     custom : BOOLEAN,                  \* the caller passed a token
     header : BOOLEAN,                  \* the Access-Token header is still there
     serviceAPI : ServiceAPIs \cup {Nil},
     entry : CacheEntries \cup {Nil},
     for : {"api", "csrf"},             \* which request is being authorised
     tok : Bearers \cup {Nil, Custom},  \* Authorization of the request
     ctok : Bearers \cup {Nil},         \* Authorization of the CSRF token request
     csrf : CsrfTokens \cup {Nil},
     first : Bearers \cup {Nil, Custom},    \* Authorization of the first attempt
     firstCsrf : CsrfTokens \cup {Nil},
     retried : BOOLEAN]

TypeOK ==
    /\ secret \in [Secrets -> Credentials] /\ accepted \in [Secrets -> Credentials]
    /\ \A s \in Secrets : secret[s] \in CredsOf[s] /\ accepted[s] \in CredsOf[s]
    /\ dead \subseteq Tokens
    /\ secretCache \in [Secrets -> Credentials \cup {Nil}]
    /\ \A s \in Secrets : secretCache[s] \in CredsOf[s] \cup {Nil}
    /\ proxyCache \in [CacheKeys -> CacheEntries \cup {Nil}]
    /\ tokenCache \in [TokenKeys -> OAuthTokens \cup {Nil}]
    /\ csrfCache \in [Endpoints -> CsrfTokens \cup {Nil}]
    /\ req \in [Requests -> RequestType]
    /\ \A r \in Requests : req[r].pc = "send" => req[r].entry # Nil /\ req[r].tok # Nil
    /\ changes \in 0..MaxChanges /\ faults \in 0..MaxFaults

NoRequest ==
    [pc |-> "idle", api |-> CHOOSE a \in Apis : TRUE, custom |-> FALSE, header |-> FALSE,
     serviceAPI |-> Nil, entry |-> Nil, for |-> "api", tok |-> Nil, ctok |-> Nil,
     csrf |-> Nil, first |-> Nil, firstCsrf |-> Nil, retried |-> FALSE]

EmptyCaches ==
    [secret |-> [s \in Secrets |-> Nil],
     proxy |-> [k \in CacheKeys |-> Nil], token |-> [k \in TokenKeys |-> Nil],
     csrf |-> [e \in Endpoints |-> Nil]]

Init ==
    /\ secret = [s \in Secrets |-> CHOOSE c \in CredsOf[s] : TRUE]
    /\ accepted = secret /\ dead = {}
    /\ secretCache = EmptyCaches.secret
    /\ proxyCache = EmptyCaches.proxy /\ tokenCache = EmptyCaches.token
    /\ csrfCache = EmptyCaches.csrf
    /\ req = [r \in Requests |-> NoRequest]
    /\ changes = 0 /\ faults = 0

-----------------------------------------------------------------------------

Fault == faults < MaxFaults /\ faults' = faults + 1

NoFault == UNCHANGED faults

At(r, pc) == req[r].pc = pc

\* The caller has its answer; the request is forgotten.
Answer(r) == req' = [req EXCEPT ![r] = NoRequest]

\* handleErrors
handleErrors(r) == Answer(r)

Set(r, next) == req' = [req EXCEPT ![r] = next]

\* What the caches and the requests hold.
Held ==
    {tokenCache[k] : k \in TokenKeys} \cup {csrfCache[e] : e \in Endpoints}
    \cup UNION {{req[r].tok, req[r].ctok, req[r].csrf, req[r].first, req[r].firstCsrf}
                  : r \in Requests}

InUse == {t \in Held : t \in Tokens}

\* The tokens that no one has.
FreshTokens(tokens) == tokens \ InUse

\* A new token; which of them it is does not matter.
Fresh(tokens) == CHOOSE t \in FreshTokens(tokens) : TRUE

\* The tokens that the OAuth server of a proxy's API issues for its credentials, and
\* those of the CSRF token endpoint.
OAuthTokensFor(entry) ==
    [kind : {"oauth"}, cred : {entry.cred}, url : {AuthURL[entry.api]}, n : Serials]

CsrfTokensOf(a) == [kind : {"csrf"}, endpoint : {Endpoint[a]}, n : Serials]

\* A new token is accepted; dead ones that no one has are forgotten.
Issue(token) == dead' = (dead \cap InUse) \ {token}

-----------------------------------------------------------------------------
(* What a request needs to know about its API                              *)

\* Read: an API without credentials needs no secret.
CredentialsFrom(a, store) == IF Auth[a] = "none" THEN NoCredentials ELSE store[SecretOf[a]]

\* The API with the credentials of its secret.
readServiceAPI(a, store) == [api |-> a, cred |-> CredentialsFrom(a, store)]

\* ServeHTTP begins.  extractPath fails on a path that names no API, which changes
\* nothing.  The secret of the API is looked up in the cache, under the secret's name.
ServeHTTP(r, a, custom) ==
    LET new == [NoRequest EXCEPT !.api = a, !.custom = custom, !.header = custom]
    IN  /\ At(r, "idle") /\ (custom => a \in CallerTokens)
        /\ Set(r, IF CredentialsFrom(a, secretCache) # Nil
                  THEN [new EXCEPT !.pc = "lookup",
                                   !.serviceAPI = readServiceAPI(a, secretCache)]
                  ELSE [new EXCEPT !.pc = "secret"])
        /\ UNCHANGED <<worldVars, cacheVars, changes, faults>>

\* Get of the secrets, from the cluster; a secret that cannot be read is an error.
getSecret(r) ==
    LET a == req[r].api
    IN  /\ At(r, "secret")
        /\ \/ /\ Set(r, [req[r] EXCEPT !.pc = "addSecret",
                                       !.serviceAPI = readServiceAPI(a, secret)])
              /\ NoFault
           \/ Fault /\ handleErrors(r)
        /\ UNCHANGED <<worldVars, cacheVars, changes>>

\* Add keeps what another request has added meanwhile; this request goes on with what
\* it read.
addSecret(r) ==
    /\ At(r, "addSecret")
    /\ secretCache' = [secretCache EXCEPT ![SecretOf[req[r].api]] =
                          IF @ = Nil THEN req[r].serviceAPI.cred ELSE @]
    /\ Set(r, [req[r] EXCEPT !.pc = "lookup"])
    /\ UNCHANGED <<worldVars, proxyCache, tokenCache, csrfCache, changes, faults>>

\* getOrCreateCacheEntry: a cached proxy is used as it is.
getOrCreateCacheEntry(r) ==
    LET found == proxyCache[cacheKey(req[r].api)]
    IN  /\ At(r, "lookup")
        /\ Set(r, IF found # Nil
                  THEN [req[r] EXCEPT !.pc = "authorize", !.entry = found, !.serviceAPI = Nil]
                  ELSE [req[r] EXCEPT !.pc = "create"])
        /\ UNCHANGED <<worldVars, cacheVars, changes, faults>>

\* makeProxy and the strategies, which keep the credentials.
newCacheEntry(serviceAPI) == [api |-> serviceAPI.api, cred |-> serviceAPI.cred]

\* createCacheEntry: two requests may both get here, the later one stays in the cache.
createCacheEntry(r) ==
    LET entry == newCacheEntry(req[r].serviceAPI)
    IN  /\ At(r, "create")
        /\ proxyCache' = [proxyCache EXCEPT ![cacheKey(req[r].api)] = entry]
        /\ Set(r, [req[r] EXCEPT !.pc = "authorize", !.entry = entry, !.serviceAPI = Nil])
        /\ UNCHANGED <<worldVars, secretCache, tokenCache, csrfCache, changes, faults>>

-----------------------------------------------------------------------------
(* Authorisation                                                           *)

\* The request, or the CSRF token request, carries this from now on.
Carry(r, bearer, pc) ==
    Set(r, IF req[r].for = "api" THEN [req[r] EXCEPT !.tok = bearer, !.pc = pc]
           ELSE [req[r] EXCEPT !.ctok = bearer, !.pc = pc])

\* After its authorisation a request gets a CSRF token; a second attempt gets a new one.
Authorized(r) ==
    IF req[r].for = "csrf" THEN "csrfRequest"
    ELSE IF req[r].retried THEN "invalidateCsrf" ELSE "csrf"

\* externalTokenStrategy: the header is removed, and so is not found another time.
addCustomToken(r) ==
    /\ At(r, "authorize") /\ req[r].for = "api" /\ req[r].header
    /\ Set(r, [req[r] EXCEPT !.tok = Custom, !.header = FALSE, !.pc = Authorized(r)])
    /\ UNCHANGED <<worldVars, cacheVars, changes, faults>>

Stored(r) == At(r, "authorize") /\ ~(req[r].for = "api" /\ req[r].header)

\* basicAuthStrategy and noAuthStrategy: nothing is asked for.
addCredentials(r) ==
    /\ Stored(r) /\ Auth[req[r].entry.api] # "oauth"
    /\ Carry(r, [cred |-> req[r].entry.cred], Authorized(r))
    /\ UNCHANGED <<worldVars, cacheVars, changes, faults>>

\* oauthStrategy: GetToken finds a token in the cache or asks for one.
GetToken(r) ==
    LET found == tokenCache[tokenKey(req[r].entry)]
    IN  /\ Stored(r) /\ Auth[req[r].entry.api] = "oauth"
        /\ IF found # Nil THEN Carry(r, found, Authorized(r))
           ELSE Set(r, [req[r] EXCEPT !.pc = "token"])
        /\ UNCHANGED <<worldVars, cacheVars, changes, faults>>

\* Mutant: the error of the request is not looked at.
requestTokenUnchecked(r) ==
    LET entry == req[r].entry
        token == Fresh(OAuthTokensFor(entry))
    IN  /\ At(r, "token")
        /\ \/ /\ entry.cred = CredentialsFrom(entry.api, accepted) /\ NoFault
              /\ FreshTokens(OAuthTokensFor(entry)) # {}
              /\ Issue(token) /\ Carry(r, token, "addToken")
           \/ /\ (entry.cred # CredentialsFrom(entry.api, accepted) /\ NoFault) \/ Fault
              /\ Carry(r, Nil, "addToken") /\ UNCHANGED dead
        /\ UNCHANGED <<secret, accepted, cacheVars, changes>>

\* requestToken: the OAuth server issues tokens for the accepted credentials.
requestToken(r) ==
    LET entry == req[r].entry
        token == Fresh(OAuthTokensFor(entry))
    IN  /\ At(r, "token")
        /\ \/ /\ entry.cred = CredentialsFrom(entry.api, accepted) /\ NoFault
              /\ FreshTokens(OAuthTokensFor(entry)) # {}
              /\ Issue(token) /\ Carry(r, token, "addToken")
           \/ /\ (entry.cred # CredentialsFrom(entry.api, accepted) /\ NoFault) \/ Fault
              /\ handleErrors(r) /\ UNCHANGED dead
        /\ UNCHANGED <<secret, accepted, cacheVars, changes>>

\* The token is added to the cache by whoever asked for it, over what is there.
addToken(r) ==
    LET token == IF req[r].for = "api" THEN req[r].tok ELSE req[r].ctok
    IN  /\ At(r, "addToken")
        /\ tokenCache' = [tokenCache EXCEPT ![tokenKey(req[r].entry)] = token]
        /\ Set(r, [req[r] EXCEPT !.pc = Authorized(r)])
        /\ UNCHANGED <<worldVars, secretCache, proxyCache, csrfCache, changes, faults>>

-----------------------------------------------------------------------------
(* CSRF tokens                                                             *)

\* The factory of the strategies: without an endpoint there is no token.
hasCSRFToken(a) == Endpoint[a] # NoEndpoint

\* AddCSRFToken: from the cache, or asked for with the strategy of the entry.
AddCSRFToken(r) ==
    LET e == Endpoint[req[r].entry.api]
    IN  /\ At(r, "csrf")
        /\ Set(r, IF ~hasCSRFToken(req[r].entry.api) THEN [req[r] EXCEPT !.pc = "send"]
                  ELSE IF csrfCache[e] # Nil
                  THEN [req[r] EXCEPT !.pc = "send", !.csrf = csrfCache[e]]
                  ELSE [req[r] EXCEPT !.pc = "authorize", !.for = "csrf"])
        /\ UNCHANGED <<worldVars, cacheVars, changes, faults>>

\* Accepted by the external system: tokens of its own accounts that have not died, and
\* the credentials that are valid.
Accepts(a, bearer) ==
    \/ /\ bearer \in OAuthTokens \ dead /\ bearer.url = AuthURL[a]
       /\ bearer.cred \in ApiCreds(a)
    \/ bearer = [cred |-> CredentialsFrom(a, accepted)]

\* requestToken of the CSRF client: an answer other than 200 is an error, and the
\* OAuth token it was asked for with stays in the cache.
requestCSRFToken(r) ==
    LET a == req[r].entry.api
        token == Fresh(CsrfTokensOf(a))
    IN  /\ At(r, "csrfRequest")
        /\ \/ /\ Accepts(a, req[r].ctok) /\ NoFault /\ FreshTokens(CsrfTokensOf(a)) # {}
              /\ Issue(token)
              /\ Set(r, [req[r] EXCEPT !.pc = "addCsrf", !.csrf = token,
                                       !.ctok = Nil, !.for = "api"])
           \/ /\ (~Accepts(a, req[r].ctok) /\ NoFault) \/ Fault
              /\ handleErrors(r) /\ UNCHANGED dead
        /\ UNCHANGED <<secret, accepted, cacheVars, changes>>

\* Kept under the endpoint until it is invalidated.
addCSRFToken(r) ==
    /\ At(r, "addCsrf")
    /\ csrfCache' = [csrfCache EXCEPT ![Endpoint[req[r].entry.api]] = req[r].csrf]
    /\ Set(r, [req[r] EXCEPT !.pc = "send"])
    /\ UNCHANGED <<worldVars, secretCache, proxyCache, tokenCache, changes, faults>>

-----------------------------------------------------------------------------
(* RoundTrip                                                               *)

\* Whether the external system lets the request in; what it thinks of a token of the
\* caller is not known.
Admits(r) ==
    LET a == req[r].entry.api
    IN  /\ req[r].tok # Custom => Accepts(a, req[r].tok)
        /\ hasCSRFToken(a) => req[r].csrf \notin dead

\* Mutant: refused again, repeated again.
retryAlways(r) == TRUE

\* shouldRetry: 401 or 403, the first time.
shouldRetry(r) == ~req[r].retried

\* Mutant: the token stays in the cache.
retryWithCachedToken(r) ==
    /\ Set(r, [req[r] EXCEPT !.pc = "authorize", !.tok = Nil, !.csrf = Nil, !.retried = TRUE,
                             !.first = req[r].tok, !.firstCsrf = req[r].csrf])
    /\ UNCHANGED tokenCache

\* retry: Invalidate drops the token of the OAuth strategy, whoever else uses it, then
\* the request is authorised again, with the same strategy.
retry(r) ==
    /\ tokenCache' = IF Auth[req[r].entry.api] = "oauth"
                     THEN [tokenCache EXCEPT ![tokenKey(req[r].entry)] = Nil]
                     ELSE tokenCache
    /\ Set(r, [req[r] EXCEPT !.pc = "authorize", !.tok = Nil, !.csrf = Nil, !.retried = TRUE,
                             !.first = req[r].tok, !.firstCsrf = req[r].csrf])

\* RoundTrip: the answer of the external system is passed on, a refusal is tried once
\* more, and a failed or late call is an error.
RoundTrip(r) ==
    /\ At(r, "send")
    /\ \/ Admits(r) /\ NoFault /\ Answer(r) /\ UNCHANGED tokenCache
       \/ /\ (req[r].tok = Custom \/ ~Admits(r)) /\ NoFault
          /\ IF shouldRetry(r) THEN retry(r) ELSE Answer(r) /\ UNCHANGED tokenCache
       \/ Fault /\ Answer(r) /\ UNCHANGED tokenCache
    /\ UNCHANGED <<worldVars, secretCache, proxyCache, csrfCache, changes>>

invalidateCSRF(r) ==
    LET e == Endpoint[req[r].entry.api]
    IN  /\ At(r, "invalidateCsrf")
        /\ csrfCache' = IF hasCSRFToken(req[r].entry.api) THEN [csrfCache EXCEPT ![e] = Nil]
                       ELSE csrfCache
        /\ Set(r, [req[r] EXCEPT !.pc = "csrf"])
        /\ UNCHANGED <<worldVars, secretCache, proxyCache, tokenCache, changes, faults>>

-----------------------------------------------------------------------------
(* Time and the world                                                      *)

Change == changes < MaxChanges /\ changes' = changes + 1

\* The time to live of an entry has passed.  Only what has changed since is expired
\* here: an entry that is replaced by its equal cannot be told from the old one.
ExpireSecret(s) ==
    /\ secretCache[s] \notin {Nil, secret[s]}
    /\ secretCache' = [secretCache EXCEPT ![s] = Nil]
    /\ UNCHANGED <<worldVars, proxyCache, tokenCache, csrfCache, req, changes, faults>>

\* Mutant: a time to live of 0 is none.
KeepProxy(a) == FALSE /\ UNCHANGED vars

ExpireProxy(a) ==
    /\ proxyCache[cacheKey(a)] \notin {Nil, readServiceAPI(a, secret)}
    /\ proxyCache' = [proxyCache EXCEPT ![cacheKey(a)] = Nil]
    /\ UNCHANGED <<worldVars, secretCache, tokenCache, csrfCache, req, changes, faults>>

\* A token leaves the cache when its lifetime is over, if that is known: with expires_in
\* of at most 2 the entry has no expiration.
ExpireToken(k) ==
    /\ Lifetimes /\ tokenCache[k] \in dead
    /\ tokenCache' = [tokenCache EXCEPT ![k] = Nil]
    /\ UNCHANGED <<worldVars, secretCache, proxyCache, csrfCache, req, changes, faults>>

\* A token is not accepted any more.
TokenDies(token) ==
    /\ Change /\ token \notin dead
    /\ dead' = dead \cup {token}
    /\ UNCHANGED <<secret, accepted, cacheVars, req, faults>>

\* The external systems get other credentials, which ends their tokens.
RotateCredentials(s) ==
    /\ Change
    /\ \E c \in CredsOf[s] \ {accepted[s]} : accepted' = [accepted EXCEPT ![s] = c]
    /\ dead' = dead \cup (InUse \cap
          ({t \in OAuthTokens : t.cred = accepted[s]}
             \cup UNION {CsrfTokensOf(a) : a \in {b \in Apis : Auth[b] # "none" /\ SecretOf[b] = s}}))
    /\ UNCHANGED <<secret, cacheVars, req, faults>>

\* The registration follows: by a user, or by the Compass Runtime Agent.
UpdateSecret(s) ==
    /\ secret[s] # accepted[s] /\ secret' = [secret EXCEPT ![s] = accepted[s]]
    /\ UNCHANGED <<accepted, dead, cacheVars, req, changes, faults>>

\* The process stops and starts again.
Restart ==
    /\ Fault
    /\ secretCache' = EmptyCaches.secret
    /\ proxyCache' = EmptyCaches.proxy /\ tokenCache' = EmptyCaches.token
    /\ csrfCache' = EmptyCaches.csrf
    /\ req' = [r \in Requests |-> NoRequest]
    /\ UNCHANGED <<worldVars, changes>>

-----------------------------------------------------------------------------

Step(r) ==
    \/ getSecret(r) \/ addSecret(r) \/ getOrCreateCacheEntry(r) \/ createCacheEntry(r)
    \/ addCustomToken(r) \/ addCredentials(r) \/ GetToken(r) \/ requestToken(r) \/ addToken(r)
    \/ AddCSRFToken(r) \/ requestCSRFToken(r) \/ addCSRFToken(r)
    \/ RoundTrip(r) \/ invalidateCSRF(r)

Time ==
    \/ \E s \in Secrets : ExpireSecret(s)
    \/ \E a \in Apis : ExpireProxy(a)
    \/ \E k \in TokenKeys : ExpireToken(k)

Next ==
    \/ \E r \in Requests : Step(r) \/ \E a \in Apis, custom \in BOOLEAN : ServeHTTP(r, a, custom)
    \/ Time
    \/ \E s \in Secrets : RotateCredentials(s) \/ UpdateSecret(s)
    \/ \E token \in InUse : TokenDies(token)
    \/ Restart

Spec == Init /\ [][Next]_vars

\* Requests in progress go on: the calls of the OAuth server, the CSRF token endpoint and
\* the API have timeouts, and the Kubernetes API server bounds the reads of secrets.
\* Entries of the caches expire, and the credentials of an API are registered after they
\* have changed.
FairSpec ==
    /\ Spec
    /\ \A r \in Requests : WF_vars(Step(r))
    /\ \A s \in Secrets : WF_vars(ExpireSecret(s)) /\ WF_vars(UpdateSecret(s))
    /\ \A a \in Apis : WF_vars(ExpireProxy(a))
    /\ \A k \in TokenKeys : WF_vars(ExpireToken(k))

-----------------------------------------------------------------------------
(* Properties                                                              *)

\* A request is repeated with tokens that were not refused before, whatever other
\* requests put into the caches meanwhile (retryableroundtripper.go, addAuthorization).
NeverResent ==
    \A r \in Requests :
        At(r, "send") /\ req[r].retried =>
            /\ req[r].tok \in OAuthTokens => req[r].tok # req[r].first
            /\ req[r].csrf # Nil => req[r].csrf # req[r].firstCsrf

\* What a proxy's strategy may send: its credentials, or a token issued for them by the
\* OAuth server of its API.
Belongs(bearer, entry) ==
    bearer.cred = entry.cred /\ (bearer \in OAuthTokens => bearer.url = AuthURL[entry.api])

\* A request goes to the API its path names, with the credentials of its proxy or with a
\* token that the OAuth server of this API issued for them, and with a CSRF token of its
\* endpoint, although APIs share secrets and tokens, and other clients' tokens are in
\* the same caches (cache.go:57, oauthclient.go:50 and :100, csrfclient.go:36).
RoutedToItsApi ==
    \A r \in Requests :
        At(r, "send") =>
            /\ req[r].entry.api = req[r].api
            /\ req[r].tok # Custom => Belongs(req[r].tok, req[r].entry)
            /\ req[r].csrf # Nil => req[r].csrf.endpoint = Endpoint[req[r].api]

\* Every caller gets an answer: a request is sent at most twice (RoundTrip).
Answered == \A r \in Requests : ~At(r, "idle") ~> At(r, "idle")

\* The request is answered by its API, which let it in.
Served(r) == At(r, "send") /\ Admits(r)

EndsServed ==
    \A r \in Requests :
        (req[r].pc # "idle" /\ req'[r].pc = "idle" /\ ~req[r].custom) => Served(r)

\* After changes of credentials, revoked tokens and failures, what the caches hold is
\* replaced, so that in the end every request with stored credentials is let in.
RequestsAreServedAgain == <>[][EndsServed]_vars

\* A token that is not valid any more is replaced by a new one: stated by the
\* description of the gateway's token cache, whatever lifetime the server reports.
StaleTokensAreReplaced == <>[][EndsServed]_vars
=============================================================================
