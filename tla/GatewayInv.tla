----------------------------- MODULE GatewayInv -----------------------------
(***************************************************************************)
(* The inductive invariants of Gateway, in the parts their proofs use.     *)
(* Most of them speak about one request x at a time.  IInv holds whatever  *)
(* the keys of the caches are, RouteInv if they tell apart what they are   *)
(* for (KeysTellApart).                                                    *)
(***************************************************************************)
EXTENDS Gateway

\* The type invariant in parts.
WorldOK ==
    /\ secret \in [Secrets -> Credentials] /\ accepted \in [Secrets -> Credentials]
    /\ \A s \in Secrets : secret[s] \in CredsOf[s] /\ accepted[s] \in CredsOf[s]
    /\ dead \subseteq Tokens

CachesOK ==
    /\ secretCache \in [Secrets -> Credentials \cup {Nil}]
    /\ \A s \in Secrets : secretCache[s] \in CredsOf[s] \cup {Nil}
    /\ proxyCache \in [CacheKeys -> CacheEntries \cup {Nil}]
    /\ tokenCache \in [TokenKeys -> OAuthTokens \cup {Nil}]
    /\ csrfCache \in [Endpoints -> CsrfTokens \cup {Nil}]

RequestsOK == req \in [Requests -> RequestType]

BoundsOK == changes \in 0..MaxChanges /\ faults \in 0..MaxFaults

TypeParts == WorldOK /\ CachesOK /\ RequestsOK /\ BoundsOK

\* What a request has at which step: the API as registered until there is a proxy, the
\* proxy from then on, an authorisation when the next one can be asked for.  A secret is
\* read and a token asked for only if the API has them.
Flow(x) ==
    /\ x.pc \in {"addSecret", "lookup", "create"} => x.serviceAPI # Nil
    /\ x.pc \in {"secret", "addSecret", "lookup", "create"}
       => x.for = "api" /\ ~x.retried /\ x.entry = Nil
    /\ x.pc \notin {"idle", "secret", "addSecret", "lookup", "create"} => x.entry # Nil
    /\ x.pc \in {"invalidateCsrf", "csrf", "addCsrf", "send"} => x.tok # Nil /\ x.for = "api"
    /\ x.for = "csrf" => x.tok # Nil /\ hasCSRFToken(x.entry.api)
    /\ x.pc \in {"secret", "addSecret"} => Auth[x.api] # "none"
    /\ x.pc = "addSecret" => x.serviceAPI.api = x.api
    /\ x.pc \in {"token", "addToken"} => Auth[x.entry.api] = "oauth"
    /\ x.pc = "addToken" => (IF x.for = "api" THEN x.tok ELSE x.ctok) \in OAuthTokens
    /\ x.pc = "csrfRequest" => x.for = "csrf" /\ x.ctok # Nil
    /\ x.pc = "addCsrf" => x.csrf # Nil /\ hasCSRFToken(x.entry.api)

FlowInv == \A r \in Requests : Flow(req[r])

\* What a request has belongs to its API: the proxy is that of the API, and the tokens
\* are of the proxy's credentials and of the API's endpoint.
Own(x) ==
    /\ x.serviceAPI # Nil => x.serviceAPI.api = x.api
    /\ x.entry # Nil => x.entry.api = x.api
    /\ x.entry = Nil => x.tok = Nil /\ x.ctok = Nil /\ x.csrf = Nil
    /\ x.tok \notin {Nil, Custom} => Belongs(x.tok, x.entry)
    /\ x.ctok # Nil => Belongs(x.ctok, x.entry)
    /\ x.csrf # Nil => x.csrf.endpoint = Endpoint[x.api]

OwnInv == \A r \in Requests : Own(req[r])

\* What the caches hold belongs to everyone who finds it there.
CacheInv ==
    /\ \A a \in Apis : proxyCache[cacheKey(a)] # Nil => proxyCache[cacheKey(a)].api = a
    /\ \A entry \in OAuthEntries :
          tokenCache[tokenKey(entry)] # Nil => Belongs(tokenCache[tokenKey(entry)], entry)
    /\ \A e \in Endpoints : csrfCache[e] # Nil => csrfCache[e].endpoint = e

\* A token that is about to be cached.
Pending(x) ==
    IF x.pc = "addToken" THEN IF x.for = "api" THEN x.tok ELSE x.ctok
    ELSE IF x.pc = "addCsrf" THEN x.csrf ELSE Nil

Holds(x, t) == t \in {x.tok, x.ctok, x.csrf, x.first, x.firstCsrf}

\* No one else has it, and it is not the one that was refused.
PendingInv ==
    \A r \in Requests :
        Pending(req[r]) # Nil =>
            /\ \A k \in TokenKeys : tokenCache[k] # Pending(req[r])
            /\ \A e \in Endpoints : csrfCache[e] # Pending(req[r])
            /\ \A q \in Requests \ {r} : ~Holds(req[q], Pending(req[r]))
            /\ Pending(req[r]) \notin {req[r].first, req[r].firstCsrf}

\* The CSRF token of the first attempt has been invalidated.
Invalidated(x) == x.pc \in {"csrf", "addCsrf", "send"} \/ x.for = "csrf"

\* A refused token does not come back into the cache it was taken from.
Refused(x, tokens, csrfTokens) ==
    x.retried =>
        /\ x.entry # Nil
        /\ x.first \in OAuthTokens /\ Auth[x.entry.api] = "oauth"
           => tokens[tokenKey(x.entry)] # x.first
        /\ Invalidated(x) /\ x.firstCsrf # Nil /\ hasCSRFToken(x.entry.api)
           => csrfTokens[Endpoint[x.entry.api]] # x.firstCsrf

RefusedInv == \A r \in Requests : Refused(req[r], tokenCache, csrfCache)

\* Nor into the request.
Renewed(x) ==
    x.retried =>
        /\ x.tok \in OAuthTokens => x.tok # x.first
        /\ x.csrf # Nil => x.csrf # x.firstCsrf

RenewedInv == \A r \in Requests : Renewed(req[r])

IInv == TypeParts /\ FlowInv /\ PendingInv /\ RefusedInv /\ RenewedInv

RouteInv == OwnInv /\ CacheInv
=============================================================================
