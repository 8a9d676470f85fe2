----------------------------- MODULE MCGateway -----------------------------
(* Small instances of Gateway for TLC.                                     *)
EXTENDS Gateway, TLC

CONSTANTS endpoint

\* Services of one Application.
orders == [app |-> <<1>>, service |-> <<2>>, entry |-> <<>>]

invoices == [app |-> <<1>>, service |-> <<3>>, entry |-> <<>>]

stock == [app |-> <<1>>, service |-> <<4>>, entry |-> <<>>]

news == [app |-> <<1>>, service |-> <<5>>, entry |-> <<>>]

\* A client whose client secret changes, and another one.
client == [id |-> <<1>>, secret |-> <<1>>]

renewed == [id |-> <<1>>, secret |-> <<2>>]

other == [id |-> <<2>>, secret |-> <<1>>]

url == <<1>>

\* Two APIs with OAuth that share a secret, and so their tokens, one of which needs CSRF
\* tokens, and one with basic authentication.
SharedApis == {orders, invoices, stock}

SharedAuth == orders :> "oauth" @@ invoices :> "oauth" @@ stock :> "basic"

SharedSecretOf == orders :> 1 @@ invoices :> 1 @@ stock :> 2

SharedURL == orders :> url @@ invoices :> url @@ stock :> <<>>

SharedEndpoint == orders :> endpoint @@ invoices :> NoEndpoint @@ stock :> NoEndpoint

TwoCredsOf == 1 :> {client, renewed} @@ 2 :> {other, [other EXCEPT !.secret = <<2>>]}

\* One API with OAuth and CSRF tokens, one with basic authentication, one without.
MixedApis == {orders, stock, news}

MixedAuth == orders :> "oauth" @@ stock :> "basic" @@ news :> "none"

MixedSecretOf == orders :> 1 @@ stock :> 2 @@ news :> 0

MixedURL == orders :> url @@ stock :> <<>> @@ news :> <<>>

MixedEndpoint == orders :> endpoint @@ stock :> NoEndpoint @@ news :> NoEndpoint

MixedCallerTokens == {stock}

\* The safety run starts with both secrets cached and the proxy of stock, as it is after
\* requests whose token could not be had and the expiration of other proxies.
InitWarm ==
    /\ secret = [s \in Secrets |-> CHOOSE c \in CredsOf[s] : TRUE]
    /\ accepted = secret /\ dead = {}
    /\ secretCache = secret
    /\ proxyCache = [EmptyCaches.proxy EXCEPT ![cacheKey(stock)] = readServiceAPI(stock, secret)]
    /\ tokenCache = EmptyCaches.token /\ csrfCache = EmptyCaches.csrf
    /\ req = [r \in Requests |-> NoRequest]
    /\ changes = 0 /\ faults = 0

WarmSpec == InitWarm /\ [][Next]_vars

CallerSymmetry == Permutations(Requests)
=============================================================================
