-------------------------- MODULE MCGatewayRouting --------------------------
(* Small instances of GatewayRouting for TLC.                              *)
EXTENDS GatewayRouting

shop   == <<1>>
orders == <<2>>
list   == <<3>>
edit   == <<4>>
v1     == <<5>>
v10    == <<5, 0>>

\* "Orders" and "orders!", which are the same in a path.
Orders(variant) == [normal |-> orders, variant |-> variant]

EntryName(name) == [normal |-> name, variant |-> 0]

origin == [scheme |-> "https", name |-> 1, port |-> 443]

\* https://host/v1 and https://host/v1/list/
Root == [origin |-> origin, path |-> <<v1>>]

Listing == [origin |-> origin, path |-> <<v1, list, <<>>>>]

API(variant, name, target) ==
    [service |-> Orders(variant), entry |-> EntryName(name), type |-> "API", target |-> target]

Events == [API(0, edit, Root) EXCEPT !.type = "Events"]

MCApps == {shop}

\* One API; or the same one elsewhere, an entry for events, and another service whose
\* name is normalised to the same one.
MCContents ==
    {{API(0, list, Root)}, {API(0, list, Listing), API(1, edit, Root), Events}}

MCCalls ==
    {[handler |-> "kyma", path |-> <<shop, orders, edit, <<>>>>],
     [handler |-> "compass", path |-> <<shop, orders, list>>]}

\* /v1/list/edit is beneath both targets, /v1/edit beneath one of them.
MCLocations ==
    {[origin |-> origin, path |-> <<v1, list, edit>>], [origin |-> origin, path |-> <<v1, edit>>]}

\* /v10/edit, which only begins with the path /v1.
MCLookAlike == {[origin |-> origin, path |-> <<v10, edit>>]}

\* The services "order" with the entry "slist" and "orders" with the entry "list".
short == [service |-> EntryName(<<2>>), entry |-> EntryName(<<6, 3>>), type |-> "API",
          target |-> Root]
long  == [service |-> EntryName(<<2, 6>>), entry |-> EntryName(<<3>>), type |-> "API",
          target |-> Listing]

MCAlikeContents == {{short, long}}

MCAlikeCalls ==
    {[handler |-> "compass", path |-> <<shop, <<2>>, <<6, 3>>>>],
     [handler |-> "compass", path |-> <<shop, <<2, 6>>, <<3>>>>]}
=============================================================================
