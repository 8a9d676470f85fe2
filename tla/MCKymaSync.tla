----------------------------- MODULE MCKymaSync -----------------------------
(* A small instance of KymaSync for TLC.                                   *)
EXTENDS KymaSync

CONSTANTS b, v1, v2

\* "Shop", which is no valid name, "shop", which is one, and "mp-shop", which both
\* are normalised to.
Invalid == [prefixes |-> 0, rest |-> "shop", permitted |-> FALSE, valid |-> FALSE]
Plain == [prefixes |-> 0, rest |-> "shop", permitted |-> TRUE, valid |-> TRUE]
Normal == [prefixes |-> 1, rest |-> "shop", permitted |-> TRUE, valid |-> TRUE]

MCNames == {Invalid, Plain, Normal}

Config(c, p, apis) == [creds |-> [x \in {b} |-> c], params |-> [x \in {b} |-> p], apis |-> apis]

\* Credentials and request parameters; blank credentials; credentials of a bundle
\* without an API definition.
MCConfigs == {Config(v1, v1, {b}), Config(Blank, None, {b}), Config(v2, None, {})}

\* The Director starts with at most "Shop" and "shop", the first with one of its
\* contents; all the others come with its changes.
InitOfFew ==
    /\ Init
    /\ director[Invalid] \in {NoApp, Config(v1, v1, {b})} /\ director[Normal] = NoApp

MCSpec == InitOfFew /\ [][Next]_vars /\ Fairness
=============================================================================
