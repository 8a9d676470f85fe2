------------------------ MODULE RuntimeApplications ------------------------
(***************************************************************************)
(* What the Compass Runtime Agent promises about the Applications of a     *)
(* runtime, apart from how it brings it about.                             *)
(*                                                                         *)
(* Compass owns the Applications that carry its metadata, users own the    *)
(* others.  In every round the agent learns what the Director wants and    *)
(* then claims the Applications that Compass owns at that moment.  Until   *)
(* the next round it changes an Application only to what the Director      *)
(* wants: it creates what is missing, and replaces or removes only names   *)
(* that it claimed.  What others do counts up `others', so that none of    *)
(* their steps stands for one of the agent.                                *)
(***************************************************************************)
EXTENDS Naturals

CONSTANTS
    Names,      \* names of Applications
    Contents,   \* what the Director can want an Application to be
    NoApp,      \* there is no such Application
    Manual      \* an Application of a user

VARIABLES
    held,       \* the Applications on the cluster
    wanted,     \* what the Director wants in this round
    claimed,    \* the Applications of this round that Compass owned at its start
    others      \* how often others have acted

Init ==
    /\ held \in [Names -> {NoApp, Manual}]
    /\ wanted = [a \in Names |-> NoApp] /\ claimed = {} /\ others = 0

Ask ==
    /\ wanted' \in [Names -> Contents \cup {NoApp}] /\ claimed' = {}
    /\ UNCHANGED <<held, others>>

Claim ==
    /\ claimed' = {a \in Names : held[a] \in Contents}
    /\ UNCHANGED <<held, wanted, others>>

Create(a) ==
    /\ a \notin claimed /\ held[a] = NoApp /\ wanted[a] # NoApp
    /\ held' = [held EXCEPT ![a] = wanted[a]]
    /\ UNCHANGED <<wanted, claimed, others>>

\* Replaces, or removes when the Director does not want the Application.
Replace(a) ==
    /\ a \in claimed /\ held[a] # NoApp
    /\ held' = [held EXCEPT ![a] = wanted[a]]
    /\ UNCHANGED <<wanted, claimed, others>>

OthersAct ==
    /\ others' = others + 1
    /\ \/ UNCHANGED held
       \/ \E a \in Names : held[a] = NoApp /\ held' = [held EXCEPT ![a] = Manual]
       \/ \E a \in Names : held' = [held EXCEPT ![a] = NoApp]
    /\ UNCHANGED <<wanted, claimed>>

Next ==
    \/ Ask \/ Claim \/ OthersAct
    \/ \E a \in Names : Create(a) \/ Replace(a)

Spec == Init /\ [][Next]_<<held, wanted, claimed, others>>
=============================================================================
