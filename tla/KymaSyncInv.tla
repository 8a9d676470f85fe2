---------------------------- MODULE KymaSyncInv ----------------------------
(***************************************************************************)
(* The inductive invariant of KymaSync, in the parts its proof uses.       *)
(***************************************************************************)
EXTENDS KymaSync

\* The type invariant in parts: the Director, the resources, their secrets, the round,
\* the work on one Application, the history.
DirectorOK == director \in [Names -> Configs \cup {NoApp}] /\ label \in {"true", "other"}

AppsOK == apps \in [Names -> ResourceType] /\ uids \in Nat

SecretsOK == secrets \in [SecretNames -> SecretType]

RoundOK ==
    /\ stage \in {"idle", "fetched", "next", "create", "update", "delete"}
    /\ target \in [Names -> Configs \cup {NoApp}]
    /\ listed \in [Names -> CompassSpecs \cup {NoApp}]
    /\ loop \in {"create", "delete", "update"} /\ todo \subseteq Names

WorkOK ==
    /\ cur \in Names /\ kind \in Kinds
    /\ drop \subseteq SecretNames /\ put \subseteq SecretNames
    /\ owner \in Nat /\ err \in BOOLEAN

HistoryOK == leaked \subseteq SecretNames /\ faults \in 0..MaxFaults /\ edits \in 0..MaxEdits

TypeParts == DirectorOK /\ AppsOK /\ SecretsOK /\ RoundOK /\ WorkOK /\ HistoryOK

\* What is known between two rounds, and which loop works on an Application.
StageInv ==
    /\ stage = "idle" => target = Nothing
    /\ stage \in {"idle", "fetched"} => listed = Nothing /\ todo = {}
    /\ Working => loop = stage

\* What a loop is to visit: created is what was not Compass's when listed, removed and
\* updated what was.
ForLoop(a) ==
    /\ loop = "create" <=> listed[a] = NoApp
    /\ loop = "delete" <=> target[a] = NoApp

TodoInv ==
    /\ \A a \in todo : ForLoop(a)
    /\ Working => cur \notin todo /\ ForLoop(cur)

Upserted == IF kind = "credentials" THEN CredentialsToUpsert(cur) ELSE ParametersToUpsert(cur)

Obsolete == IF kind = "credentials" THEN ObsoleteCredentials(cur) ELSE ObsoleteParameters(cur)

\* The secrets of the Application worked on.
WorkInv ==
    /\ stage \in {"create", "update"} => put \subseteq Upserted
    /\ stage = "update" => drop \subseteq Obsolete
    /\ stage = "delete" => put = {} /\ \A s \in drop : s.app = cur
    /\ stage = "create" \/ ~Working => drop = {}
    /\ ~Working => put = {}

\* The uids in use have been given, and a resource that is not there has none.
AppUids == \A a \in Names : apps[a].uid <= uids /\ (apps[a].spec = NoApp <=> apps[a].uid = 0)

SecretUids == owner <= uids /\ \A s \in SecretNames : secrets[s].owner <= uids

UidInv == AppUids /\ SecretUids

\* The Application that was created or updated is what the Director wants, unless a
\* user has come between.
ContentInv ==
    stage \in {"create", "update"} => apps[cur].spec \in {Do(target[cur]), NoApp, Manual}

\* One of Compass's when listed that the round has not changed yet.
Untouched(a) == ApplicationExists(a) /\ (loop # "update" \/ a \in todo)

\* It is still what it was, or a user has removed it or taken its name.
ListedInv ==
    \A a \in Names : Untouched(a) => apps[a].spec \in {listed[a], NoApp, Manual}

\* A user who has taken such a name has no secrets under it.
UserInv ==
    \A s \in SecretNames :
        Untouched(s.app) /\ apps[s.app].spec = Manual => secrets[s].owner # apps[s.app].uid

\* A secret of one of Compass's Applications is named by it, still to be deleted, or
\* left behind by a failure.
Owned(s) == FromCompass(s.app) /\ secrets[s].owner = apps[s.app].uid

SecretsInv ==
    \A s \in SecretNames : Owned(s) => s \in Named(s.app) \cup leaked \cup StillObsolete

IInv ==
    /\ TypeParts /\ StageInv /\ TodoInv /\ WorkInv /\ UidInv /\ ContentInv
    /\ ListedInv /\ UserInv /\ SecretsInv
=============================================================================
