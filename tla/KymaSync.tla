------------------------------ MODULE KymaSync ------------------------------
(***************************************************************************)
(* The Compass Runtime Agent: how the Applications that the Director       *)
(* returns are brought to the cluster (components/compass-runtime-agent,   *)
(* internal/kyma and internal/compass/director).                           *)
(*                                                                         *)
(* For every Application the agent keeps an Application resource and, per  *)
(* API bundle, a secret with the credentials and one with the request      *)
(* parameters.  A round lists the resources once, then creates, deletes    *)
(* and updates, one API call after the other, while users change the       *)
(* resources and the garbage collector removes secrets whose owner is      *)
(* gone.  Any call may fail, with or without having taken effect.          *)
(***************************************************************************)
EXTENDS Naturals

CONSTANTS
    Names,      \* names of Applications: how often they begin with "mp-", the
                \* rest, whether they have only permitted characters, and whether
                \* the API server takes them as they are
    Bundles,    \* API bundles
    Versions,   \* values of credentials and of request parameters
    Blank,      \* credentials without a user or a client id
    None,       \* no credentials, no request parameters
    Configs,    \* the Applications that the Director returns
    NoApp,      \* there is no such Application
    Manual,     \* the content of an Application of a user
    MaxFaults,  \* bound: failing calls and crashes
    MaxEdits    \* bound: changes in the Director and by users

\* Normalize: the prefix is added to a name that lacks it, and to one that has it
\* and another character that is replaced.  What comes out is a valid name.
Normalize(n) ==
    IF n.prefixes > 0 /\ n.permitted THEN n
    ELSE [n EXCEPT !.prefixes = @ + 1, !.permitted = TRUE, !.valid = TRUE]

\* The API server takes only names of lower-case letters, digits, "-" and ".".
ValidName(n) == n.valid

\* An Application in the Director: per bundle, its credentials and its request
\* parameters; apis are the bundles with at least one API definition.
ConfigType ==
    [creds : [Bundles -> Versions \cup {Blank, None}],
     params : [Bundles -> Versions \cup {None}],
     apis : SUBSET Bundles]

ASSUME NamesAssumption ==
    /\ Names # {} /\ \A n \in Names : Normalize(n) \in Names
    /\ \A n \in Names : n.prefixes \in Nat /\ n.permitted \in BOOLEAN /\ n.valid \in BOOLEAN
    /\ \A n \in Names : n.prefixes > 0 /\ n.permitted => n.valid
ASSUME ConfigsAssumption == Configs \subseteq ConfigType /\ NoApp \notin Configs
ASSUME ValuesAssumption == Blank \notin Versions /\ None \notin Versions /\ Blank # None
ASSUME BoundsAssumption == MaxFaults \in Nat /\ MaxEdits \in Nat

Kinds == {"credentials", "parameters"}

\* GetCredentialsSecretName and GetRequestParametersSecretName: the name has the id
\* of the bundle, which is unique, and so it is taken apart here.
SecretNames == [kind : Kinds, app : Names, bundle : Bundles]

-----------------------------------------------------------------------------
(* The converter                                                           *)

\* toCredential: the entry names a secret if there are credentials, blank or not.
toCredential(config, b) == config.creds[b] # None

\* toRequestParametersSecretName
toRequestParametersSecretName(config, b) == config.params[b] # None

toAPIEntry(config, b) ==
    [credentials |-> toCredential(config, b),
     parameters  |-> toRequestParametersSecretName(config, b)]

\* Do: the spec of the Application resource.  Only an API definition becomes an entry
\* that names secrets, so a bundle without one names none.
Do(config) == [b \in config.apis |-> toAPIEntry(config, b)]

\* The specs with CompassMetadata.
CompassSpecs == {Do(c) : c \in Configs}

ASSUME ContentsAssumption ==
    /\ NoApp \notin CompassSpecs /\ Manual \notin CompassSpecs /\ NoApp # Manual

\* What a spec names; an Application of a user has no such secrets.
SecretsNamed(a, spec, k) ==
    IF spec \in CompassSpecs
    THEN {[kind |-> k, app |-> a, bundle |-> b] : b \in {x \in DOMAIN spec : spec[x][k]}}
    ELSE {}

getCredentialsSecretNames(a, spec) == SecretsNamed(a, spec, "credentials")

getRequestParametersSecretNames(a, spec) == SecretsNamed(a, spec, "parameters")

-----------------------------------------------------------------------------

\* An Application resource; uid 0 is none.
ResourceType == [spec : CompassSpecs \cup {NoApp, Manual}, uid : Nat]

NoResource == [spec |-> NoApp, uid |-> 0]

SecretType == [val : Versions \cup {None}, owner : Nat]

NoSecret == [val |-> None, owner |-> 0]

Nothing == [n \in Names |-> NoApp]

anyName == CHOOSE n \in Names : TRUE

VARIABLES
    (* the Director *)
    director,   \* director[n]: the Application with name n
    label,      \* the isNormalized label of the runtime: "true", or another value or none
    (* the cluster *)
    apps,       \* the Application resources
    secrets,    \* the secrets of the Applications
    uids,       \* uids given so far
    (* a round of the agent *)
    stage,      \* where the round is; "create" and so on while one Application is
                \* worked on, "next" between two of them
    target,     \* directorApplications, under the names used on the cluster
    listed,     \* runtimeApplications: the specs of Compass's Applications when listed
    loop,       \* the current loop of apply
    todo,       \* the Applications of the loop still to be visited
    (* the work on one Application *)
    cur,        \* the Application
    kind,       \* the kind of its secrets being worked on
    drop,       \* those still to be deleted
    put,        \* those still to be upserted
    owner,      \* uid of cur, read once per kind; 0 is not read
    err,        \* appendedErr
    (* history and bounds *)
    leaked,     \* secrets that no Application names for a reason of its own: their
                \* deletion failed, or their bundle has no API definition
    faults, edits

directorVars == <<director, label>>
clusterVars  == <<apps, secrets, uids>>
roundVars    == <<target, listed, loop, todo>>
workVars     == <<kind, drop, put, owner, err>>
vars == <<directorVars, clusterVars, stage, roundVars, cur, workVars, leaked, faults, edits>>

TypeOK ==
    /\ director \in [Names -> Configs \cup {NoApp}]
    /\ label \in {"true", "other"}
    /\ apps \in [Names -> ResourceType] /\ uids \in Nat
    /\ secrets \in [SecretNames -> SecretType]
    /\ stage \in {"idle", "fetched", "next", "create", "update", "delete"}
    /\ target \in [Names -> Configs \cup {NoApp}]
    /\ listed \in [Names -> CompassSpecs \cup {NoApp}]
    /\ loop \in {"create", "delete", "update"} /\ todo \subseteq Names
    /\ cur \in Names /\ kind \in Kinds
    /\ drop \subseteq SecretNames /\ put \subseteq SecretNames
    /\ owner \in Nat /\ err \in BOOLEAN
    /\ leaked \subseteq SecretNames
    /\ faults \in 0..MaxFaults /\ edits \in 0..MaxEdits

\* No round is in progress; nothing is on the cluster but Applications of users.
Init ==
    /\ director \in [Names -> Configs \cup {NoApp}] /\ label \in {"true", "other"}
    /\ apps = [n \in Names |-> NoResource] /\ uids = 0
    /\ secrets = [s \in SecretNames |-> NoSecret]
    /\ stage = "idle" /\ target = Nothing /\ listed = Nothing
    /\ loop = "create" /\ todo = {}
    /\ cur = anyName /\ kind = "credentials"
    /\ drop = {} /\ put = {} /\ owner = 0 /\ err = FALSE
    /\ leaked = {} /\ faults = 0 /\ edits = 0

Fault == faults < MaxFaults /\ faults' = faults + 1

NoFault == UNCHANGED faults

-----------------------------------------------------------------------------
(* A round: FetchConfiguration and Apply                                   *)

\* normalizeAppNames: unless the label says that the names are normalised.
normalizeAppNames == label # "true"

normalizeDirectorApplication(n) == IF normalizeAppNames THEN Normalize(n) ELSE n

Fetched == {n \in Names : director[n] # NoApp}

\* checkDuplicateDirectorApplications
Duplicated ==
    \E m, n \in Fetched : m # n /\ normalizeDirectorApplication(m) = normalizeDirectorApplication(n)

directorApplications ==
    [a \in Names |->
        IF \E n \in Fetched : normalizeDirectorApplication(n) = a
        THEN director[CHOOSE n \in Fetched : normalizeDirectorApplication(n) = a]
        ELSE NoApp]

\* The Director is asked.  Apply returns before it changes anything if two names are
\* the same, so such a round is no step, like one whose query fails.
FetchConfiguration ==
    /\ stage = "idle" /\ ~Duplicated
    /\ stage' = "fetched" /\ target' = directorApplications
    /\ UNCHANGED <<directorVars, clusterVars, listed, loop, todo, cur, workVars,
                   leaked, faults, edits>>

\* filterCompassApplications: CompassMetadata is set.
FromCompass(a) == apps[a].spec \in CompassSpecs

\* ApplicationExists, in the listing of this round.
ApplicationExists(a) == listed[a] # NoApp

\* The round is over, and its variables are gone.
EndRound ==
    /\ stage' = "idle" /\ target' = Nothing /\ listed' = Nothing
    /\ loop' = "create" /\ todo' = {}

\* getExistingRuntimeApplications, once; a failure ends the round.
ListApplications ==
    /\ stage = "fetched"
    /\ \/ /\ listed' = [a \in Names |-> IF FromCompass(a) THEN apps[a].spec ELSE NoApp]
          /\ stage' = "next" /\ loop' = "create"
          /\ todo' = {a \in Names : target[a] # NoApp /\ ~FromCompass(a)}
          /\ NoFault /\ UNCHANGED target
       \/ Fault /\ EndRound
    /\ UNCHANGED <<directorVars, clusterVars, cur, workVars, leaked, edits>>

\* Mutant: deletes what the Director does not have, whoever owns it.
ToDeleteOfAnyone == {a \in Names : apps[a].spec # NoApp /\ target[a] = NoApp}

\* deleteApplications
ToDelete == {a \in Names : ApplicationExists(a) /\ target[a] = NoApp}

\* Mutant: skips Applications whose resource would not change.
ToUpdateIfChanged ==
    {a \in Names : ApplicationExists(a) /\ target[a] # NoApp /\ listed[a] # Do(target[a])}

\* updateApplications
ToUpdate == {a \in Names : ApplicationExists(a) /\ target[a] # NoApp}

\* apply: the loops, one after the other, then the round is over.
NextLoop ==
    /\ stage = "next" /\ todo = {}
    /\ \/ /\ loop = "create" /\ loop' = "delete" /\ todo' = ToDelete
          /\ UNCHANGED <<stage, target, listed>>
       \/ /\ loop = "delete" /\ loop' = "update" /\ todo' = ToUpdate
          /\ UNCHANGED <<stage, target, listed>>
       \/ loop = "update" /\ EndRound
    /\ UNCHANGED <<directorVars, clusterVars, cur, workVars, leaked, faults, edits>>

-----------------------------------------------------------------------------
(* The secrets of the Application worked on                                *)

\* upsertCredentialsSecrets visits the bundles with credentials, with an API
\* definition or without.
CredentialsToUpsert(a) ==
    {s \in SecretNames : s.kind = "credentials" /\ s.app = a /\ target[a].creds[s.bundle] # None}

\* upsertRequestParametersSecrets
ParametersToUpsert(a) ==
    {s \in SecretNames : s.kind = "parameters" /\ s.app = a /\ target[a].params[s.bundle] # None}

\* Mutant: deletes every secret before it upserts.
AllCredentials(a) == getCredentialsSecretNames(a, listed[a])

\* updateCredentialsSecrets: deletedSecretNames
ObsoleteCredentials(a) ==
    getCredentialsSecretNames(a, listed[a]) \ getCredentialsSecretNames(a, Do(target[a]))

\* Mutant: compares with the Application as it is by now.
ObsoleteOfUpdated(a) ==
    getRequestParametersSecretNames(a, apps[a].spec)
        \ getRequestParametersSecretNames(a, Do(target[a]))

\* updateRequestParametersSecrets: deletedSecretNames
ObsoleteParameters(a) ==
    getRequestParametersSecretNames(a, listed[a])
        \ getRequestParametersSecretNames(a, Do(target[a]))

\* Work on the secrets of one kind: first some are deleted, then some upserted.
Begin(k, dropped, upserted) ==
    kind' = k /\ drop' = dropped /\ put' = upserted /\ owner' = 0 /\ err' = FALSE

\* The Application is done with.
Done == stage' = "next" /\ cur' = anyName /\ Begin("credentials", {}, {})

Working == stage \in {"create", "update", "delete"}

\* Delete of one secret; one that is not there is no error.  A failure is kept for the
\* result and the loop goes on.
DeleteSecret(s) ==
    /\ Working /\ s \in drop
    /\ drop' = drop \ {s}
    /\ \/ /\ secrets' = [secrets EXCEPT ![s] = NoSecret]
          /\ leaked' = leaked \ {s}
          /\ \/ NoFault /\ UNCHANGED err
             \/ Fault /\ err' = TRUE
       \/ /\ Fault /\ err' = TRUE /\ UNCHANGED secrets
          /\ leaked' = IF stage = "update" THEN leaked \cup {s} ELSE leaked
    /\ UNCHANGED <<directorVars, apps, uids, stage, roundVars, cur, kind, put, owner, edits>>

\* getApplicationUID, cached for the kind; without it no secret of the kind is written.
getApplicationUID ==
    /\ Working /\ drop = {} /\ put # {} /\ owner = 0
    /\ \/ /\ apps[cur].spec # NoApp /\ NoFault
          /\ owner' = apps[cur].uid /\ UNCHANGED <<put, err>>
       \/ /\ \/ apps[cur].spec = NoApp /\ NoFault
             \/ Fault
          /\ put' = {} /\ err' = TRUE /\ UNCHANGED owner
    /\ UNCHANGED <<directorVars, clusterVars, stage, roundVars, cur, kind, drop, leaked, edits>>

makeSecret(value) == [val |-> value, owner |-> owner]

\* Mutant: blank credentials are stored.
CredentialsPresent(value) == value # None

CredentialsProvided(value) == value # Blank

ShouldUpdate(s, value) == secrets[s].val # value

\* credentialsService.Upsert: a secret with the same data is left alone, whoever is
\* its owner.
UpsertCredentials(s) ==
    LET value == target[cur].creds[s.bundle]
    IN  IF /\ CredentialsProvided(value)
           /\ secrets[s] = NoSecret \/ ShouldUpdate(s, value)
        THEN [secrets EXCEPT ![s] = makeSecret(value)]
        ELSE secrets

\* requestParametersService.Upsert: the secret is always written.
UpsertParameters(s) == [secrets EXCEPT ![s] = makeSecret(target[cur].params[s.bundle])]

UpsertSecret(s) ==
    LET upserted == IF kind = "credentials" THEN UpsertCredentials(s) ELSE UpsertParameters(s)
    IN  /\ Working /\ drop = {} /\ s \in put /\ owner # 0
        /\ put' = put \ {s}
        /\ \/ secrets' = upserted /\ NoFault /\ UNCHANGED err
           \/ secrets' \in {secrets, upserted} /\ Fault /\ err' = TRUE
        /\ leaked' = IF s.bundle \in target[cur].apis THEN leaked \ {s} ELSE leaked \cup {s}
        /\ UNCHANGED <<directorVars, apps, uids, stage, roundVars, cur, kind, drop, owner, edits>>

-----------------------------------------------------------------------------
(* One Application                                                         *)

\* createApplication: the name must be free, and one that the API server takes; an
\* invalid one, possible when names are not normalised, is refused in every round.
createApplication(a) ==
    /\ stage = "next" /\ loop = "create" /\ a \in todo
    /\ todo' = todo \ {a}
    /\ \/ /\ apps[a].spec = NoApp /\ ValidName(a)
          /\ apps' = [apps EXCEPT ![a] = [spec |-> Do(target[a]), uid |-> uids + 1]]
          /\ uids' = uids + 1
          /\ \/ /\ stage' = "create" /\ cur' = a /\ NoFault
                /\ Begin("credentials", {}, CredentialsToUpsert(a))
             \/ Fault /\ Done
       \/ /\ ((apps[a].spec # NoApp \/ ~ValidName(a)) /\ NoFault) \/ Fault
          /\ Done /\ UNCHANGED <<apps, uids>>
    /\ UNCHANGED <<directorVars, secrets, target, listed, loop, leaked, edits>>

\* updateApplication: Get and Update of the resource, whoever owns it by now.
updateApplication(a) ==
    /\ stage = "next" /\ loop = "update" /\ a \in todo
    /\ todo' = todo \ {a}
    /\ \/ /\ apps[a].spec # NoApp
          /\ apps' = [apps EXCEPT ![a].spec = Do(target[a])]
          /\ \/ /\ stage' = "update" /\ cur' = a /\ NoFault
                /\ Begin("credentials", ObsoleteCredentials(a), CredentialsToUpsert(a))
                /\ UNCHANGED leaked
             \/ /\ Fault /\ Done
                /\ leaked' = leaked \cup ObsoleteCredentials(a) \cup ObsoleteParameters(a)
       \/ /\ (apps[a].spec = NoApp /\ NoFault) \/ Fault
          /\ Done /\ UNCHANGED <<apps, leaked>>
    /\ UNCHANGED <<directorVars, secrets, uids, target, listed, loop, edits>>

\* After the credentials come the request parameters; a creation stops at an error.
ContinueUpsert ==
    /\ stage \in {"create", "update"} /\ drop = {} /\ put = {}
    /\ IF kind = "credentials" /\ ~(stage = "create" /\ err)
       THEN /\ Begin("parameters", IF stage = "create" THEN {} ELSE ObsoleteParameters(cur),
                     ParametersToUpsert(cur))
            /\ UNCHANGED <<stage, cur>>
       ELSE Done
    /\ UNCHANGED <<directorVars, clusterVars, roundVars, leaked, faults, edits>>

\* deleteApplication: deleteRequestParametersSecrets comes first.
deleteApplication(a) ==
    /\ stage = "next" /\ loop = "delete" /\ a \in todo
    /\ todo' = todo \ {a} /\ cur' = a /\ stage' = "delete"
    /\ Begin("parameters", getRequestParametersSecretNames(a, listed[a]), {})
    /\ UNCHANGED <<directorVars, clusterVars, target, listed, loop, leaked, faults, edits>>

\* deleteCredentialsSecrets
deleteCredentialsSecrets ==
    /\ stage = "delete" /\ drop = {} /\ kind = "parameters"
    /\ Begin("credentials", getCredentialsSecretNames(cur, listed[cur]), {})
    /\ UNCHANGED <<directorVars, clusterVars, stage, roundVars, cur, leaked, faults, edits>>

\* Then the resource of that name, whoever owns it by now, even if secrets are left.
deleteResource ==
    /\ stage = "delete" /\ drop = {} /\ kind = "credentials"
    /\ Done
    /\ \/ apps' = [apps EXCEPT ![cur] = NoResource] /\ (NoFault \/ Fault)
       \/ UNCHANGED apps /\ Fault
    /\ UNCHANGED <<directorVars, secrets, uids, roundVars, leaked, edits>>

-----------------------------------------------------------------------------
(* Everyone else                                                           *)

Edit == edits < MaxEdits /\ edits' = edits + 1

DirectorChanges ==
    /\ Edit
    /\ \/ \E n \in Names, c \in Configs \cup {NoApp} :
              c # director[n] /\ director' = [director EXCEPT ![n] = c] /\ UNCHANGED label
       \/ label' \in {"true", "other"} \ {label} /\ UNCHANGED director
    /\ UNCHANGED <<clusterVars, stage, roundVars, cur, workVars, leaked, faults>>

\* A user removes an Application, or creates one.
UserDeletes(a) ==
    /\ Edit /\ apps[a].spec # NoApp
    /\ apps' = [apps EXCEPT ![a] = NoResource]
    /\ UNCHANGED <<directorVars, secrets, uids, stage, roundVars, cur, workVars, leaked, faults>>

UserCreates(a) ==
    /\ Edit /\ apps[a].spec = NoApp /\ ValidName(a)
    /\ apps' = [apps EXCEPT ![a] = [spec |-> Manual, uid |-> uids + 1]]
    /\ uids' = uids + 1
    /\ UNCHANGED <<directorVars, secrets, stage, roundVars, cur, workVars, leaked, faults>>

\* The garbage collector deletes a secret whose owner does not exist.
CollectGarbage(s) ==
    /\ secrets[s] # NoSecret /\ secrets[s].owner # apps[s.app].uid
    /\ secrets' = [secrets EXCEPT ![s] = NoSecret]
    /\ leaked' = leaked \ {s}
    /\ UNCHANGED <<directorVars, apps, uids, stage, roundVars, cur, workVars, faults, edits>>

\* Secrets that the new spec does not name and that are still to be deleted.
StillObsolete ==
    IF stage # "update" THEN {}
    ELSE drop \cup (IF kind = "credentials" THEN ObsoleteParameters(cur) ELSE {})

\* The process stops; the next round starts from the beginning.
Crash ==
    /\ stage # "idle" /\ Fault /\ EndRound
    /\ leaked' = leaked \cup StillObsolete
    /\ cur' = anyName /\ Begin("credentials", {}, {})
    /\ UNCHANGED <<directorVars, clusterVars, edits>>

-----------------------------------------------------------------------------

Round ==
    \/ FetchConfiguration \/ ListApplications \/ NextLoop
    \/ \E a \in Names : createApplication(a) \/ updateApplication(a) \/ deleteApplication(a)
    \/ \E s \in SecretNames : DeleteSecret(s) \/ UpsertSecret(s)
    \/ getApplicationUID \/ ContinueUpsert \/ deleteCredentialsSecrets \/ deleteResource

Next ==
    \/ Round
    \/ \E s \in SecretNames : CollectGarbage(s)
    \/ DirectorChanges \/ Crash
    \/ \E a \in Names : UserDeletes(a) \/ UserCreates(a)

\* Rounds are repeated (the reconciliations of CompassConnection) and run to their
\* end; the garbage collector works.
Fairness == WF_vars(Round) /\ WF_vars(\E s \in SecretNames : CollectGarbage(s))

Spec == Init /\ [][Next]_vars /\ Fairness

-----------------------------------------------------------------------------
(* Properties                                                              *)

Named(a) == getCredentialsSecretNames(a, apps[a].spec)
                \cup getRequestParametersSecretNames(a, apps[a].spec)

\* Between two rounds, every secret of one of Compass's Applications is named by it,
\* unless a failure kept the secret from being deleted or its bundle has no API
\* definition: only these stay behind (service.go:363 and service.go:391).
OnlyFailuresLeak ==
    stage = "idle" =>
        \A s \in SecretNames :
            FromCompass(s.app) /\ secrets[s].owner = apps[s.app].uid
                => s \in Named(s.app) \cup leaked

\* A secret that an Application names does not disappear under it, unless the
\* Director no longer has the Application or the Application was replaced and the
\* secret belonged to the one before: an update deletes no secret that the new spec
\* still names, and the uid that is read late protects what is written
\* (service.go:187, 232, 363).
CredentialsInUseStay ==
    [][\A s \in SecretNames :
         /\ secrets[s] # NoSecret /\ secrets'[s] = NoSecret
         /\ secrets[s].owner = apps[s.app].uid
         => s \notin Named(s.app) \/ target[s.app] = NoApp]_vars

\* The Application that the Director has under this name is on the cluster with its
\* secrets, or a user holds the name; without one, and under a name that the API
\* server does not take, nothing of Compass's is there.
Settled(a) ==
    LET config == IF ValidName(a) THEN directorApplications[a] ELSE NoApp
    IN  \/ apps[a].spec = Manual
        \/ /\ config = NoApp /\ apps[a].spec = NoApp
        \/ /\ config # NoApp /\ apps[a].spec = Do(config)
           /\ \A b \in config.apis :
                /\ config.creds[b] \in Versions =>
                       secrets[[kind |-> "credentials", app |-> a, bundle |-> b]].val
                           = config.creds[b]
                /\ config.params[b] \in Versions =>
                       secrets[[kind |-> "parameters", app |-> a, bundle |-> b]].val
                           = config.params[b]

\* Once the Director and the users rest, the cluster comes to agree with the Director
\* and stays so, whatever failed or crashed before: also after an error that
\* updateApplication overwrites (service.go:355), after a creation that stopped half
\* way, and after the garbage collector took credentials that were left unchanged for
\* a recreated Application (credentialsservice.go:102).  An Application whose name is
\* invalid fails in every round (service.go:164) and does not keep the others back.
Converges == <>[](Duplicated \/ \A a \in Names : Settled(a))

\* The Applications of the runtime change only as the Director wants them to, and
\* Compass touches only names that it owned when the round began.
Runtime == INSTANCE RuntimeApplications WITH
    Contents <- CompassSpecs,
    held     <- [a \in Names |-> apps[a].spec],
    wanted   <- [a \in Names |-> IF target[a] = NoApp THEN NoApp ELSE Do(target[a])],
    claimed  <- {a \in Names : ApplicationExists(a)},
    others   <- edits

RuntimeSpec == Runtime!Spec
=============================================================================
