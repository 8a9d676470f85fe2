--------------------------- MODULE KymaSyncProofs ---------------------------
(***************************************************************************)
(* The synchronisation of Applications, proved for every set of names,     *)
(* bundles and configurations and every bound: which secrets stay behind,  *)
(* that no secret in use is deleted, and that the agent changes the        *)
(* Applications only as RuntimeApplications allows.                        *)
(*                                                                         *)
(* The argument.  A round works from a listing that may be old.  Every     *)
(* loop visits only Applications that it is for (TodoInv), and one that    *)
(* the round has not changed yet is what was listed, or a user's           *)
(* (ListedInv).  A user's that has taken the name since has a new uid,     *)
(* which no secret can have as its owner yet (UserInv, UidInv).  So the    *)
(* secrets that an update finds under its Application are those that the   *)
(* listed spec names, and what the new spec does not name is exactly what  *)
(* the update deletes (SecretsInv).                                        *)
(*                                                                         *)
(* First the operators, then what the actions do to the resources and the  *)
(* secrets (the Effect lemmas), one lemma per part of the invariant with   *)
(* one case per action, the theorems, and the refinement.                  *)
(***************************************************************************)
EXTENDS KymaSyncInv, TLAPS

USE DEF directorVars, clusterVars, roundVars, workVars, NoFault

\* The spec of an Application of the Director is one of Compass's.
LEMMA DoFacts ==
  ASSUME NEW c \in Configs
  PROVE  Do(c) \in CompassSpecs /\ Do(c) # NoApp /\ Do(c) # Manual
  BY ContentsAssumption DEF CompassSpecs

\* No Application, and one of a user, are not what the Director returns.
LEMMA NoAppFacts ==
  /\ NoApp \notin CompassSpecs /\ Manual \notin CompassSpecs /\ NoApp # Manual
  /\ NoApp \notin Configs
  BY ContentsAssumption, ConfigsAssumption

\* There is a name.
LEMMA AnyNameFacts == anyName \in Names
  BY NamesAssumption DEF anyName

\* The fields of the name of a secret.
LEMMA SecretNameFields ==
  ASSUME NEW s \in SecretNames
  PROVE  s.kind \in Kinds /\ s.app \in Names /\ s.bundle \in Bundles
  BY DEF SecretNames

\* A spec has entries for bundles.
LEMMA SpecDomain ==
  ASSUME NEW spec \in CompassSpecs
  PROVE  DOMAIN spec \subseteq Bundles
<1>1. PICK c \in Configs : spec = Do(c)
  BY DEF CompassSpecs
<1>2. c.apis \subseteq Bundles
  BY ConfigsAssumption DEF ConfigType
<1> QED
  BY <1>1, <1>2 DEF Do

\* What a spec names are names of secrets.
LEMMA NamesAreSecrets ==
  ASSUME NEW a \in Names, NEW spec, NEW k \in Kinds
  PROVE  SecretsNamed(a, spec, k) \subseteq SecretNames
<1>1. CASE spec \in CompassSpecs
  BY <1>1, SpecDomain DEF SecretsNamed, SecretNames
<1>2. CASE spec \notin CompassSpecs
  BY <1>2 DEF SecretsNamed
<1> QED
  BY <1>1, <1>2

\* Which secrets a spec of Compass's names.
LEMMA NamedBy ==
  ASSUME NEW s \in SecretNames, NEW a \in Names, NEW spec \in CompassSpecs, NEW k \in Kinds
  PROVE  s \in SecretsNamed(a, spec, k) <=>
            s.kind = k /\ s.app = a /\ s.bundle \in DOMAIN spec /\ spec[s.bundle][k]
<1>1. s = [kind |-> s.kind, app |-> s.app, bundle |-> s.bundle]
  BY DEF SecretNames
<1> QED
  BY <1>1 DEF SecretsNamed

\* Which secrets the spec of a configuration names.
LEMMA DoNames ==
  ASSUME NEW s \in SecretNames, NEW a \in Names, NEW c \in Configs
  PROVE  /\ s \in getCredentialsSecretNames(a, Do(c)) <=>
              /\ s.kind = "credentials" /\ s.app = a
              /\ s.bundle \in c.apis /\ c.creds[s.bundle] # None
         /\ s \in getRequestParametersSecretNames(a, Do(c)) <=>
              /\ s.kind = "parameters" /\ s.app = a
              /\ s.bundle \in c.apis /\ c.params[s.bundle] # None
<1>1. DOMAIN Do(c) = c.apis
  BY DEF Do
<1>2. ASSUME s.bundle \in c.apis
      PROVE  /\ Do(c)[s.bundle]["credentials"] <=> c.creds[s.bundle] # None
             /\ Do(c)[s.bundle]["parameters"] <=> c.params[s.bundle] # None
  BY <1>2 DEF Do, toAPIEntry, toCredential, toRequestParametersSecretName
<1>3. "credentials" \in Kinds /\ "parameters" \in Kinds
  BY DEF Kinds
<1> QED
  BY <1>1, <1>2, <1>3, NamedBy, DoFacts DEF getCredentialsSecretNames,
     getRequestParametersSecretNames

\* The Applications of the Director under the names of the cluster.
LEMMA FetchedConfigs ==
  DirectorOK => directorApplications \in [Names -> Configs \cup {NoApp}]
<1> SUFFICES ASSUME DirectorOK, NEW a \in Names
             PROVE  directorApplications[a] \in Configs \cup {NoApp}
  BY DEF directorApplications
<1>1. CASE \E n \in Fetched : normalizeDirectorApplication(n) = a
  <2>1. (CHOOSE n \in Fetched : normalizeDirectorApplication(n) = a) \in Names
    BY <1>1 DEF Fetched
  <2> QED
    BY <1>1, <2>1 DEF directorApplications, DirectorOK
<1>2. CASE ~ \E n \in Fetched : normalizeDirectorApplication(n) = a
  BY <1>2 DEF directorApplications
<1> QED
  BY <1>1, <1>2
\* An Application, or none, in the types.
LEMMA NothingFacts ==
  /\ Nothing \in [Names -> Configs \cup {NoApp}]
  /\ Nothing \in [Names -> CompassSpecs \cup {NoApp}]
  BY DEF Nothing

\* No resource and no secret.
LEMMA NoneFacts ==
  /\ NoResource \in ResourceType /\ NoResource.spec = NoApp /\ NoResource.uid = 0
  /\ NoSecret \in SecretType /\ NoSecret.val = None /\ NoSecret.owner = 0
  BY DEF NoResource, ResourceType, NoSecret, SecretType

\* The sets of secrets that the work on an Application is about.
LEMMA SecretSets ==
  ASSUME NEW a \in Names
  PROVE  /\ \A spec : getCredentialsSecretNames(a, spec) \subseteq SecretNames
         /\ \A spec : getRequestParametersSecretNames(a, spec) \subseteq SecretNames
         /\ CredentialsToUpsert(a) \subseteq SecretNames
         /\ ParametersToUpsert(a) \subseteq SecretNames
         /\ ObsoleteCredentials(a) \subseteq SecretNames
         /\ ObsoleteParameters(a) \subseteq SecretNames
<1>1. "credentials" \in Kinds /\ "parameters" \in Kinds
  BY DEF Kinds
<1>2. /\ \A spec : getCredentialsSecretNames(a, spec) \subseteq SecretNames
      /\ \A spec : getRequestParametersSecretNames(a, spec) \subseteq SecretNames
  BY <1>1, NamesAreSecrets DEF getCredentialsSecretNames, getRequestParametersSecretNames
<1>3. /\ CredentialsToUpsert(a) \subseteq SecretNames
      /\ ParametersToUpsert(a) \subseteq SecretNames
  BY DEF CredentialsToUpsert, ParametersToUpsert
<1> QED
  BY <1>2, <1>3 DEF ObsoleteCredentials, ObsoleteParameters

\* The fields of a resource.
LEMMA ResourceFields ==
  ASSUME AppsOK, NEW a \in Names
  PROVE  apps[a].spec \in CompassSpecs \cup {NoApp, Manual} /\ apps[a].uid \in Nat
  BY DEF AppsOK, ResourceType

\* The fields of a secret.
LEMMA SecretFields ==
  ASSUME SecretsOK, NEW s \in SecretNames
  PROVE  secrets[s].val \in Versions \cup {None} /\ secrets[s].owner \in Nat
  BY DEF SecretsOK, SecretType

\* What an upsert writes has the type of a secret.
LEMMA UpsertedSecret ==
  ASSUME SecretsOK, RoundOK, WorkOK, target[cur] # NoApp, NEW s \in SecretNames
  PROVE  /\ UpsertCredentials(s) \in [SecretNames -> SecretType]
         /\ UpsertParameters(s) \in [SecretNames -> SecretType]
<1>1. target[cur] \in ConfigType
  BY ConfigsAssumption DEF RoundOK, WorkOK
<1>2. s.bundle \in Bundles
  BY SecretNameFields
<1>3. /\ target[cur].creds[s.bundle] \in Versions \cup {Blank, None}
      /\ target[cur].params[s.bundle] \in Versions \cup {None}
  BY <1>1, <1>2 DEF ConfigType
<1>4. ASSUME NEW v \in Versions \cup {None} PROVE makeSecret(v) \in SecretType
  BY DEF makeSecret, SecretType, WorkOK
<1>5. UpsertParameters(s) \in [SecretNames -> SecretType]
  BY <1>3, <1>4 DEF UpsertParameters, SecretsOK
<1>6. CASE CredentialsProvided(target[cur].creds[s.bundle])
  BY <1>3, <1>4, <1>5, <1>6 DEF UpsertCredentials, CredentialsProvided, SecretsOK
<1>7. CASE ~CredentialsProvided(target[cur].creds[s.bundle])
  BY <1>5, <1>7 DEF UpsertCredentials, SecretsOK
<1> QED
  BY <1>6, <1>7

\* The Director keeps its type.
LEMMA DirectorStep == DirectorOK /\ [Next]_vars => DirectorOK'
<1> SUFFICES ASSUME DirectorOK, [Next]_vars PROVE DirectorOK'
  OBVIOUS
<1> USE DEF DirectorOK
<1>1. CASE FetchConfiguration
  BY <1>1 DEF FetchConfiguration
<1>2. CASE ListApplications
  BY <1>2 DEF ListApplications, EndRound, Fault
<1>3. CASE NextLoop
  BY <1>3 DEF NextLoop, EndRound
<1>4. ASSUME NEW a \in Names, createApplication(a) PROVE DirectorOK'
  BY <1>4 DEF createApplication, Done, Begin, Fault
<1>5. ASSUME NEW a \in Names, updateApplication(a) PROVE DirectorOK'
  BY <1>5 DEF updateApplication, Done, Begin, Fault
<1>6. ASSUME NEW a \in Names, deleteApplication(a) PROVE DirectorOK'
  BY <1>6 DEF deleteApplication, Begin
<1>7. ASSUME NEW s \in SecretNames, DeleteSecret(s) PROVE DirectorOK'
  BY <1>7 DEF DeleteSecret, Fault
<1>8. ASSUME NEW s \in SecretNames, UpsertSecret(s) PROVE DirectorOK'
  BY <1>8 DEF UpsertSecret, Fault
<1>9. CASE getApplicationUID
  BY <1>9 DEF getApplicationUID, Fault
<1>10. CASE ContinueUpsert
  BY <1>10 DEF ContinueUpsert, Done, Begin
<1>11. CASE deleteCredentialsSecrets
  BY <1>11 DEF deleteCredentialsSecrets, Begin
<1>12. CASE deleteResource
  BY <1>12 DEF deleteResource, Done, Begin, Fault
<1>13. ASSUME NEW s \in SecretNames, CollectGarbage(s) PROVE DirectorOK'
  BY <1>13 DEF CollectGarbage
<1>14. CASE DirectorChanges
  BY <1>14 DEF DirectorChanges, Edit
<1>15. CASE Crash
  BY <1>15 DEF Crash, EndRound, Begin, Fault
<1>16. ASSUME NEW a \in Names, UserDeletes(a) PROVE DirectorOK'
  BY <1>16 DEF UserDeletes, Edit
<1>17. ASSUME NEW a \in Names, UserCreates(a) PROVE DirectorOK'
  BY <1>17 DEF UserCreates, Edit
<1>18. CASE UNCHANGED vars
  BY <1>18 DEF vars
<1> QED
  BY <1>1, <1>2, <1>3, <1>4, <1>5, <1>6, <1>7, <1>8, <1>9, <1>10, <1>11, <1>12, <1>13,
     <1>14, <1>15, <1>16, <1>17, <1>18 DEF Next, Round

\* The resources keep their type.
LEMMA AppsStep == AppsOK /\ RoundOK /\ WorkOK /\ TodoInv /\ [Next]_vars => AppsOK'
<1> SUFFICES ASSUME AppsOK, RoundOK, WorkOK, TodoInv, [Next]_vars PROVE AppsOK'
  OBVIOUS
<1> USE NoneFacts DEF AppsOK
<1>1. CASE FetchConfiguration
  BY <1>1 DEF FetchConfiguration
<1>2. CASE ListApplications
  BY <1>2 DEF ListApplications, EndRound, Fault
<1>3. CASE NextLoop
  BY <1>3 DEF NextLoop, EndRound
<1>4. ASSUME NEW a \in Names, createApplication(a) PROVE AppsOK'
  <2>1. CASE UNCHANGED <<apps, uids>>
    BY <2>1
  <2>2. CASE /\ apps' = [apps EXCEPT ![a] = [spec |-> Do(target[a]), uid |-> uids + 1]]
             /\ uids' = uids + 1
    <3>1. target[a] \in Configs
      BY <1>4 DEF createApplication, TodoInv, ForLoop, RoundOK
    <3>2. [spec |-> Do(target[a]), uid |-> uids + 1] \in ResourceType
      BY <3>1, DoFacts DEF ResourceType
    <3> QED
      BY <2>2, <3>2
  <2> QED
    BY <1>4, <2>1, <2>2 DEF createApplication
<1>5. ASSUME NEW a \in Names, updateApplication(a) PROVE AppsOK'
  <2>1. CASE UNCHANGED <<apps, uids>>
    BY <2>1
  <2>2. CASE apps' = [apps EXCEPT ![a].spec = Do(target[a])] /\ uids' = uids
    <3>1. target[a] \in Configs
      BY <1>5 DEF updateApplication, TodoInv, ForLoop, RoundOK
    <3> QED
      BY <2>2, <3>1, DoFacts DEF ResourceType
  <2> QED
    BY <1>5, <2>1, <2>2 DEF updateApplication
<1>6. ASSUME NEW a \in Names, deleteApplication(a) PROVE AppsOK'
  BY <1>6 DEF deleteApplication, Begin
<1>7. ASSUME NEW s \in SecretNames, DeleteSecret(s) PROVE AppsOK'
  BY <1>7 DEF DeleteSecret, Fault
<1>8. ASSUME NEW s \in SecretNames, UpsertSecret(s) PROVE AppsOK'
  BY <1>8 DEF UpsertSecret, Fault
<1>9. CASE getApplicationUID
  BY <1>9 DEF getApplicationUID, Fault
<1>10. CASE ContinueUpsert
  BY <1>10 DEF ContinueUpsert, Done, Begin
<1>11. CASE deleteCredentialsSecrets
  BY <1>11 DEF deleteCredentialsSecrets, Begin
<1>12. CASE deleteResource
  BY <1>12 DEF deleteResource, WorkOK
<1>13. ASSUME NEW s \in SecretNames, CollectGarbage(s) PROVE AppsOK'
  BY <1>13 DEF CollectGarbage
<1>14. CASE DirectorChanges
  BY <1>14 DEF DirectorChanges, Edit
<1>15. CASE Crash
  BY <1>15 DEF Crash, EndRound, Begin, Fault
<1>16. ASSUME NEW a \in Names, UserDeletes(a) PROVE AppsOK'
  BY <1>16 DEF UserDeletes
<1>17. ASSUME NEW a \in Names, UserCreates(a) PROVE AppsOK'
  <2>1. [spec |-> Manual, uid |-> uids + 1] \in ResourceType
    BY DEF ResourceType
  <2> QED
    BY <1>17, <2>1 DEF UserCreates
<1>18. CASE UNCHANGED vars
  BY <1>18 DEF vars
<1> QED
  BY <1>1, <1>2, <1>3, <1>4, <1>5, <1>6, <1>7, <1>8, <1>9, <1>10, <1>11, <1>12, <1>13,
     <1>14, <1>15, <1>16, <1>17, <1>18 DEF Next, Round

\* The secrets keep their type.
LEMMA SecretsStep ==
  /\ SecretsOK /\ RoundOK /\ WorkOK /\ StageInv /\ TodoInv /\ WorkInv
  /\ [Next]_vars
  => SecretsOK'
<1> SUFFICES ASSUME SecretsOK, RoundOK, WorkOK, StageInv, TodoInv, WorkInv, [Next]_vars
             PROVE  SecretsOK'
  OBVIOUS
<1> USE NoneFacts DEF SecretsOK
<1>1. CASE FetchConfiguration
  BY <1>1 DEF FetchConfiguration
<1>2. CASE ListApplications
  BY <1>2 DEF ListApplications, EndRound, Fault
<1>3. CASE NextLoop
  BY <1>3 DEF NextLoop, EndRound
<1>4. ASSUME NEW a \in Names, createApplication(a) PROVE SecretsOK'
  BY <1>4 DEF createApplication, Done, Begin, Fault
<1>5. ASSUME NEW a \in Names, updateApplication(a) PROVE SecretsOK'
  BY <1>5 DEF updateApplication, Done, Begin, Fault
<1>6. ASSUME NEW a \in Names, deleteApplication(a) PROVE SecretsOK'
  BY <1>6 DEF deleteApplication, Begin
<1>7. ASSUME NEW s \in SecretNames, DeleteSecret(s) PROVE SecretsOK'
  BY <1>7 DEF DeleteSecret
<1>8. ASSUME NEW s \in SecretNames, UpsertSecret(s) PROVE SecretsOK'
  <2>1. target[cur] # NoApp
    BY <1>8 DEF UpsertSecret, Working, StageInv, TodoInv, ForLoop, WorkInv
  <2> QED
    BY <1>8, <2>1, UpsertedSecret DEF UpsertSecret
<1>9. CASE getApplicationUID
  BY <1>9 DEF getApplicationUID, Fault
<1>10. CASE ContinueUpsert
  BY <1>10 DEF ContinueUpsert, Done, Begin
<1>11. CASE deleteCredentialsSecrets
  BY <1>11 DEF deleteCredentialsSecrets, Begin
<1>12. CASE deleteResource
  BY <1>12 DEF deleteResource, Done, Begin, Fault
<1>13. ASSUME NEW s \in SecretNames, CollectGarbage(s) PROVE SecretsOK'
  BY <1>13 DEF CollectGarbage
<1>14. CASE DirectorChanges
  BY <1>14 DEF DirectorChanges, Edit
<1>15. CASE Crash
  BY <1>15 DEF Crash, EndRound, Begin, Fault
<1>16. ASSUME NEW a \in Names, UserDeletes(a) PROVE SecretsOK'
  BY <1>16 DEF UserDeletes, Edit
<1>17. ASSUME NEW a \in Names, UserCreates(a) PROVE SecretsOK'
  BY <1>17 DEF UserCreates, Edit
<1>18. CASE UNCHANGED vars
  BY <1>18 DEF vars
<1> QED
  BY <1>1, <1>2, <1>3, <1>4, <1>5, <1>6, <1>7, <1>8, <1>9, <1>10, <1>11, <1>12, <1>13,
     <1>14, <1>15, <1>16, <1>17, <1>18 DEF Next, Round

\* The round keeps its type.
LEMMA RoundStep == DirectorOK /\ AppsOK /\ RoundOK /\ [Next]_vars => RoundOK'
<1> SUFFICES ASSUME DirectorOK, AppsOK, RoundOK, [Next]_vars PROVE RoundOK'
  OBVIOUS
<1> USE FetchedConfigs, NothingFacts DEF RoundOK
<1>1. CASE FetchConfiguration
  BY <1>1 DEF FetchConfiguration
<1>2. CASE ListApplications
  <2>1. [a \in Names |-> IF FromCompass(a) THEN apps[a].spec ELSE NoApp]
          \in [Names -> CompassSpecs \cup {NoApp}]
    BY DEF FromCompass
  <2> QED
    BY <1>2, <2>1 DEF ListApplications, EndRound
<1>3. CASE NextLoop
  BY <1>3 DEF NextLoop, EndRound, ToDelete, ToUpdate
<1>4. ASSUME NEW a \in Names, createApplication(a) PROVE RoundOK'
  BY <1>4 DEF createApplication, Done, Begin, Fault
<1>5. ASSUME NEW a \in Names, updateApplication(a) PROVE RoundOK'
  BY <1>5 DEF updateApplication, Done, Begin, Fault
<1>6. ASSUME NEW a \in Names, deleteApplication(a) PROVE RoundOK'
  BY <1>6 DEF deleteApplication, Begin
<1>7. ASSUME NEW s \in SecretNames, DeleteSecret(s) PROVE RoundOK'
  BY <1>7 DEF DeleteSecret, Fault
<1>8. ASSUME NEW s \in SecretNames, UpsertSecret(s) PROVE RoundOK'
  BY <1>8 DEF UpsertSecret, Fault
<1>9. CASE getApplicationUID
  BY <1>9 DEF getApplicationUID, Fault
<1>10. CASE ContinueUpsert
  BY <1>10 DEF ContinueUpsert, Done, Begin
<1>11. CASE deleteCredentialsSecrets
  BY <1>11 DEF deleteCredentialsSecrets, Begin
<1>12. CASE deleteResource
  BY <1>12 DEF deleteResource, Done, Begin, Fault
<1>13. ASSUME NEW s \in SecretNames, CollectGarbage(s) PROVE RoundOK'
  BY <1>13 DEF CollectGarbage
<1>14. CASE DirectorChanges
  BY <1>14 DEF DirectorChanges, Edit
<1>15. CASE Crash
  BY <1>15 DEF Crash, EndRound, Begin, Fault
<1>16. ASSUME NEW a \in Names, UserDeletes(a) PROVE RoundOK'
  BY <1>16 DEF UserDeletes, Edit
<1>17. ASSUME NEW a \in Names, UserCreates(a) PROVE RoundOK'
  BY <1>17 DEF UserCreates, Edit
<1>18. CASE UNCHANGED vars
  BY <1>18 DEF vars
<1> QED
  BY <1>1, <1>2, <1>3, <1>4, <1>5, <1>6, <1>7, <1>8, <1>9, <1>10, <1>11, <1>12, <1>13,
     <1>14, <1>15, <1>16, <1>17, <1>18 DEF Next, Round

\* The work keeps its type.
LEMMA WorkStep == AppsOK /\ RoundOK /\ WorkOK /\ [Next]_vars => WorkOK'
<1> SUFFICES ASSUME AppsOK, RoundOK, WorkOK, [Next]_vars PROVE WorkOK'
  OBVIOUS
<1> USE AnyNameFacts, SecretSets DEF WorkOK, Kinds
<1>1. CASE FetchConfiguration
  BY <1>1 DEF FetchConfiguration
<1>2. CASE ListApplications
  BY <1>2 DEF ListApplications, EndRound, Fault
<1>3. CASE NextLoop
  BY <1>3 DEF NextLoop, EndRound
<1>4. ASSUME NEW a \in Names, createApplication(a) PROVE WorkOK'
  <2>1. CASE Done
    BY <2>1 DEF Done, Begin
  <2>2. CASE cur' = a /\ Begin("credentials", {}, CredentialsToUpsert(a))
    BY <2>2 DEF Begin
  <2> QED
    BY <1>4, <2>1, <2>2 DEF createApplication
<1>5. ASSUME NEW a \in Names, updateApplication(a) PROVE WorkOK'
  <2>1. CASE Done
    BY <2>1 DEF Done, Begin
  <2>2. CASE /\ cur' = a
             /\ Begin("credentials", ObsoleteCredentials(a), CredentialsToUpsert(a))
    BY <2>2 DEF Begin
  <2> QED
    BY <1>5, <2>1, <2>2 DEF updateApplication
<1>6. ASSUME NEW a \in Names, deleteApplication(a) PROVE WorkOK'
  BY <1>6 DEF deleteApplication, Begin
<1>7. ASSUME NEW s \in SecretNames, DeleteSecret(s) PROVE WorkOK'
  BY <1>7 DEF DeleteSecret, Fault
<1>8. ASSUME NEW s \in SecretNames, UpsertSecret(s) PROVE WorkOK'
  BY <1>8 DEF UpsertSecret, Fault
<1>9. CASE getApplicationUID
  BY <1>9, ResourceFields DEF getApplicationUID
<1>10. CASE ContinueUpsert
  <2>1. CASE Done
    BY <2>1 DEF Done, Begin
  <2>2. CASE /\ cur' = cur
             /\ Begin("parameters", IF stage = "create" THEN {} ELSE ObsoleteParameters(cur),
                      ParametersToUpsert(cur))
    BY <2>2 DEF Begin
  <2> QED
    BY <1>10, <2>1, <2>2 DEF ContinueUpsert
<1>11. CASE deleteCredentialsSecrets
  BY <1>11 DEF deleteCredentialsSecrets, Begin
<1>12. CASE deleteResource
  BY <1>12 DEF deleteResource, Done, Begin, Fault
<1>13. ASSUME NEW s \in SecretNames, CollectGarbage(s) PROVE WorkOK'
  BY <1>13 DEF CollectGarbage
<1>14. CASE DirectorChanges
  BY <1>14 DEF DirectorChanges, Edit
<1>15. CASE Crash
  BY <1>15 DEF Crash, EndRound, Begin, Fault
<1>16. ASSUME NEW a \in Names, UserDeletes(a) PROVE WorkOK'
  BY <1>16 DEF UserDeletes, Edit
<1>17. ASSUME NEW a \in Names, UserCreates(a) PROVE WorkOK'
  BY <1>17 DEF UserCreates, Edit
<1>18. CASE UNCHANGED vars
  BY <1>18 DEF vars
<1> QED
  BY <1>1, <1>2, <1>3, <1>4, <1>5, <1>6, <1>7, <1>8, <1>9, <1>10, <1>11, <1>12, <1>13,
     <1>14, <1>15, <1>16, <1>17, <1>18 DEF Next, Round

\* The history keeps its type.
LEMMA HistoryStep == RoundOK /\ WorkOK /\ HistoryOK /\ [Next]_vars => HistoryOK'
<1> SUFFICES ASSUME RoundOK, WorkOK, HistoryOK, [Next]_vars PROVE HistoryOK'
  OBVIOUS
<1> USE BoundsAssumption DEF HistoryOK
<1>1. CASE FetchConfiguration
  BY <1>1 DEF FetchConfiguration
<1>2. CASE ListApplications
  BY <1>2 DEF ListApplications, EndRound, Fault
<1>3. CASE NextLoop
  BY <1>3 DEF NextLoop, EndRound
<1>4. ASSUME NEW a \in Names, createApplication(a) PROVE HistoryOK'
  BY <1>4 DEF createApplication, Done, Begin, Fault
<1>5. ASSUME NEW a \in Names, updateApplication(a) PROVE HistoryOK'
  BY <1>5, SecretSets DEF updateApplication, Fault
<1>6. ASSUME NEW a \in Names, deleteApplication(a) PROVE HistoryOK'
  BY <1>6 DEF deleteApplication, Begin
<1>7. ASSUME NEW s \in SecretNames, DeleteSecret(s) PROVE HistoryOK'
  BY <1>7 DEF DeleteSecret, Fault
<1>8. ASSUME NEW s \in SecretNames, UpsertSecret(s) PROVE HistoryOK'
  BY <1>8 DEF UpsertSecret, Fault
<1>9. CASE getApplicationUID
  BY <1>9 DEF getApplicationUID, Fault
<1>10. CASE ContinueUpsert
  BY <1>10 DEF ContinueUpsert, Done, Begin
<1>11. CASE deleteCredentialsSecrets
  BY <1>11 DEF deleteCredentialsSecrets, Begin
<1>12. CASE deleteResource
  BY <1>12 DEF deleteResource, Done, Begin, Fault
<1>13. ASSUME NEW s \in SecretNames, CollectGarbage(s) PROVE HistoryOK'
  BY <1>13 DEF CollectGarbage
<1>14. CASE DirectorChanges
  BY <1>14 DEF DirectorChanges, Edit
<1>15. CASE Crash
  BY <1>15, SecretSets DEF Crash, Fault, StillObsolete, WorkOK
<1>16. ASSUME NEW a \in Names, UserDeletes(a) PROVE HistoryOK'
  BY <1>16 DEF UserDeletes, Edit
<1>17. ASSUME NEW a \in Names, UserCreates(a) PROVE HistoryOK'
  BY <1>17 DEF UserCreates, Edit
<1>18. CASE UNCHANGED vars
  BY <1>18 DEF vars
<1> QED
  BY <1>1, <1>2, <1>3, <1>4, <1>5, <1>6, <1>7, <1>8, <1>9, <1>10, <1>11, <1>12, <1>13,
     <1>14, <1>15, <1>16, <1>17, <1>18 DEF Next, Round

\* The sets of secrets depend on the round and the Application only.
LEMMA SetsKeep ==
  ASSUME UNCHANGED <<target, listed, cur, kind>>
  PROVE  Upserted' = Upserted /\ Obsolete' = Obsolete
  BY DEF Upserted, Obsolete, CredentialsToUpsert, ParametersToUpsert, ObsoleteCredentials,
     ObsoleteParameters

\* They are those of the kind that is worked on next.
LEMMA SetsOfNext ==
  ASSUME UNCHANGED <<target, listed>>
  PROVE  /\ kind' = "credentials" =>
              /\ Upserted' = CredentialsToUpsert(cur')
              /\ Obsolete' = ObsoleteCredentials(cur')
         /\ kind' = "parameters" =>
              /\ Upserted' = ParametersToUpsert(cur')
              /\ Obsolete' = ObsoleteParameters(cur')
  BY DEF Upserted, Obsolete, CredentialsToUpsert, ParametersToUpsert, ObsoleteCredentials,
     ObsoleteParameters

\* What a spec names belongs to the Application.
LEMMA NamedBelongs ==
  ASSUME NEW a, NEW spec, NEW k, NEW s \in SecretsNamed(a, spec, k)
  PROVE  s.app = a
  BY DEF SecretsNamed

\* What is known between two rounds, and the loop.
LEMMA StageStep == RoundOK /\ StageInv /\ [Next]_vars => StageInv'
<1> SUFFICES ASSUME RoundOK, StageInv, [Next]_vars PROVE StageInv'
  OBVIOUS
<1> USE DEF StageInv, Working
<1>1. CASE FetchConfiguration
  BY <1>1 DEF FetchConfiguration
<1>2. CASE ListApplications
  BY <1>2 DEF ListApplications, EndRound, Fault
<1>3. CASE NextLoop
  BY <1>3 DEF NextLoop, EndRound
<1>4. ASSUME NEW a \in Names, createApplication(a) PROVE StageInv'
  BY <1>4 DEF createApplication, Done, Begin, Fault
<1>5. ASSUME NEW a \in Names, updateApplication(a) PROVE StageInv'
  BY <1>5 DEF updateApplication, Done, Begin, Fault
<1>6. ASSUME NEW a \in Names, deleteApplication(a) PROVE StageInv'
  BY <1>6 DEF deleteApplication, Begin
<1>7. ASSUME NEW s \in SecretNames, DeleteSecret(s) PROVE StageInv'
  BY <1>7 DEF DeleteSecret, Fault
<1>8. ASSUME NEW s \in SecretNames, UpsertSecret(s) PROVE StageInv'
  BY <1>8 DEF UpsertSecret, Fault
<1>9. CASE getApplicationUID
  BY <1>9 DEF getApplicationUID, Fault
<1>10. CASE ContinueUpsert
  BY <1>10 DEF ContinueUpsert, Done, Begin
<1>11. CASE deleteCredentialsSecrets
  BY <1>11 DEF deleteCredentialsSecrets, Begin
<1>12. CASE deleteResource
  BY <1>12 DEF deleteResource, Done, Begin, Fault
<1>13. ASSUME NEW s \in SecretNames, CollectGarbage(s) PROVE StageInv'
  BY <1>13 DEF CollectGarbage
<1>14. CASE DirectorChanges
  BY <1>14 DEF DirectorChanges, Edit
<1>15. CASE Crash
  BY <1>15 DEF Crash, EndRound, Begin, Fault
<1>16. ASSUME NEW a \in Names, UserDeletes(a) PROVE StageInv'
  BY <1>16 DEF UserDeletes, Edit
<1>17. ASSUME NEW a \in Names, UserCreates(a) PROVE StageInv'
  BY <1>17 DEF UserCreates, Edit
<1>18. CASE UNCHANGED vars
  BY <1>18 DEF vars
<1> QED
  BY <1>1, <1>2, <1>3, <1>4, <1>5, <1>6, <1>7, <1>8, <1>9, <1>10, <1>11, <1>12, <1>13,
     <1>14, <1>15, <1>16, <1>17, <1>18 DEF Next, Round

\* Every loop visits the Applications it is for.
LEMMA TodoStep ==
  AppsOK /\ RoundOK /\ WorkOK /\ StageInv /\ TodoInv /\ [Next]_vars => TodoInv'
<1> SUFFICES ASSUME AppsOK, RoundOK, WorkOK, StageInv, TodoInv, [Next]_vars PROVE TodoInv'
  OBVIOUS
<1> USE DEF TodoInv, ForLoop, Working, StageInv
<1>1. CASE FetchConfiguration
  BY <1>1 DEF FetchConfiguration
<1>2. CASE ListApplications
  BY <1>2 DEF ListApplications, EndRound, Fault
<1>3. CASE NextLoop
  BY <1>3 DEF NextLoop, EndRound, ToDelete, ToUpdate, ApplicationExists
<1>4. ASSUME NEW a \in Names, createApplication(a) PROVE TodoInv'
  BY <1>4 DEF createApplication, Done, Begin, Fault
<1>5. ASSUME NEW a \in Names, updateApplication(a) PROVE TodoInv'
  BY <1>5 DEF updateApplication, Done, Begin, Fault
<1>6. ASSUME NEW a \in Names, deleteApplication(a) PROVE TodoInv'
  BY <1>6 DEF deleteApplication, Begin
<1>7. ASSUME NEW s \in SecretNames, DeleteSecret(s) PROVE TodoInv'
  BY <1>7 DEF DeleteSecret, Fault
<1>8. ASSUME NEW s \in SecretNames, UpsertSecret(s) PROVE TodoInv'
  BY <1>8 DEF UpsertSecret, Fault
<1>9. CASE getApplicationUID
  BY <1>9 DEF getApplicationUID, Fault
<1>10. CASE ContinueUpsert
  BY <1>10 DEF ContinueUpsert, Done, Begin
<1>11. CASE deleteCredentialsSecrets
  BY <1>11 DEF deleteCredentialsSecrets, Begin
<1>12. CASE deleteResource
  BY <1>12 DEF deleteResource, Done, Begin, Fault
<1>13. ASSUME NEW s \in SecretNames, CollectGarbage(s) PROVE TodoInv'
  BY <1>13 DEF CollectGarbage
<1>14. CASE DirectorChanges
  BY <1>14 DEF DirectorChanges, Edit
<1>15. CASE Crash
  BY <1>15 DEF Crash, EndRound, Begin, Fault
<1>16. ASSUME NEW a \in Names, UserDeletes(a) PROVE TodoInv'
  BY <1>16 DEF UserDeletes, Edit
<1>17. ASSUME NEW a \in Names, UserCreates(a) PROVE TodoInv'
  BY <1>17 DEF UserCreates, Edit
<1>18. CASE UNCHANGED vars
  BY <1>18 DEF vars
<1> QED
  BY <1>1, <1>2, <1>3, <1>4, <1>5, <1>6, <1>7, <1>8, <1>9, <1>10, <1>11, <1>12, <1>13,
     <1>14, <1>15, <1>16, <1>17, <1>18 DEF Next, Round

\* The secrets still to be handled are those of the Application.
LEMMA WorkInvStep == RoundOK /\ WorkOK /\ WorkInv /\ [Next]_vars => WorkInv'
<1> SUFFICES ASSUME RoundOK, WorkOK, WorkInv, [Next]_vars PROVE WorkInv'
  OBVIOUS
<1> USE DEF WorkInv, Working
<1>1. CASE FetchConfiguration
  BY <1>1 DEF FetchConfiguration
<1>2. CASE ListApplications
  BY <1>2 DEF ListApplications, EndRound, Fault
<1>3. CASE NextLoop
  BY <1>3 DEF NextLoop, EndRound
<1>4. ASSUME NEW a \in Names, createApplication(a) PROVE WorkInv'
  BY <1>4, SetsOfNext DEF createApplication, Done, Begin
<1>5. ASSUME NEW a \in Names, updateApplication(a) PROVE WorkInv'
  BY <1>5, SetsOfNext DEF updateApplication, Done, Begin
<1>6. ASSUME NEW a \in Names, deleteApplication(a) PROVE WorkInv'
  BY <1>6, NamedBelongs DEF deleteApplication, Begin, getRequestParametersSecretNames
<1>7. ASSUME NEW s \in SecretNames, DeleteSecret(s) PROVE WorkInv'
  BY <1>7, SetsKeep DEF DeleteSecret
<1>8. ASSUME NEW s \in SecretNames, UpsertSecret(s) PROVE WorkInv'
  BY <1>8, SetsKeep DEF UpsertSecret
<1>9. CASE getApplicationUID
  BY <1>9, SetsKeep DEF getApplicationUID
<1>10. CASE ContinueUpsert
  BY <1>10, SetsOfNext DEF ContinueUpsert, Done, Begin
<1>11. CASE deleteCredentialsSecrets
  BY <1>11, NamedBelongs DEF deleteCredentialsSecrets, Begin, getCredentialsSecretNames
<1>12. CASE deleteResource
  BY <1>12 DEF deleteResource, Done, Begin, Fault
<1>13. ASSUME NEW s \in SecretNames, CollectGarbage(s) PROVE WorkInv'
  BY <1>13, SetsKeep DEF CollectGarbage
<1>14. CASE DirectorChanges
  BY <1>14, SetsKeep DEF DirectorChanges
<1>15. CASE Crash
  BY <1>15 DEF Crash, EndRound, Begin, Fault
<1>16. ASSUME NEW a \in Names, UserDeletes(a) PROVE WorkInv'
  BY <1>16, SetsKeep DEF UserDeletes
<1>17. ASSUME NEW a \in Names, UserCreates(a) PROVE WorkInv'
  BY <1>17, SetsKeep DEF UserCreates
<1>18. CASE UNCHANGED vars
  BY <1>18, SetsKeep DEF vars
<1> QED
  BY <1>1, <1>2, <1>3, <1>4, <1>5, <1>6, <1>7, <1>8, <1>9, <1>10, <1>11, <1>12, <1>13,
     <1>14, <1>15, <1>16, <1>17, <1>18 DEF Next, Round

\* How a step changes the resources: one of them is removed, created or updated.
Removed(a) ==
    /\ uids' = uids /\ apps'[a].spec = NoApp /\ apps'[a].uid = 0
    /\ \A x \in Names \ {a} : apps'[x] = apps[x]

Created(a, spec) ==
    /\ uids' = uids + 1 /\ apps[a].spec = NoApp
    /\ apps'[a].spec = spec /\ apps'[a].uid = uids + 1
    /\ \A x \in Names \ {a} : apps'[x] = apps[x]

Updated(a, spec) ==
    /\ uids' = uids /\ apps[a].spec # NoApp
    /\ apps'[a].spec = spec /\ apps'[a].uid = apps[a].uid
    /\ \A x \in Names \ {a} : apps'[x] = apps[x]

\* A creation creates the resource that the Director wants, or nothing.
LEMMA CreateEffect ==
  ASSUME AppsOK, NEW a \in Names, createApplication(a)
  PROVE  (UNCHANGED <<apps, uids>> /\ Done) \/ Created(a, Do(target[a]))
  BY DEF AppsOK, createApplication, Created

\* An update changes the spec and leaves the uid.
LEMMA UpdateEffect ==
  ASSUME AppsOK, NEW a \in Names, updateApplication(a)
  PROVE  (UNCHANGED <<apps, uids>> /\ Done) \/ Updated(a, Do(target[a]))
  BY DEF AppsOK, ResourceType, updateApplication, Updated

\* The agent, or a user, removes a resource.
LEMMA RemoveEffect ==
  ASSUME AppsOK, WorkOK
  PROVE  /\ deleteResource => UNCHANGED <<apps, uids>> \/ Removed(cur)
         /\ \A a \in Names : UserDeletes(a) => Removed(a)
<1>1. deleteResource => UNCHANGED <<apps, uids>> \/ Removed(cur)
  BY NoneFacts DEF AppsOK, WorkOK, deleteResource, Removed
<1>2. ASSUME NEW a \in Names, UserDeletes(a) PROVE Removed(a)
  BY <1>2, NoneFacts DEF AppsOK, UserDeletes, Removed
<1> QED
  BY <1>1, <1>2

\* A user creates a resource, with a new uid.
LEMMA UserCreateEffect ==
  ASSUME AppsOK, NEW a \in Names, UserCreates(a)
  PROVE  Created(a, Manual)
  BY DEF AppsOK, UserCreates, Created

\* How a step changes the secrets: one of them is removed or written.
Gone(s) ==
    /\ secrets'[s] = NoSecret
    /\ \A x \in SecretNames \ {s} : secrets'[x] = secrets[x]

Written(s) ==
    /\ secrets'[s].owner = owner
    /\ \A x \in SecretNames \ {s} : secrets'[x] = secrets[x]

\* A deletion, or the garbage collector, removes one secret.
LEMMA GoneEffect ==
  ASSUME SecretsOK, NEW s \in SecretNames, DeleteSecret(s) \/ CollectGarbage(s)
  PROVE  UNCHANGED secrets \/ Gone(s)
  BY DEF SecretsOK, DeleteSecret, CollectGarbage, Gone

\* An upsert writes one secret, with the owner that was read.
LEMMA UpsertEffect ==
  ASSUME SecretsOK, NEW s \in SecretNames, UpsertSecret(s)
  PROVE  UNCHANGED secrets \/ Written(s)
<1>1. ASSUME NEW v, secrets' = [secrets EXCEPT ![s] = makeSecret(v)] PROVE Written(s)
  BY <1>1 DEF SecretsOK, makeSecret, Written
<1>2. secrets' \in {secrets, UpsertCredentials(s), UpsertParameters(s)}
  BY DEF UpsertSecret
<1> QED
  BY <1>1, <1>2 DEF UpsertCredentials, UpsertParameters

\* The uids of the resources have been given.
LEMMA AppUidStep ==
  AppsOK /\ RoundOK /\ WorkOK /\ TodoInv /\ AppUids /\ [Next]_vars => AppUids'
<1> SUFFICES ASSUME AppsOK, RoundOK, WorkOK, TodoInv, AppUids, [Next]_vars PROVE AppUids'
  OBVIOUS
<1> USE ResourceFields DEF AppUids
<1>1. CASE FetchConfiguration
  BY <1>1 DEF FetchConfiguration
<1>2. CASE ListApplications
  BY <1>2 DEF ListApplications, EndRound, Fault
<1>3. CASE NextLoop
  BY <1>3 DEF NextLoop, EndRound
<1>4. ASSUME NEW a \in Names, createApplication(a) PROVE AppUids'
  <2>1. CASE UNCHANGED <<apps, uids>>
    BY <2>1
  <2>2. Do(target[a]) # NoApp
    BY <1>4, DoFacts DEF createApplication, TodoInv, ForLoop, RoundOK
  <2>3. CASE Created(a, Do(target[a]))
    BY <2>2, <2>3 DEF Created, AppsOK
  <2> QED
    BY <1>4, <2>1, <2>3, CreateEffect
<1>5. ASSUME NEW a \in Names, updateApplication(a) PROVE AppUids'
  <2>1. CASE UNCHANGED <<apps, uids>>
    BY <2>1
  <2>2. Do(target[a]) # NoApp
    BY <1>5, DoFacts DEF updateApplication, TodoInv, ForLoop, RoundOK
  <2>3. CASE Updated(a, Do(target[a]))
    BY <2>2, <2>3 DEF Updated
  <2> QED
    BY <1>5, <2>1, <2>3, UpdateEffect
<1>6. ASSUME NEW a \in Names, deleteApplication(a) PROVE AppUids'
  BY <1>6 DEF deleteApplication, Begin
<1>7. ASSUME NEW s \in SecretNames, DeleteSecret(s) PROVE AppUids'
  BY <1>7 DEF DeleteSecret, Fault
<1>8. ASSUME NEW s \in SecretNames, UpsertSecret(s) PROVE AppUids'
  BY <1>8 DEF UpsertSecret, Fault
<1>9. CASE getApplicationUID
  BY <1>9 DEF getApplicationUID, Fault
<1>10. CASE ContinueUpsert
  BY <1>10 DEF ContinueUpsert, Done, Begin
<1>11. CASE deleteCredentialsSecrets
  BY <1>11 DEF deleteCredentialsSecrets, Begin
<1>12. CASE deleteResource
  <2>1. CASE UNCHANGED <<apps, uids>>
    BY <2>1
  <2>2. CASE Removed(cur)
    BY <2>2 DEF Removed, AppsOK
  <2> QED
    BY <1>12, <2>1, <2>2, RemoveEffect
<1>13. ASSUME NEW s \in SecretNames, CollectGarbage(s) PROVE AppUids'
  BY <1>13 DEF CollectGarbage
<1>14. CASE DirectorChanges
  BY <1>14 DEF DirectorChanges, Edit
<1>15. CASE Crash
  BY <1>15 DEF Crash, EndRound, Begin, Fault
<1>16. ASSUME NEW a \in Names, UserDeletes(a) PROVE AppUids'
  <2>1. Removed(a)
    BY <1>16, RemoveEffect
  <2> QED
    BY <2>1 DEF Removed, AppsOK
<1>17. ASSUME NEW a \in Names, UserCreates(a) PROVE AppUids'
  <2>1. Created(a, Manual)
    BY <1>17, UserCreateEffect
  <2> QED
    BY <2>1, NoAppFacts DEF Created, AppsOK
<1>18. CASE UNCHANGED vars
  BY <1>18 DEF vars
<1> QED
  BY <1>1, <1>2, <1>3, <1>4, <1>5, <1>6, <1>7, <1>8, <1>9, <1>10, <1>11, <1>12, <1>13,
     <1>14, <1>15, <1>16, <1>17, <1>18 DEF Next, Round

\* The uids of the owners have been given.
LEMMA SecretUidStep ==
  AppsOK /\ SecretsOK /\ WorkOK /\ AppUids /\ SecretUids /\ [Next]_vars => SecretUids'
<1> SUFFICES ASSUME AppsOK, SecretsOK, WorkOK, AppUids, SecretUids, [Next]_vars
             PROVE  SecretUids'
  OBVIOUS
<1> USE SecretFields DEF SecretUids
<1>1. CASE FetchConfiguration
  BY <1>1 DEF FetchConfiguration
<1>2. CASE ListApplications
  BY <1>2 DEF ListApplications, EndRound, Fault
<1>3. CASE NextLoop
  BY <1>3 DEF NextLoop, EndRound
<1>4. ASSUME NEW a \in Names, createApplication(a) PROVE SecretUids'
  <2>1. UNCHANGED secrets /\ owner' = 0 /\ uids' \in {uids, uids + 1}
    BY <1>4 DEF createApplication, Done, Begin
  <2> QED
    BY <2>1 DEF AppsOK
<1>5. ASSUME NEW a \in Names, updateApplication(a) PROVE SecretUids'
  <2>1. UNCHANGED <<uids, secrets>> /\ owner' = 0
    BY <1>5 DEF updateApplication, Done, Begin
  <2> QED
    BY <2>1 DEF AppsOK
<1>6. ASSUME NEW a \in Names, deleteApplication(a) PROVE SecretUids'
  <2>1. UNCHANGED <<uids, secrets>> /\ owner' = 0
    BY <1>6 DEF deleteApplication, Begin
  <2> QED
    BY <2>1 DEF AppsOK
<1>7. ASSUME NEW s \in SecretNames, DeleteSecret(s) PROVE SecretUids'
  <2>1. UNCHANGED <<uids, owner>>
    BY <1>7 DEF DeleteSecret
  <2>2. CASE UNCHANGED secrets
    BY <2>1, <2>2
  <2>3. CASE Gone(s)
    BY <2>1, <2>3, NoneFacts DEF Gone, AppsOK
  <2> QED
    BY <1>7, <2>2, <2>3, GoneEffect
<1>8. ASSUME NEW s \in SecretNames, UpsertSecret(s) PROVE SecretUids'
  <2>1. UNCHANGED <<uids, owner>>
    BY <1>8 DEF UpsertSecret
  <2>2. CASE UNCHANGED secrets
    BY <2>1, <2>2
  <2>3. CASE Written(s)
    BY <2>1, <2>3 DEF Written
  <2> QED
    BY <1>8, <2>2, <2>3, UpsertEffect
<1>9. CASE getApplicationUID
  <2>1. UNCHANGED <<uids, secrets>> /\ owner' \in {owner, apps[cur].uid}
    BY <1>9 DEF getApplicationUID
  <2>2. apps[cur].uid <= uids
    BY DEF WorkOK, AppUids
  <2> QED
    BY <2>1, <2>2
<1>10. CASE ContinueUpsert
  <2>1. UNCHANGED <<uids, secrets>> /\ owner' = 0
    BY <1>10 DEF ContinueUpsert, Done, Begin
  <2> QED
    BY <2>1 DEF AppsOK
<1>11. CASE deleteCredentialsSecrets
  <2>1. UNCHANGED <<uids, secrets>> /\ owner' = 0
    BY <1>11 DEF deleteCredentialsSecrets, Begin
  <2> QED
    BY <2>1 DEF AppsOK
<1>12. CASE deleteResource
  <2>1. UNCHANGED <<uids, secrets>> /\ owner' = 0
    BY <1>12 DEF deleteResource, Done, Begin
  <2> QED
    BY <2>1 DEF AppsOK
<1>13. ASSUME NEW s \in SecretNames, CollectGarbage(s) PROVE SecretUids'
  <2>1. UNCHANGED <<uids, owner>>
    BY <1>13 DEF CollectGarbage
  <2>2. CASE UNCHANGED secrets
    BY <2>1, <2>2
  <2>3. CASE Gone(s)
    BY <2>1, <2>3, NoneFacts DEF Gone, AppsOK
  <2> QED
    BY <1>13, <2>2, <2>3, GoneEffect
<1>14. CASE DirectorChanges
  BY <1>14 DEF DirectorChanges, Edit
<1>15. CASE Crash
  <2>1. UNCHANGED <<uids, secrets>> /\ owner' = 0
    BY <1>15 DEF Crash, Begin
  <2> QED
    BY <2>1 DEF AppsOK
<1>16. ASSUME NEW a \in Names, UserDeletes(a) PROVE SecretUids'
  BY <1>16 DEF UserDeletes, Edit
<1>17. ASSUME NEW a \in Names, UserCreates(a) PROVE SecretUids'
  <2>1. UNCHANGED <<secrets, owner>> /\ uids' = uids + 1
    BY <1>17 DEF UserCreates
  <2> QED
    BY <2>1 DEF AppsOK, WorkOK
<1>18. CASE UNCHANGED vars
  BY <1>18 DEF vars
<1> QED
  BY <1>1, <1>2, <1>3, <1>4, <1>5, <1>6, <1>7, <1>8, <1>9, <1>10, <1>11, <1>12, <1>13,
     <1>14, <1>15, <1>16, <1>17, <1>18 DEF Next, Round

\* An Application worked on is what the Director wants.
LEMMA ContentStep ==
  /\ AppsOK /\ RoundOK /\ WorkOK /\ StageInv /\ TodoInv /\ ContentInv
  /\ [Next]_vars
  => ContentInv'
<1> SUFFICES ASSUME AppsOK, RoundOK, WorkOK, StageInv, TodoInv, ContentInv, [Next]_vars
             PROVE  ContentInv'
  OBVIOUS
<1> USE DEF ContentInv
<1>1. CASE FetchConfiguration
  BY <1>1 DEF FetchConfiguration
<1>2. CASE ListApplications
  BY <1>2 DEF ListApplications, EndRound, Fault
<1>3. CASE NextLoop
  BY <1>3 DEF NextLoop, EndRound
<1>4. ASSUME NEW a \in Names, createApplication(a) PROVE ContentInv'
  <2>1. CASE stage' = "next"
    BY <2>1
  <2>2. CASE cur' = a /\ target' = target /\ Created(a, Do(target[a]))
    BY <2>2 DEF Created
  <2> QED
    BY <1>4, <2>1, <2>2, CreateEffect DEF createApplication, Done
<1>5. ASSUME NEW a \in Names, updateApplication(a) PROVE ContentInv'
  <2>1. CASE stage' = "next"
    BY <2>1
  <2>2. CASE cur' = a /\ target' = target /\ Updated(a, Do(target[a]))
    BY <2>2 DEF Updated
  <2> QED
    BY <1>5, <2>1, <2>2, UpdateEffect DEF updateApplication, Done
<1>6. ASSUME NEW a \in Names, deleteApplication(a) PROVE ContentInv'
  BY <1>6 DEF deleteApplication, Begin
<1>7. ASSUME NEW s \in SecretNames, DeleteSecret(s) PROVE ContentInv'
  BY <1>7 DEF DeleteSecret, Fault
<1>8. ASSUME NEW s \in SecretNames, UpsertSecret(s) PROVE ContentInv'
  BY <1>8 DEF UpsertSecret, Fault
<1>9. CASE getApplicationUID
  BY <1>9 DEF getApplicationUID, Fault
<1>10. CASE ContinueUpsert
  BY <1>10 DEF ContinueUpsert, Done, Begin
<1>11. CASE deleteCredentialsSecrets
  BY <1>11 DEF deleteCredentialsSecrets, Begin
<1>12. CASE deleteResource
  BY <1>12 DEF deleteResource, Done, Begin, Fault
<1>13. ASSUME NEW s \in SecretNames, CollectGarbage(s) PROVE ContentInv'
  BY <1>13 DEF CollectGarbage
<1>14. CASE DirectorChanges
  BY <1>14 DEF DirectorChanges, Edit
<1>15. CASE Crash
  BY <1>15 DEF Crash, EndRound, Begin, Fault
<1>16. ASSUME NEW a \in Names, UserDeletes(a) PROVE ContentInv'
  <2>1. Removed(a) /\ UNCHANGED <<stage, cur, target>>
    BY <1>16, RemoveEffect DEF UserDeletes
  <2> QED
    BY <2>1 DEF Removed, WorkOK
<1>17. ASSUME NEW a \in Names, UserCreates(a) PROVE ContentInv'
  <2>1. Created(a, Manual) /\ UNCHANGED <<stage, cur, target>>
    BY <1>17, UserCreateEffect DEF UserCreates
  <2> QED
    BY <2>1 DEF Created, WorkOK
<1>18. CASE UNCHANGED vars
  BY <1>18 DEF vars
<1> QED
  BY <1>1, <1>2, <1>3, <1>4, <1>5, <1>6, <1>7, <1>8, <1>9, <1>10, <1>11, <1>12, <1>13,
     <1>14, <1>15, <1>16, <1>17, <1>18 DEF Next, Round

\* What the round has not changed is what was listed, or a user's.
LEMMA ListedStep ==
  /\ AppsOK /\ RoundOK /\ WorkOK /\ StageInv /\ TodoInv /\ ListedInv
  /\ [Next]_vars
  => ListedInv'
<1> SUFFICES ASSUME AppsOK, RoundOK, WorkOK, StageInv, TodoInv, ListedInv, [Next]_vars
             PROVE  ListedInv'
  OBVIOUS
<1> USE DEF ListedInv, Untouched, ApplicationExists
<1>1. CASE FetchConfiguration
  BY <1>1 DEF FetchConfiguration
<1>2. CASE ListApplications
  <2>1. CASE listed' = Nothing
    BY <2>1 DEF Nothing
  <2>2. CASE /\ listed' = [a \in Names |-> IF FromCompass(a) THEN apps[a].spec ELSE NoApp]
             /\ apps' = apps
    BY <2>2
  <2> QED
    BY <1>2, <2>1, <2>2 DEF ListApplications, EndRound
<1>3. CASE NextLoop
  BY <1>3 DEF NextLoop, EndRound, Nothing
<1>4. ASSUME NEW a \in Names, createApplication(a) PROVE ListedInv'
  <2>1. UNCHANGED <<listed, loop>> /\ todo' = todo \ {a} /\ listed[a] = NoApp
    BY <1>4 DEF createApplication, TodoInv, ForLoop
  <2>2. CASE UNCHANGED <<apps, uids>>
    BY <2>1, <2>2
  <2>3. CASE Created(a, Do(target[a]))
    BY <2>1, <2>3 DEF Created
  <2> QED
    BY <1>4, <2>2, <2>3, CreateEffect
<1>5. ASSUME NEW a \in Names, updateApplication(a) PROVE ListedInv'
  <2>1. UNCHANGED <<listed, loop>> /\ todo' = todo \ {a} /\ loop = "update"
    BY <1>5 DEF updateApplication
  <2>2. CASE UNCHANGED <<apps, uids>>
    BY <2>1, <2>2
  <2>3. CASE Updated(a, Do(target[a]))
    BY <2>1, <2>3 DEF Updated
  <2> QED
    BY <1>5, <2>2, <2>3, UpdateEffect
<1>6. ASSUME NEW a \in Names, deleteApplication(a) PROVE ListedInv'
  BY <1>6 DEF deleteApplication, Begin
<1>7. ASSUME NEW s \in SecretNames, DeleteSecret(s) PROVE ListedInv'
  BY <1>7 DEF DeleteSecret, Fault
<1>8. ASSUME NEW s \in SecretNames, UpsertSecret(s) PROVE ListedInv'
  BY <1>8 DEF UpsertSecret, Fault
<1>9. CASE getApplicationUID
  BY <1>9 DEF getApplicationUID, Fault
<1>10. CASE ContinueUpsert
  BY <1>10 DEF ContinueUpsert, Done, Begin
<1>11. CASE deleteCredentialsSecrets
  BY <1>11 DEF deleteCredentialsSecrets, Begin
<1>12. CASE deleteResource
  <2>1. UNCHANGED <<listed, loop, todo>>
    BY <1>12 DEF deleteResource
  <2>2. CASE UNCHANGED <<apps, uids>>
    BY <2>1, <2>2
  <2>3. CASE Removed(cur)
    BY <2>1, <2>3 DEF Removed
  <2> QED
    BY <1>12, <2>2, <2>3, RemoveEffect
<1>13. ASSUME NEW s \in SecretNames, CollectGarbage(s) PROVE ListedInv'
  BY <1>13 DEF CollectGarbage
<1>14. CASE DirectorChanges
  BY <1>14 DEF DirectorChanges, Edit
<1>15. CASE Crash
  BY <1>15 DEF Crash, EndRound, Nothing
<1>16. ASSUME NEW a \in Names, UserDeletes(a) PROVE ListedInv'
  <2>1. Removed(a) /\ UNCHANGED <<listed, loop, todo>>
    BY <1>16, RemoveEffect DEF UserDeletes
  <2> QED
    BY <2>1 DEF Removed
<1>17. ASSUME NEW a \in Names, UserCreates(a) PROVE ListedInv'
  <2>1. Created(a, Manual) /\ UNCHANGED <<listed, loop, todo>>
    BY <1>17, UserCreateEffect DEF UserCreates
  <2> QED
    BY <2>1 DEF Created
<1>18. CASE UNCHANGED vars
  BY <1>18 DEF vars
<1> QED
  BY <1>1, <1>2, <1>3, <1>4, <1>5, <1>6, <1>7, <1>8, <1>9, <1>10, <1>11, <1>12, <1>13,
     <1>14, <1>15, <1>16, <1>17, <1>18 DEF Next, Round

\* A user who takes a name of Compass's has no secrets under it.
LEMMA UserStep ==
  /\ AppsOK /\ SecretsOK /\ RoundOK /\ WorkOK /\ StageInv /\ TodoInv /\ WorkInv
  /\ AppUids /\ SecretUids /\ UserInv
  /\ [Next]_vars
  => UserInv'
<1> SUFFICES ASSUME AppsOK, SecretsOK, RoundOK, WorkOK, StageInv, TodoInv, WorkInv,
                    AppUids, SecretUids, UserInv, [Next]_vars
             PROVE  UserInv'
  OBVIOUS
<1> USE SecretNameFields DEF UserInv, Untouched, ApplicationExists
<1>1. CASE FetchConfiguration
  BY <1>1 DEF FetchConfiguration
<1>2. CASE ListApplications
  <2>1. CASE listed' = Nothing
    BY <2>1 DEF Nothing
  <2>2. CASE /\ listed' = [a \in Names |-> IF FromCompass(a) THEN apps[a].spec ELSE NoApp]
             /\ apps' = apps
    BY <2>2, NoAppFacts DEF FromCompass
  <2> QED
    BY <1>2, <2>1, <2>2 DEF ListApplications, EndRound
<1>3. CASE NextLoop
  BY <1>3 DEF NextLoop, EndRound, Nothing
<1>4. ASSUME NEW a \in Names, createApplication(a) PROVE UserInv'
  <2>1. UNCHANGED <<listed, loop, secrets>> /\ todo' = todo \ {a} /\ listed[a] = NoApp
    BY <1>4 DEF createApplication, TodoInv, ForLoop
  <2>2. CASE UNCHANGED <<apps, uids>>
    BY <2>1, <2>2
  <2>3. CASE Created(a, Do(target[a]))
    BY <2>1, <2>3 DEF Created
  <2> QED
    BY <1>4, <2>2, <2>3, CreateEffect
<1>5. ASSUME NEW a \in Names, updateApplication(a) PROVE UserInv'
  <2>1. UNCHANGED <<listed, loop, secrets>> /\ todo' = todo \ {a} /\ loop = "update"
    BY <1>5 DEF updateApplication
  <2>2. CASE UNCHANGED <<apps, uids>>
    BY <2>1, <2>2
  <2>3. CASE Updated(a, Do(target[a]))
    BY <2>1, <2>3 DEF Updated
  <2> QED
    BY <1>5, <2>2, <2>3, UpdateEffect
<1>6. ASSUME NEW a \in Names, deleteApplication(a) PROVE UserInv'
  BY <1>6 DEF deleteApplication, Begin
<1>7. ASSUME NEW s \in SecretNames, DeleteSecret(s) PROVE UserInv'
  <2>1. UNCHANGED <<apps, listed, loop, todo>>
    BY <1>7 DEF DeleteSecret
  <2>2. CASE UNCHANGED secrets
    BY <2>1, <2>2
  <2>3. CASE Gone(s)
    BY <2>1, <2>3, NoneFacts, NoAppFacts DEF Gone, AppUids
  <2> QED
    BY <1>7, <2>2, <2>3, GoneEffect
<1>8. ASSUME NEW s \in SecretNames, UpsertSecret(s) PROVE UserInv'
  <2>1. UNCHANGED <<apps, listed, loop, todo>>
    BY <1>8 DEF UpsertSecret
  <2>2. s.app = cur /\ ~Untouched(cur)
    BY <1>8 DEF UpsertSecret, Working, WorkInv, Upserted, CredentialsToUpsert,
       ParametersToUpsert, StageInv, TodoInv, ForLoop
  <2>3. CASE UNCHANGED secrets
    BY <2>1, <2>3
  <2>4. CASE Written(s)
    BY <2>1, <2>2, <2>4 DEF Written
  <2> QED
    BY <1>8, <2>3, <2>4, UpsertEffect
<1>9. CASE getApplicationUID
  BY <1>9 DEF getApplicationUID, Fault
<1>10. CASE ContinueUpsert
  BY <1>10 DEF ContinueUpsert, Done, Begin
<1>11. CASE deleteCredentialsSecrets
  BY <1>11 DEF deleteCredentialsSecrets, Begin
<1>12. CASE deleteResource
  <2>1. UNCHANGED <<listed, loop, todo, secrets>>
    BY <1>12 DEF deleteResource
  <2>2. CASE UNCHANGED <<apps, uids>>
    BY <2>1, <2>2
  <2>3. CASE Removed(cur)
    BY <2>1, <2>3, NoAppFacts DEF Removed
  <2> QED
    BY <1>12, <2>2, <2>3, RemoveEffect
<1>13. ASSUME NEW s \in SecretNames, CollectGarbage(s) PROVE UserInv'
  <2>1. UNCHANGED <<apps, listed, loop, todo>>
    BY <1>13 DEF CollectGarbage
  <2>2. CASE UNCHANGED secrets
    BY <2>1, <2>2
  <2>3. CASE Gone(s)
    BY <2>1, <2>3, NoneFacts, NoAppFacts DEF Gone, AppUids
  <2> QED
    BY <1>13, <2>2, <2>3, GoneEffect
<1>14. CASE DirectorChanges
  BY <1>14 DEF DirectorChanges, Edit
<1>15. CASE Crash
  BY <1>15 DEF Crash, EndRound, Nothing
<1>16. ASSUME NEW a \in Names, UserDeletes(a) PROVE UserInv'
  <2>1. Removed(a) /\ UNCHANGED <<listed, loop, todo, secrets>>
    BY <1>16, RemoveEffect DEF UserDeletes
  <2> QED
    BY <2>1, NoAppFacts DEF Removed
<1>17. ASSUME NEW a \in Names, UserCreates(a) PROVE UserInv'
  <2>1. Created(a, Manual) /\ UNCHANGED <<listed, loop, todo, secrets>>
    BY <1>17, UserCreateEffect DEF UserCreates
  <2>2. \A s \in SecretNames : secrets[s].owner # uids + 1
    BY SecretFields DEF SecretUids, AppsOK
  <2> QED
    BY <2>1, <2>2 DEF Created
<1>18. CASE UNCHANGED vars
  BY <1>18 DEF vars
<1> QED
  BY <1>1, <1>2, <1>3, <1>4, <1>5, <1>6, <1>7, <1>8, <1>9, <1>10, <1>11, <1>12, <1>13,
     <1>14, <1>15, <1>16, <1>17, <1>18 DEF Next, Round

\* What an Application names depends on its spec.
LEMMA NamedNext ==
  ASSUME NEW a
  PROVE  Named(a)' = getCredentialsSecretNames(a, apps'[a].spec)
                       \cup getRequestParametersSecretNames(a, apps'[a].spec)
  BY DEF Named

\* What is still to be deleted in the other stages, and while the work goes on.
LEMMA StillObsoleteNext ==
  /\ stage # "update" => StillObsolete = {}
  /\ stage' # "update" => StillObsolete' = {}
  /\ UNCHANGED <<stage, drop, kind, target, listed, cur>> => StillObsolete' = StillObsolete
  BY DEF StillObsolete, ObsoleteParameters

\* A step that touches neither resources nor secrets.
LEMMA QuietStep ==
  ASSUME SecretsInv, UNCHANGED <<apps, secrets>>, leaked \subseteq leaked',
         StillObsolete \subseteq StillObsolete' \cup leaked'
  PROVE  SecretsInv'
<1> SUFFICES ASSUME NEW s \in SecretNames, Owned(s)'
             PROVE  s \in Named(s.app)' \cup leaked' \cup StillObsolete'
  BY DEF SecretsInv
<1>1. Owned(s) /\ Named(s.app)' = Named(s.app)
  BY DEF Owned, FromCompass, Named
<1> QED
  BY <1>1 DEF SecretsInv

\* A resource that is removed, or created with a new uid, owns no secret.
LEMMA FreshStep ==
  ASSUME AppsOK, SecretsOK, SecretUids, SecretsInv, NEW a \in Names,
         Removed(a) \/ \E spec : Created(a, spec),
         UNCHANGED <<secrets, leaked>>,
         StillObsolete = {} \/ StillObsolete' = StillObsolete
  PROVE  SecretsInv'
<1> SUFFICES ASSUME NEW s \in SecretNames, Owned(s)'
             PROVE  s \in Named(s.app)' \cup leaked' \cup StillObsolete'
  BY DEF SecretsInv
<1>1. s.app \in Names /\ secrets[s].owner <= uids /\ secrets[s].owner \in Nat /\ uids \in Nat
  BY SecretNameFields, SecretFields DEF SecretUids, AppsOK
<1>2. s.app # a
  BY <1>1, NoAppFacts DEF Owned, FromCompass, Removed, Created
<1>3. apps'[s.app] = apps[s.app]
  BY <1>1, <1>2 DEF Removed, Created
<1>4. Owned(s) /\ Named(s.app)' = Named(s.app)
  BY <1>3 DEF Owned, FromCompass, Named
<1> QED
  BY <1>4 DEF SecretsInv

\* A secret that is gone is nobody's.
LEMMA GoneStep ==
  ASSUME AppUids, SecretsInv, NEW s \in SecretNames, Gone(s), UNCHANGED apps,
         leaked \ {s} \subseteq leaked', StillObsolete \ {s} \subseteq StillObsolete'
  PROVE  SecretsInv'
<1> SUFFICES ASSUME NEW x \in SecretNames, Owned(x)'
             PROVE  x \in Named(x.app)' \cup leaked' \cup StillObsolete'
  BY DEF SecretsInv
<1>1. x.app \in Names
  BY SecretNameFields
<1>2. x # s
  BY <1>1, NoneFacts, NoAppFacts DEF Owned, FromCompass, Gone, AppUids
<1>3. Owned(x) /\ Named(x.app)' = Named(x.app)
  BY <1>2 DEF Owned, FromCompass, Gone, Named
<1> QED
  BY <1>2, <1>3 DEF SecretsInv

\* A secret that is written belongs to an Application that names it, or is counted as
\* leaked.
LEMMA WrittenStep ==
  ASSUME SecretsOK, RoundOK, WorkOK, StageInv, TodoInv, WorkInv, ContentInv, SecretsInv,
         NEW s \in SecretNames, UpsertSecret(s)
  PROVE  SecretsInv'
<1> SUFFICES ASSUME NEW x \in SecretNames, Owned(x)'
             PROVE  x \in Named(x.app)' \cup leaked' \cup StillObsolete'
  BY DEF SecretsInv
<1>1. UNCHANGED <<apps, stage, drop, kind, target, listed, cur>>
  BY DEF UpsertSecret
<1>2. StillObsolete' = StillObsolete /\ Named(x.app)' = Named(x.app)
  BY <1>1, StillObsoleteNext DEF Named
<1>3. CASE x # s
  <2>1. secrets'[x] = secrets[x]
    BY <1>3, UpsertEffect DEF Written
  <2>2. Owned(x)
    BY <1>1, <2>1 DEF Owned, FromCompass
  <2>3. x \in leaked => x \in leaked'
    BY <1>3 DEF UpsertSecret
  <2> QED
    BY <1>2, <2>2, <2>3 DEF SecretsInv
<1>4. CASE x = s /\ s.bundle \notin target[cur].apis
  BY <1>4 DEF UpsertSecret
<1>5. CASE x = s /\ s.bundle \in target[cur].apis
  <2>1. stage \in {"create", "update"} /\ s \in Upserted
    BY DEF UpsertSecret, Working, WorkInv
  <2>2. s.app = cur
    BY <2>1 DEF Upserted, CredentialsToUpsert, ParametersToUpsert
  <2>3. target[cur] \in Configs
    BY <2>1 DEF StageInv, TodoInv, ForLoop, RoundOK, WorkOK, Working
  <2>4. apps[cur].spec = Do(target[cur])
    BY <1>1, <1>5, <2>1, <2>2, NoAppFacts DEF ContentInv, Owned, FromCompass
  <2>5. \/ s \in getCredentialsSecretNames(cur, Do(target[cur]))
        \/ s \in getRequestParametersSecretNames(cur, Do(target[cur]))
    BY <1>5, <2>1, <2>2, <2>3, DoNames DEF WorkOK, Upserted, CredentialsToUpsert,
       ParametersToUpsert
  <2> QED
    BY <1>2, <1>5, <2>2, <2>4, <2>5 DEF Named
<1> QED
  BY <1>3, <1>4, <1>5

\* An update makes what the new spec does not name obsolete.
LEMMA UpdatedStep ==
  ASSUME AppsOK, RoundOK, TodoInv, ListedInv, UserInv, SecretsInv,
         NEW a \in Names, updateApplication(a), Updated(a, Do(target[a])),
         ~(UNCHANGED apps /\ Done)
  PROVE  SecretsInv'
<1> SUFFICES ASSUME NEW s \in SecretNames, Owned(s)'
             PROVE  s \in Named(s.app)' \cup leaked' \cup StillObsolete'
  BY DEF SecretsInv
<1>1. /\ stage = "next" /\ loop = "update" /\ a \in todo
      /\ UNCHANGED <<secrets, target, listed>> /\ leaked \subseteq leaked'
  BY DEF updateApplication
<1>2. StillObsolete = {}
  BY <1>1, StillObsoleteNext
<1>3. CASE s.app # a
  <2>1. apps'[s.app] = apps[s.app]
    BY <1>3, SecretNameFields DEF Updated
  <2>2. Owned(s) /\ Named(s.app)' = Named(s.app)
    BY <1>1, <2>1 DEF Owned, FromCompass, Named
  <2> QED
    BY <1>1, <1>2, <2>2 DEF SecretsInv
<1>4. CASE s.app = a
  <2>1. secrets[s].owner = apps[a].uid
    BY <1>1, <1>4 DEF Owned, Updated
  <2>2. Untouched(a) /\ listed[a] \in CompassSpecs
    BY <1>1 DEF Untouched, ApplicationExists, TodoInv, ForLoop, RoundOK
  <2>3. apps[a].spec = listed[a]
    BY <1>4, <2>1, <2>2 DEF ListedInv, UserInv, Updated
  <2>4. s \in leaked \/ s \in getCredentialsSecretNames(a, listed[a])
          \/ s \in getRequestParametersSecretNames(a, listed[a])
    BY <1>2, <1>4, <2>1, <2>2, <2>3 DEF SecretsInv, Owned, FromCompass, Named
  <2>5. Named(a)' = getCredentialsSecretNames(a, Do(target[a]))
                      \cup getRequestParametersSecretNames(a, Do(target[a]))
    BY NamedNext DEF Updated
  <2>6. ObsoleteCredentials(a) \cup ObsoleteParameters(a) \subseteq leaked' \cup StillObsolete'
    <3>1. CASE Done
      BY <3>1 DEF updateApplication, Done
    <3>2. CASE /\ stage' = "update" /\ cur' = a
               /\ Begin("credentials", ObsoleteCredentials(a), CredentialsToUpsert(a))
      BY <1>1, <3>2 DEF Begin, StillObsolete, ObsoleteParameters
    <3> QED
      BY <3>1, <3>2 DEF updateApplication
  <2> QED
    BY <1>1, <1>4, <2>4, <2>5, <2>6 DEF ObsoleteCredentials, ObsoleteParameters
<1> QED
  BY <1>3, <1>4

\* Every secret is named, to be deleted or leaked.
LEMMA SecretsInvStep ==
  /\ AppsOK /\ SecretsOK /\ RoundOK /\ WorkOK /\ StageInv /\ TodoInv /\ WorkInv
  /\ AppUids /\ SecretUids /\ ContentInv /\ ListedInv /\ UserInv /\ SecretsInv
  /\ [Next]_vars
  => SecretsInv'
<1> SUFFICES ASSUME AppsOK, SecretsOK, RoundOK, WorkOK, StageInv, TodoInv, WorkInv,
                    AppUids, SecretUids, ContentInv, ListedInv, UserInv, SecretsInv,
                    [Next]_vars
             PROVE  SecretsInv'
  OBVIOUS
<1>1. CASE FetchConfiguration
  <2>1. UNCHANGED <<apps, secrets, leaked>> /\ stage # "update" /\ stage' # "update"
    BY <1>1 DEF FetchConfiguration
  <2> QED
    BY <2>1, QuietStep, StillObsoleteNext
<1>2. CASE ListApplications
  <2>1. UNCHANGED <<apps, secrets, leaked>> /\ stage # "update" /\ stage' # "update"
    BY <1>2 DEF ListApplications, EndRound
  <2> QED
    BY <2>1, QuietStep, StillObsoleteNext
<1>3. CASE NextLoop
  <2>1. UNCHANGED <<apps, secrets, leaked>> /\ stage # "update" /\ stage' # "update"
    BY <1>3 DEF NextLoop, EndRound
  <2> QED
    BY <2>1, QuietStep, StillObsoleteNext
<1>4. ASSUME NEW a \in Names, createApplication(a) PROVE SecretsInv'
  <2>1. UNCHANGED <<secrets, leaked>> /\ stage # "update" /\ stage' # "update"
    BY <1>4 DEF createApplication, Done
  <2>2. CASE UNCHANGED apps
    BY <2>1, <2>2, QuietStep, StillObsoleteNext
  <2>3. CASE Created(a, Do(target[a]))
    BY <2>1, <2>3, FreshStep, StillObsoleteNext
  <2> QED
    BY <1>4, <2>2, <2>3, CreateEffect
<1>5. ASSUME NEW a \in Names, updateApplication(a) PROVE SecretsInv'
  <2>1. CASE UNCHANGED apps /\ Done
    <3>1. UNCHANGED secrets /\ stage # "update" /\ stage' # "update" /\ leaked \subseteq leaked'
      BY <1>5, <2>1 DEF updateApplication, Done
    <3> QED
      BY <2>1, <3>1, QuietStep, StillObsoleteNext
  <2>2. CASE Updated(a, Do(target[a])) /\ ~(UNCHANGED apps /\ Done)
    BY <1>5, <2>2, UpdatedStep
  <2> QED
    BY <1>5, <2>1, <2>2, UpdateEffect
<1>6. ASSUME NEW a \in Names, deleteApplication(a) PROVE SecretsInv'
  <2>1. UNCHANGED <<apps, secrets, leaked>> /\ stage # "update" /\ stage' # "update"
    BY <1>6 DEF deleteApplication
  <2> QED
    BY <2>1, QuietStep, StillObsoleteNext
<1>7. ASSUME NEW s \in SecretNames, DeleteSecret(s) PROVE SecretsInv'
  <2>1. /\ UNCHANGED <<apps, stage, kind, target, listed, cur>> /\ drop' = drop \ {s}
        /\ leaked \ {s} \subseteq leaked'
    BY <1>7 DEF DeleteSecret
  <2>2. StillObsolete \ {s} \subseteq StillObsolete'
    BY <2>1 DEF StillObsolete, ObsoleteParameters
  <2>3. CASE UNCHANGED secrets /\ ~Gone(s)
    <3>1. leaked \subseteq leaked' /\ (stage = "update" => s \in leaked')
      BY <1>7, <2>3 DEF DeleteSecret, Gone, SecretsOK
    <3>2. StillObsolete \subseteq StillObsolete' \cup leaked'
      BY <2>2, <3>1, StillObsoleteNext
    <3> QED
      BY <2>1, <2>3, <3>1, <3>2, QuietStep
  <2>4. CASE Gone(s)
    BY <2>1, <2>2, <2>4, GoneStep
  <2> QED
    BY <1>7, <2>3, <2>4, GoneEffect
<1>8. ASSUME NEW s \in SecretNames, UpsertSecret(s) PROVE SecretsInv'
  BY <1>8, WrittenStep
<1>9. CASE getApplicationUID
  <2>1. /\ UNCHANGED <<apps, secrets, leaked>>
        /\ UNCHANGED <<stage, drop, kind, target, listed, cur>>
    BY <1>9 DEF getApplicationUID
  <2> QED
    BY <2>1, QuietStep, StillObsoleteNext
<1>10. CASE ContinueUpsert
  <2>1. UNCHANGED <<apps, secrets, leaked, target, listed>> /\ drop = {}
    BY <1>10 DEF ContinueUpsert
  <2>2. CASE Done
    <3>1. StillObsolete = {}
      BY <1>10, <2>1, <2>2, StillObsoleteNext DEF ContinueUpsert, Done,
         StillObsolete, WorkOK, Kinds, Begin
    <3> QED
      BY <2>1, <3>1, QuietStep
  <2>3. CASE /\ Begin("parameters", IF stage = "create" THEN {} ELSE ObsoleteParameters(cur),
                      ParametersToUpsert(cur))
             /\ UNCHANGED <<stage, cur>> /\ kind = "credentials"
    <3>1. StillObsolete \subseteq StillObsolete'
      BY <2>1, <2>3 DEF Begin, StillObsolete
    <3> QED
      BY <2>1, <3>1, QuietStep
  <2> QED
    BY <1>10, <2>2, <2>3 DEF ContinueUpsert
<1>11. CASE deleteCredentialsSecrets
  <2>1. UNCHANGED <<apps, secrets, leaked>> /\ stage # "update" /\ stage' # "update"
    BY <1>11 DEF deleteCredentialsSecrets
  <2> QED
    BY <2>1, QuietStep, StillObsoleteNext
<1>12. CASE deleteResource
  <2>1. UNCHANGED <<secrets, leaked>> /\ stage # "update" /\ stage' # "update"
    BY <1>12 DEF deleteResource, Done
  <2>2. CASE UNCHANGED apps
    BY <2>1, <2>2, QuietStep, StillObsoleteNext
  <2>3. CASE Removed(cur)
    BY <2>1, <2>3, FreshStep, StillObsoleteNext DEF WorkOK
  <2> QED
    BY <1>12, <2>2, <2>3, RemoveEffect
<1>13. ASSUME NEW s \in SecretNames, CollectGarbage(s) PROVE SecretsInv'
  <2>1. /\ UNCHANGED <<apps, stage, drop, kind, target, listed, cur>> /\ leaked' = leaked \ {s}
        /\ Gone(s)
    BY <1>13 DEF CollectGarbage, Gone, SecretsOK
  <2> QED
    BY <2>1, GoneStep, StillObsoleteNext
<1>14. CASE DirectorChanges
  <2>1. /\ UNCHANGED <<apps, secrets, leaked>>
        /\ UNCHANGED <<stage, drop, kind, target, listed, cur>>
    BY <1>14 DEF DirectorChanges
  <2> QED
    BY <2>1, QuietStep, StillObsoleteNext
<1>15. CASE Crash
  <2>1. UNCHANGED <<apps, secrets>> /\ leaked' = leaked \cup StillObsolete
    BY <1>15 DEF Crash
  <2> QED
    BY <2>1, QuietStep
<1>16. ASSUME NEW a \in Names, UserDeletes(a) PROVE SecretsInv'
  <2>1. UNCHANGED <<secrets, leaked, stage, drop, kind, target, listed, cur>>
    BY <1>16 DEF UserDeletes
  <2> QED
    BY <1>16, <2>1, RemoveEffect, FreshStep, StillObsoleteNext
<1>17. ASSUME NEW a \in Names, UserCreates(a) PROVE SecretsInv'
  <2>1. UNCHANGED <<secrets, leaked, stage, drop, kind, target, listed, cur>>
    BY <1>17 DEF UserCreates
  <2> QED
    BY <1>17, <2>1, UserCreateEffect, FreshStep, StillObsoleteNext
<1>18. CASE UNCHANGED vars
  <2>1. /\ UNCHANGED <<apps, secrets, leaked>>
        /\ UNCHANGED <<stage, drop, kind, target, listed, cur>>
    BY <1>18 DEF vars
  <2> QED
    BY <2>1, QuietStep, StillObsoleteNext
<1> QED
  BY <1>1, <1>2, <1>3, <1>4, <1>5, <1>6, <1>7, <1>8, <1>9, <1>10, <1>11, <1>12, <1>13,
     <1>14, <1>15, <1>16, <1>17, <1>18 DEF Next, Round

-----------------------------------------------------------------------------
(* Theorems                                                                *)

\* The initial states satisfy the invariant.
LEMMA InitIInv == Init => IInv
<1> SUFFICES ASSUME Init PROVE IInv
  OBVIOUS
<1> USE DEF Init
<1>1. DirectorOK
  BY DEF DirectorOK
<1>2. AppsOK /\ SecretsOK
  BY NoneFacts DEF AppsOK, SecretsOK
<1>3. RoundOK
  BY NothingFacts DEF RoundOK
<1>4. WorkOK /\ HistoryOK
  <2>1. WorkOK
    BY AnyNameFacts DEF WorkOK, Kinds
  <2>2. HistoryOK
    BY BoundsAssumption DEF HistoryOK
  <2> QED
    BY <2>1, <2>2
<1>5. StageInv /\ TodoInv /\ WorkInv
  BY DEF StageInv, TodoInv, WorkInv, Working
<1>6. AppUids /\ SecretUids
  BY NoneFacts DEF AppUids, SecretUids
<1>7. ContentInv
  BY DEF ContentInv
<1>8. ListedInv /\ UserInv
  BY SecretNameFields DEF ListedInv, UserInv, Untouched, ApplicationExists, Nothing
<1>9. SecretsInv
  BY NoneFacts, NoAppFacts, SecretNameFields DEF SecretsInv, Owned, FromCompass
<1> QED
  BY <1>1, <1>2, <1>3, <1>4, <1>5, <1>6, <1>7, <1>8, <1>9 DEF IInv, TypeParts, UidInv

\* A step keeps the invariant.
LEMMA StepIInv == IInv /\ [Next]_vars => IInv'
  BY DirectorStep, AppsStep, SecretsStep, RoundStep, WorkStep, HistoryStep, StageStep,
     TodoStep, WorkInvStep, AppUidStep, SecretUidStep, ContentStep, ListedStep, UserStep,
     SecretsInvStep DEF IInv, TypeParts, UidInv

\* IInv holds in every reachable state, whatever users do and whichever calls fail.
THEOREM InductiveInvariant == Spec => []IInv
  BY InitIInv, StepIInv, PTL DEF Spec

\* Every variable has its type.
THEOREM TypeCorrect == Spec => []TypeOK
<1>1. IInv => TypeOK
  BY DEF IInv, TypeParts, DirectorOK, AppsOK, SecretsOK, RoundOK, WorkOK, HistoryOK, TypeOK
<1> QED
  BY InductiveInvariant, <1>1, PTL

\* Between two rounds, a secret of one of Compass's Applications that the Application
\* does not name was left behind by a failure, or its bundle has no API definition.
THEOREM OnlyFailuresLeakSecrets == Spec => []OnlyFailuresLeak
<1>1. IInv => OnlyFailuresLeak
  BY DEF IInv, SecretsInv, Owned, StillObsolete, OnlyFailuresLeak
<1> QED
  BY InductiveInvariant, <1>1, PTL

\* Secrets disappear in two ways: they are deleted for the Application worked on, or
\* collected.
LEMMA WhoRemoves ==
  ASSUME IInv, [Next]_vars, NEW s \in SecretNames,
         secrets[s] # NoSecret, secrets'[s] = NoSecret, secrets[s].owner = apps[s.app].uid
  PROVE  Working /\ s \in drop
<1> USE DEF IInv, TypeParts
<1>1. ASSUME NEW x \in SecretNames, DeleteSecret(x) PROVE Working /\ s \in drop
  BY <1>1, GoneEffect DEF DeleteSecret, Gone
<1>2. ASSUME NEW x \in SecretNames, UpsertSecret(x) PROVE FALSE
  <2>1. owner # 0
    BY <1>2 DEF UpsertSecret
  <2> QED
    BY <1>2, <2>1, UpsertEffect, NoneFacts DEF Written
<1>3. ASSUME NEW x \in SecretNames, CollectGarbage(x) PROVE FALSE
  BY <1>3, GoneEffect DEF CollectGarbage, Gone
<1>4. ASSUME NEW a \in Names,
             \/ createApplication(a) \/ updateApplication(a) \/ deleteApplication(a)
             \/ UserDeletes(a) \/ UserCreates(a)
      PROVE  FALSE
  BY <1>4 DEF createApplication, updateApplication, deleteApplication, UserDeletes,
     UserCreates
<1>5. CASE \/ FetchConfiguration \/ ListApplications \/ NextLoop \/ getApplicationUID
           \/ ContinueUpsert \/ deleteCredentialsSecrets \/ deleteResource
           \/ DirectorChanges \/ Crash \/ UNCHANGED vars
  BY <1>5 DEF FetchConfiguration, ListApplications, NextLoop, getApplicationUID,
     ContinueUpsert, deleteCredentialsSecrets, deleteResource, DirectorChanges, Crash, vars
<1> QED
  BY <1>1, <1>2, <1>3, <1>4, <1>5 DEF Next, Round

\* What is obsolete belongs to the Application and is not named by the new spec.
LEMMA ObsoleteIsNotNamed ==
  ASSUME NEW a \in Names, target[a] \in Configs, NEW s \in SecretNames,
         s \in ObsoleteCredentials(a) \cup ObsoleteParameters(a)
  PROVE  /\ s.app = a
         /\ s \notin getCredentialsSecretNames(a, Do(target[a]))
         /\ s \notin getRequestParametersSecretNames(a, Do(target[a]))
<1>1. CASE s \in ObsoleteCredentials(a)
  <2>1. s.app = a /\ s.kind = "credentials"
    BY <1>1 DEF ObsoleteCredentials, getCredentialsSecretNames, SecretsNamed
  <2> QED
    BY <1>1, <2>1, DoNames DEF ObsoleteCredentials
<1>2. CASE s \in ObsoleteParameters(a)
  <2>1. s.app = a /\ s.kind = "parameters"
    BY <1>2 DEF ObsoleteParameters, getRequestParametersSecretNames, SecretsNamed
  <2> QED
    BY <1>2, <2>1, DoNames DEF ObsoleteParameters
<1> QED
  BY <1>1, <1>2

\* A secret that an Application names and that belongs to this Application, not to one of
\* the same name before it, does not disappear while the round has the Application.
THEOREM SecretsInUseStay == Spec => CredentialsInUseStay
<1>1. IInv /\ [Next]_vars =>
        [\A s \in SecretNames :
           /\ secrets[s] # NoSecret /\ secrets'[s] = NoSecret
           /\ secrets[s].owner = apps[s.app].uid
           => s \notin Named(s.app) \/ target[s.app] = NoApp]_vars
  <2> SUFFICES ASSUME IInv, [Next]_vars, NEW s \in SecretNames,
                      secrets[s] # NoSecret, secrets'[s] = NoSecret,
                      secrets[s].owner = apps[s.app].uid, target[s.app] # NoApp
               PROVE  s \notin Named(s.app)
    OBVIOUS
  <2> USE DEF IInv, TypeParts
  <2>1. Working /\ s \in drop
    BY WhoRemoves
  <2>2. stage = "update"
    BY <2>1 DEF Working, StageInv, TodoInv, ForLoop, WorkInv
  <2>3. target[cur] \in Configs
    BY <2>1, <2>2 DEF StageInv, TodoInv, ForLoop, RoundOK, WorkOK
  <2>4. s \in ObsoleteCredentials(cur) \cup ObsoleteParameters(cur)
    BY <2>1, <2>2 DEF WorkInv, Obsolete
  <2>5. /\ s.app = cur
        /\ s \notin getCredentialsSecretNames(cur, Do(target[cur]))
        /\ s \notin getRequestParametersSecretNames(cur, Do(target[cur]))
    BY <2>3, <2>4, ObsoleteIsNotNamed DEF WorkOK
  <2>6. apps[cur].spec \in {Do(target[cur]), NoApp, Manual}
    BY <2>2 DEF ContentInv
  <2>7. CASE apps[cur].spec = Do(target[cur])
    BY <2>5, <2>7 DEF Named
  <2>8. CASE apps[cur].spec \in {NoApp, Manual}
    BY <2>5, <2>8, NoAppFacts DEF Named, getCredentialsSecretNames,
       getRequestParametersSecretNames, SecretsNamed
  <2> QED
    BY <2>6, <2>7, <2>8
<1> QED
  BY InductiveInvariant, <1>1, PTL DEF Spec, CredentialsInUseStay

-----------------------------------------------------------------------------
(* The refinement: KymaSync implements RuntimeApplications                 *)

\* The abstract state.
held == [a \in Names |-> apps[a].spec]
wanted == [a \in Names |-> IF target[a] = NoApp THEN NoApp ELSE Do(target[a])]
claimed == {a \in Names : ApplicationExists(a)}

\* The abstract state is a function of the resources, the configuration and the listing.
LEMMA AbstractNext ==
  /\ UNCHANGED apps => held' = held
  /\ UNCHANGED target => wanted' = wanted
  /\ UNCHANGED listed => claimed' = claimed
  BY DEF held, wanted, claimed, ApplicationExists

\* What the Director wants has its type.
LEMMA WantedType ==
  ASSUME target' \in [Names -> Configs \cup {NoApp}]
  PROVE  wanted' \in [Names -> CompassSpecs \cup {NoApp}]
  BY DoFacts DEF wanted

\* Nothing is claimed when nothing is listed.
LEMMA NothingClaimed ==
  /\ listed = Nothing => claimed = {}
  /\ listed' = Nothing => claimed' = {}
  BY DEF claimed, ApplicationExists, Nothing

\* A round that starts, or ends, is the abstract Ask.
LEMMA AskStep ==
  ASSUME RoundOK', listed' = Nothing, UNCHANGED <<apps, edits>>
  PROVE  Runtime!Ask
<1>1. /\ wanted' \in [Names -> CompassSpecs \cup {NoApp}] /\ claimed' = {}
      /\ UNCHANGED <<held, edits>>
  BY WantedType, NothingClaimed, AbstractNext DEF RoundOK
<1> QED
  BY <1>1 DEF Runtime!Ask, held, wanted, claimed

\* The listing is the abstract Claim.
LEMMA ClaimStep ==
  ASSUME AppsOK, UNCHANGED <<apps, target, edits>>,
         listed' = [a \in Names |-> IF FromCompass(a) THEN apps[a].spec ELSE NoApp]
  PROVE  Runtime!Claim
<1>1. claimed' = {a \in Names : held[a] \in CompassSpecs} /\ UNCHANGED <<held, wanted, edits>>
  BY AbstractNext, NoAppFacts DEF claimed, held, ApplicationExists, FromCompass
<1> QED
  BY <1>1 DEF Runtime!Claim, held, wanted, claimed

\* The resources that one step changes.
LEMMA HeldNext ==
  ASSUME NEW a \in Names, NEW spec
  PROVE  /\ Removed(a) => held' = [held EXCEPT ![a] = NoApp]
         /\ Created(a, spec) => held[a] = NoApp /\ held' = [held EXCEPT ![a] = spec]
         /\ Updated(a, spec) => held[a] # NoApp /\ held' = [held EXCEPT ![a] = spec]
  BY DEF held, Removed, Created, Updated

\* Creation is the abstract Create.
LEMMA CreateStep ==
  ASSUME RoundOK, TodoInv, NEW a \in Names, createApplication(a), Created(a, Do(target[a]))
  PROVE  Runtime!Create(a)
<1>1. target[a] \in Configs /\ listed[a] = NoApp /\ UNCHANGED <<target, listed, edits>>
  BY DEF createApplication, TodoInv, ForLoop, RoundOK
<1>2. /\ a \notin claimed /\ held[a] = NoApp /\ wanted[a] # NoApp
      /\ held' = [held EXCEPT ![a] = wanted[a]] /\ UNCHANGED <<wanted, claimed, edits>>
  BY <1>1, HeldNext, AbstractNext, DoFacts, NoAppFacts DEF wanted, claimed, ApplicationExists
<1> QED
  BY <1>2 DEF Runtime!Create, held, wanted, claimed

\* Update is the abstract Replace.
LEMMA UpdateStep ==
  ASSUME RoundOK, TodoInv, NEW a \in Names, updateApplication(a), Updated(a, Do(target[a]))
  PROVE  Runtime!Replace(a)
<1>1. target[a] \in Configs /\ listed[a] # NoApp /\ UNCHANGED <<target, listed, edits>>
  BY DEF updateApplication, TodoInv, ForLoop, RoundOK
<1>2. /\ a \in claimed /\ held[a] # NoApp
      /\ held' = [held EXCEPT ![a] = wanted[a]] /\ UNCHANGED <<wanted, claimed, edits>>
  BY <1>1, HeldNext, AbstractNext, NoAppFacts DEF wanted, claimed, ApplicationExists
<1> QED
  BY <1>2 DEF Runtime!Replace, held, wanted, claimed

\* So is the removal of a resource, if it is still there.
LEMMA RemoveStep ==
  ASSUME RoundOK, StageInv, TodoInv, deleteResource, NEW a \in Names, a = cur, Removed(a)
  PROVE  Runtime!Replace(a) \/ UNCHANGED <<held, wanted, claimed, edits>>
<1>1. target[a] = NoApp /\ listed[a] # NoApp /\ UNCHANGED <<target, listed, edits>>
  BY DEF deleteResource, StageInv, TodoInv, ForLoop, Working
<1>2. UNCHANGED <<wanted, claimed, edits>>
  BY <1>1, AbstractNext
<1>3. CASE held[a] = NoApp
  BY <1>1, <1>2, <1>3, HeldNext DEF held
<1>4. CASE held[a] # NoApp
  <2>1. a \in claimed /\ held' = [held EXCEPT ![a] = wanted[a]]
    BY <1>1, HeldNext DEF wanted, claimed, ApplicationExists
  <2> QED
    BY <1>2, <1>4, <2>1 DEF Runtime!Replace, held, wanted, claimed
<1> QED
  BY <1>3, <1>4

\* What the Director's users and the users of the cluster do is the abstract OthersAct.
LEMMA OthersStep ==
  ASSUME AppsOK, WorkOK, HistoryOK,
         \/ DirectorChanges
         \/ \E a \in Names : UserDeletes(a) \/ UserCreates(a)
  PROVE  Runtime!OthersAct
<1>1. UNCHANGED <<target, listed>> /\ edits' = edits + 1
  BY DEF DirectorChanges, UserDeletes, UserCreates, Edit
<1>2. UNCHANGED <<wanted, claimed>>
  BY <1>1, AbstractNext
<1>3. CASE DirectorChanges
  <2>1. UNCHANGED held
    BY <1>3, AbstractNext DEF DirectorChanges
  <2> QED
    BY <1>1, <1>2, <2>1 DEF Runtime!OthersAct, held, wanted, claimed
<1>4. ASSUME NEW a \in Names, UserDeletes(a) PROVE Runtime!OthersAct
  <2>1. held' = [held EXCEPT ![a] = NoApp]
    BY <1>4, RemoveEffect, HeldNext
  <2> QED
    BY <1>1, <1>2, <2>1 DEF Runtime!OthersAct, held, wanted, claimed
<1>5. ASSUME NEW a \in Names, UserCreates(a) PROVE Runtime!OthersAct
  <2>1. held[a] = NoApp /\ held' = [held EXCEPT ![a] = Manual]
    BY <1>5, UserCreateEffect, HeldNext
  <2> QED
    BY <1>1, <1>2, <2>1 DEF Runtime!OthersAct, held, wanted, claimed
<1> QED
  BY <1>3, <1>4, <1>5

\* Every step is an abstract step or a stutter.
LEMMA StepMaps ==
  IInv /\ IInv' /\ [Next]_vars => Runtime!Next \/ UNCHANGED <<held, wanted, claimed, edits>>
<1> SUFFICES ASSUME IInv, IInv', [Next]_vars
             PROVE  Runtime!Next \/ UNCHANGED <<held, wanted, claimed, edits>>
  OBVIOUS
<1>0. /\ AppsOK /\ RoundOK /\ WorkOK /\ HistoryOK /\ StageInv /\ TodoInv
      /\ RoundOK'
  BY DEF IInv, TypeParts
<1> DEFINE Maps == Runtime!Next \/ UNCHANGED <<held, wanted, claimed, edits>>
<1> SUFFICES Maps
  BY DEF Maps
<1> HIDE DEF Maps
<1>1. UNCHANGED <<apps, target, listed, edits>> => Maps
  BY AbstractNext DEF Maps
<1>2. CASE FetchConfiguration
  <2>1. listed' = Nothing /\ UNCHANGED <<apps, edits>>
    BY <1>0, <1>2 DEF FetchConfiguration, StageInv
  <2> QED
    BY <1>0, <2>1, AskStep DEF Maps, Runtime!Next
<1>3. CASE ListApplications
  BY <1>0, <1>3, AskStep, ClaimStep DEF Maps, Runtime!Next, ListApplications, EndRound
<1>4. CASE NextLoop
  BY <1>0, <1>1, <1>4, AskStep DEF Maps, Runtime!Next, NextLoop, EndRound
<1>5. ASSUME NEW a \in Names, createApplication(a) PROVE Maps
  <2>1. CASE UNCHANGED apps
    BY <1>1, <1>5, <2>1 DEF createApplication
  <2>2. CASE Created(a, Do(target[a]))
    BY <1>0, <1>5, <2>2, CreateStep DEF Maps, Runtime!Next
  <2> QED
    BY <1>0, <1>5, <2>1, <2>2, CreateEffect
<1>6. ASSUME NEW a \in Names, updateApplication(a) PROVE Maps
  <2>1. CASE UNCHANGED apps
    BY <1>1, <1>6, <2>1 DEF updateApplication
  <2>2. CASE Updated(a, Do(target[a]))
    BY <1>0, <1>6, <2>2, UpdateStep DEF Maps, Runtime!Next
  <2> QED
    BY <1>0, <1>6, <2>1, <2>2, UpdateEffect
<1>7. CASE deleteResource
  <2>1. CASE UNCHANGED apps
    BY <1>1, <1>7, <2>1 DEF deleteResource
  <2>2. CASE Removed(cur)
    <3>1. PICK a \in Names : a = cur
      BY <1>0 DEF WorkOK
    <3>2. Removed(a)
      BY <2>2, <3>1 DEF Removed
    <3> QED
      BY <1>0, <1>7, <3>1, <3>2, RemoveStep DEF Maps, Runtime!Next
  <2> QED
    BY <1>0, <1>7, <2>1, <2>2, RemoveEffect
<1>8. CASE DirectorChanges \/ \E a \in Names : UserDeletes(a) \/ UserCreates(a)
  BY <1>0, <1>8, OthersStep DEF Maps, Runtime!Next
<1>9. CASE Crash
  BY <1>0, <1>9, AskStep DEF Maps, Runtime!Next, Crash, EndRound
<1>10. ASSUME NEW a \in Names, deleteApplication(a) PROVE Maps
  BY <1>1, <1>10 DEF deleteApplication
<1>11. ASSUME NEW s \in SecretNames, DeleteSecret(s) \/ UpsertSecret(s) \/ CollectGarbage(s)
       PROVE  Maps
  BY <1>1, <1>11 DEF DeleteSecret, UpsertSecret, CollectGarbage
<1>12. CASE getApplicationUID \/ ContinueUpsert \/ deleteCredentialsSecrets \/ UNCHANGED vars
  BY <1>1, <1>12 DEF getApplicationUID, ContinueUpsert, deleteCredentialsSecrets, vars
<1> QED
  BY <1>2, <1>3, <1>4, <1>5, <1>6, <1>7, <1>8, <1>9, <1>10, <1>11, <1>12 DEF Next, Round

\* The Applications of the runtime change only as RuntimeApplications allows.
THEOREM ImplementsRuntime == Spec => RuntimeSpec
<1>1. Init => Runtime!Init
  BY NoneFacts DEF Init, Runtime!Init, ApplicationExists, Nothing
<1>2. IInv /\ IInv' /\ [Next]_vars =>
        [Runtime!Next]_<<held, wanted, claimed, edits>>
  BY StepMaps
<1> QED
  BY <1>1, <1>2, InductiveInvariant, PTL DEF Spec, RuntimeSpec, Runtime!Spec, held, wanted,
     claimed
=============================================================================
