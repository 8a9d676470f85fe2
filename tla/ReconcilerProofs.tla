--------------------------- MODULE ReconcilerProofs ---------------------------
(***************************************************************************)
(* The safety properties of Reconciler for every number of manifests and   *)
(* policies, every set of specs, and any number of faults and changes.     *)
(*                                                                         *)
(* IInv (module ReconcilerInv) is proved part by part: each ...Step lemma  *)
(* shows that a step keeps one part, given the parts before it, with one   *)
(* case per action.  The theorems at the end collect the parts.            *)
(***************************************************************************)
EXTENDS ReconcilerInv, TLAPS

\* The resource that does not exist is well-formed.
LEMMA NoCRType == NoCR \in ApplicationConnectors /\ ~NoCR.exists /\ ~NoCR.finalizer
  BY DEF NoCR, ApplicationConnectors, Reasons

\* The initial states satisfy the invariant.
LEMMA InitIInv == Init => IInv
<1> SUFFICES ASSUME Init PROVE IInv
  OBVIOUS
<1> USE DEF Init
<1>1. CopiesOK
  BY NoCRType DEF CopiesOK
<1>2. ObjectsOK
  <2>1. content \in [Manifests -> Renderings \cup {Absent}]
    OBVIOUS
  <2>2. idx \in 1..(N + 1)
    BY SizesAssumption DEF N
  <2> QED
    BY <2>1, <2>2 DEF ObjectsOK
<1>3. ControlOK
  BY BoundsAssumption DEF ControlOK, StateFns
<1>4. FlagsOK
  BY DEF FlagsOK
<1>5. SpecsKnown
  BY NoCRType DEF SpecsKnown
<1>6. CopyInv
  BY NoCRType DEF CopyInv, CurrentCopies, OutdatedCopies, DeletionReasons, Installs,
     StartFns, InstallFns, RemoveFns, isDeleting, NoCR
<1>7. RemovalInv /\ ReadyInv
  BY DEF RemovalInv, ReadyInv, StartFns
<1>8. OnlyFailedDeletesLeak /\ AckedDepsAreWatched
  BY DEF OnlyFailedDeletesLeak, AckedDepsAreWatched
<1> QED
  BY <1>1, <1>2, <1>3, <1>4, <1>5, <1>6, <1>7, <1>8 DEF IInv, TypeInv, TypeOK

-----------------------------------------------------------------------------
(* Types *)

\* Every copy of the resource stays well-formed, and a copy that exists has a spec.
LEMMA CopiesStep == TypeInv /\ [Next]_vars => (CopiesOK /\ SpecsKnown)'
<1> SUFFICES ASSUME TypeInv, [Next]_vars PROVE (CopiesOK /\ SpecsKnown)'
  OBVIOUS
<1> USE SpecsAssumption DEF TypeInv, TypeOK, CopiesOK, SpecsKnown,
      ControlOK, ApplicationConnectors, clusterVars, envVars, cacheVars,
      queueVars, memVars, loopVars, runVars
<1>1. CASE Reconcile
  BY <1>1 DEF Reconcile
<1>2. CASE sFnCheckDependencies
  BY <1>2 DEF sFnCheckDependencies, switchState, stopWith, Reasons
<1>3. CASE sFnRegisterDependencyWatch
  BY <1>3 DEF sFnRegisterDependencyWatch, stopWith, Reasons
<1>4. CASE sFnInitialize
  <2>1. CASE AddFinalizer
    <3>1. cr' \in ApplicationConnectors /\ cr'.exists = cr.exists /\ cr'.spec = cr.spec
      BY <2>1 DEF AddFinalizer
    <3>2. inst' \in ApplicationConnectors /\ inst'.exists /\ inst'.spec \in CRSpecs
      <4>1. "Initialized" \in Reasons /\ inst.exists /\ inst.spec \in CRSpecs
        BY <1>4 DEF sFnInitialize, Reasons
      <4>2. CASE inst' = [inst EXCEPT !.finalizer = TRUE]
        BY <4>1, <4>2
      <4>3. CASE inst' = [inst EXCEPT !.finalizer = TRUE, !.reason = "Initialized"]
        BY <4>1, <4>3
      <4> QED
        BY <2>1, <4>2, <4>3 DEF AddFinalizer
    <3>3. fn' = "sFnUpdateStatus" /\ cache' = cache /\ fn = "sFnInitialize"
      BY <2>1, <1>4 DEF sFnInitialize, AddFinalizer
    <3> QED
      BY <3>1, <3>2, <3>3
  <2>2. CASE inst.deleting
    BY <2>2, <1>4, NoCRType DEF sFnInitialize, AddFinalizer, EndRun, switchState
  <2>3. CASE ~inst.deleting /\ inst.finalizer
    BY <2>3, <1>4 DEF sFnInitialize, AddFinalizer, switchState
  <2> QED
    BY <2>1, <2>2, <2>3, <1>4 DEF sFnInitialize
<1>5. CASE sFnDetectDomain
  BY <1>5 DEF sFnDetectDomain, switchState, stopWith, Reasons
<1>6. CASE sFnUpdate
  BY <1>6 DEF sFnUpdate, switchState, stopWith, Reasons
<1>7. CASE PatchObject
  BY <1>7 DEF PatchObject
<1>8. CASE ApplyDone
  BY <1>8 DEF ApplyDone, switchState, stopWith, Reasons
<1>9. CASE sFnReconcileOptionalObjects
  BY <1>9 DEF sFnReconcileOptionalObjects, ApplyPolicies,
     removeNetworkPolicies, switchState, stopWith, Reasons
<1>10. CASE sFnVerify
  BY <1>10 DEF sFnVerify, stopWith, Reasons
<1>11. CASE sFnDeleteResources
  BY <1>11 DEF sFnDeleteResources, switchState, stopWith, Reasons
<1>12. CASE DeleteObject
  BY <1>12 DEF DeleteObject
<1>13. CASE DeleteDone
  BY <1>13 DEF DeleteDone, switchState, stopWith, Reasons
<1>14. CASE sFnRemoveFinalizer
  BY <1>14, NoCRType DEF sFnRemoveFinalizer, EndRun
<1>15. CASE sFnUpdateStatus
  BY <1>15, NoCRType DEF sFnUpdateStatus, EndRun
<1>16. CASE DeliverCR
  BY <1>16 DEF DeliverCR
<1>17. CASE Restart
  BY <1>17, NoCRType DEF Restart
<1>18. CASE CreateCR
  BY <1>18 DEF CreateCR, UserWrite, Edit, NewCR, Reasons
<1>19. CASE EditCR
  BY <1>19 DEF EditCR, UserWrite, Edit
<1>20. CASE DeleteCR
  <2>1. CASE cr.finalizer
    BY <2>1, <1>20 DEF DeleteCR, UserWrite, Edit
  <2>2. CASE ~cr.finalizer
    BY <2>2, <1>20, NoCRType DEF DeleteCR, UserWrite, Edit
  <2> QED
    BY <2>1, <2>2
<1>21. CASE \E w \in Workloads : BecomeAvailable(w) \/ LoseAvailable(w)
  BY <1>21 DEF BecomeAvailable, LoseAvailable, Edit
<1>22. CASE \E o \in Objs : Drift(o)
  BY <1>22 DEF Drift, Edit
<1>23. CASE ReconcileNotFound \/ mapFunction \/ DeliverPolicies \/ RequeueTimer
  BY <1>23 DEF ReconcileNotFound, mapFunction, DeliverPolicies, RequeueTimer
<1>24. CASE ToggleSecret \/ ChangeShoot \/ ToggleIstio \/ UNCHANGED vars
  BY <1>24 DEF ToggleSecret, ChangeShoot, ToggleIstio, Edit, vars
<1> QED
  BY <1>1, <1>2, <1>3, <1>4, <1>5, <1>6, <1>7, <1>8, <1>9, <1>10, <1>11,
     <1>12, <1>13, <1>14, <1>15, <1>16, <1>17, <1>18, <1>19, <1>20, <1>21,
     <1>22, <1>23, <1>24 DEF Next, Run, Environment

\* The objects of the module, and the loops over them, keep their types.
LEMMA ObjectsStep == TypeInv /\ [Next]_vars => ObjectsOK'
<1> SUFFICES ASSUME TypeInv, [Next]_vars PROVE ObjectsOK'
  OBVIOUS
<1> USE SizesAssumption, KindsAssumption, SpecsAssumption DEF TypeInv,
      TypeOK, ObjectsOK, SpecsKnown, ControlOK, N, Manifests, Deps, Objs,
      Policies, clusterVars, envVars, cacheVars, queueVars, memVars, loopVars,
      runVars
<1>1. CASE Reconcile
  BY <1>1 DEF Reconcile
<1>2. CASE sFnCheckDependencies
  BY <1>2 DEF sFnCheckDependencies, switchState, stopWith
<1>3. CASE sFnRegisterDependencyWatch
  BY <1>3 DEF sFnRegisterDependencyWatch, stopWith
<1>4. CASE sFnInitialize
  BY <1>4 DEF sFnInitialize, AddFinalizer, EndRun, switchState
<1>5. CASE sFnDetectDomain
  BY <1>5 DEF sFnDetectDomain, switchState, stopWith
<1>6. CASE sFnUpdate
  <2>1. manifest' \in Renderings \cup {Absent}
    <3>1. inst.spec \in CRSpecs /\ domainName \in Domains \cup {NoDomain}
      BY <1>6 DEF sFnUpdate, CopiesOK
    <3> QED
      BY <1>6, <3>1 DEF sFnUpdate, buildUpdateCompassRuntimeAgent, Renderings, CRSpecs
  <2> QED
    BY <1>6, <2>1 DEF sFnUpdate
<1>7. CASE PatchObject
  <2>1. content' \in [Manifests -> Renderings \cup {Absent}]
    BY <1>7 DEF PatchObject
  <2>2. idx' \in 1..(N + 1)
    BY <1>7 DEF PatchObject
  <2>3. hooked' \subseteq Deps /\ seen' \subseteq Workloads
    BY <1>7 DEF PatchObject
  <2> QED
    BY <1>7, <2>1, <2>2, <2>3 DEF PatchObject
<1>8. CASE ApplyDone
  BY <1>8 DEF ApplyDone, switchState, stopWith
<1>9. CASE sFnReconcileOptionalObjects
  BY <1>9 DEF sFnReconcileOptionalObjects, ApplyPolicies,
     removeNetworkPolicies, switchState, stopWith
<1>10. CASE sFnVerify
  BY <1>10 DEF sFnVerify, stopWith
<1>11. CASE sFnDeleteResources
  BY <1>11 DEF sFnDeleteResources, switchState, stopWith
<1>12. CASE DeleteObject
  <2>1. content' \in [Manifests -> Renderings \cup {Absent}]
    <3>1. idx \in Manifests /\ content[idx] \in Renderings \cup {Absent}
      BY <1>12 DEF DeleteObject
    <3>2. CASE content' = content
      BY <3>2
    <3>3. CASE content' = [content EXCEPT ![idx] = IF idx \in hooked THEN @ ELSE Absent]
      BY <3>1, <3>3
    <3> QED
      BY <1>12, <3>2, <3>3 DEF DeleteObject
  <2>2. idx' \in 1..(N + 1)
    BY <1>12 DEF DeleteObject
  <2>3. avail' \subseteq Workloads
    BY <1>12 DEF DeleteObject
  <2>4. delFailed' \subseteq Manifests
    <3>1. idx \in Manifests /\ delFailed \subseteq Manifests
      BY <1>12 DEF DeleteObject
    <3>2. delFailed' \subseteq delFailed \cup {idx}
      BY <1>12 DEF DeleteObject
    <3> QED
      BY <3>1, <3>2
  <2> QED
    BY <1>12, <2>1, <2>2, <2>3, <2>4 DEF DeleteObject
<1>13. CASE DeleteDone
  BY <1>13 DEF DeleteDone, switchState, stopWith
<1>14. CASE sFnRemoveFinalizer
  BY <1>14 DEF sFnRemoveFinalizer, EndRun
<1>15. CASE sFnUpdateStatus
  BY <1>15 DEF sFnUpdateStatus, EndRun
<1>16. CASE DeliverCR
  BY <1>16 DEF DeliverCR
<1>17. CASE Restart
  BY <1>17 DEF Restart
<1>18. CASE CreateCR
  BY <1>18 DEF CreateCR, UserWrite, Edit, NewCR
<1>19. CASE EditCR
  BY <1>19 DEF EditCR, UserWrite, Edit
<1>20. CASE DeleteCR
  BY <1>20 DEF DeleteCR, UserWrite, Edit
<1>21. CASE \E w \in Workloads : BecomeAvailable(w) \/ LoseAvailable(w)
  BY <1>21 DEF BecomeAvailable, LoseAvailable, Edit
<1>22. CASE \E o \in Objs : Drift(o)
  BY <1>22 DEF Drift, Edit
<1>23. CASE ReconcileNotFound \/ mapFunction \/ DeliverPolicies \/ RequeueTimer
  BY <1>23 DEF ReconcileNotFound, mapFunction, DeliverPolicies, RequeueTimer
<1>24. CASE ToggleSecret \/ ChangeShoot \/ ToggleIstio \/ UNCHANGED vars
  BY <1>24 DEF ToggleSecret, ChangeShoot, ToggleIstio, Edit, vars
<1> QED
  BY <1>1, <1>2, <1>3, <1>4, <1>5, <1>6, <1>7, <1>8, <1>9, <1>10, <1>11,
     <1>12, <1>13, <1>14, <1>15, <1>16, <1>17, <1>18, <1>19, <1>20, <1>21,
     <1>22, <1>23, <1>24 DEF Next, Run, Environment

\* The control state, the domain names and the bounds keep their types.
LEMMA ControlStep == TypeInv /\ [Next]_vars => ControlOK'
<1> SUFFICES ASSUME TypeInv, [Next]_vars PROVE ControlOK'
  OBVIOUS
<1> USE BoundsAssumption DEF TypeInv, TypeOK, ControlOK, StateFns, Fault,
      NoFault, clusterVars, envVars, cacheVars, queueVars, memVars, loopVars,
      runVars
<1>1. CASE Reconcile
  BY <1>1 DEF Reconcile
<1>2. CASE sFnCheckDependencies
  BY <1>2 DEF sFnCheckDependencies, switchState, stopWith
<1>3. CASE sFnRegisterDependencyWatch
  BY <1>3 DEF sFnRegisterDependencyWatch, stopWith
<1>4. CASE sFnInitialize
  BY <1>4 DEF sFnInitialize, AddFinalizer, EndRun, switchState
<1>5. CASE sFnDetectDomain
  BY <1>5 DEF sFnDetectDomain, switchState, stopWith
<1>6. CASE sFnUpdate
  BY <1>6 DEF sFnUpdate, switchState, stopWith
<1>7. CASE PatchObject
  BY <1>7 DEF PatchObject
<1>8. CASE ApplyDone
  BY <1>8 DEF ApplyDone, switchState, stopWith
<1>9. CASE sFnReconcileOptionalObjects
  BY <1>9 DEF sFnReconcileOptionalObjects, ApplyPolicies,
     removeNetworkPolicies, switchState, stopWith
<1>10. CASE sFnVerify
  BY <1>10 DEF sFnVerify, stopWith
<1>11. CASE sFnDeleteResources
  BY <1>11 DEF sFnDeleteResources, switchState, stopWith
<1>12. CASE DeleteObject
  BY <1>12 DEF DeleteObject
<1>13. CASE DeleteDone
  BY <1>13 DEF DeleteDone, switchState, stopWith
<1>14. CASE sFnRemoveFinalizer
  BY <1>14 DEF sFnRemoveFinalizer, EndRun
<1>15. CASE sFnUpdateStatus
  BY <1>15 DEF sFnUpdateStatus, EndRun
<1>16. CASE DeliverCR
  BY <1>16 DEF DeliverCR
<1>17. CASE Restart
  BY <1>17 DEF Restart
<1>18. CASE CreateCR
  BY <1>18 DEF CreateCR, UserWrite, Edit, NewCR
<1>19. CASE EditCR
  BY <1>19 DEF EditCR, UserWrite, Edit
<1>20. CASE DeleteCR
  BY <1>20 DEF DeleteCR, UserWrite, Edit
<1>21. CASE \E w \in Workloads : BecomeAvailable(w) \/ LoseAvailable(w)
  BY <1>21 DEF BecomeAvailable, LoseAvailable, Edit
<1>22. CASE \E o \in Objs : Drift(o)
  BY <1>22 DEF Drift, Edit
<1>23. CASE ReconcileNotFound \/ mapFunction \/ DeliverPolicies \/ RequeueTimer
  BY <1>23 DEF ReconcileNotFound, mapFunction, DeliverPolicies, RequeueTimer
<1>24. CASE ToggleSecret \/ ChangeShoot \/ ToggleIstio \/ UNCHANGED vars
  BY <1>24 DEF ToggleSecret, ChangeShoot, ToggleIstio, Edit, vars
<1> QED
  BY <1>1, <1>2, <1>3, <1>4, <1>5, <1>6, <1>7, <1>8, <1>9, <1>10, <1>11,
     <1>12, <1>13, <1>14, <1>15, <1>16, <1>17, <1>18, <1>19, <1>20, <1>21,
     <1>22, <1>23, <1>24 DEF Next, Run, Environment

\* The Boolean variables stay Boolean.
LEMMA FlagsStep == TypeInv /\ [Next]_vars => FlagsOK'
<1> SUFFICES ASSUME TypeInv, [Next]_vars PROVE FlagsOK'
  OBVIOUS
<1> USE DEF TypeInv, TypeOK, FlagsOK, clusterVars, envVars, cacheVars,
      queueVars, memVars, loopVars, runVars
<1>1. CASE Reconcile
  BY <1>1 DEF Reconcile
<1>2. CASE ReconcileNotFound
  BY <1>2 DEF ReconcileNotFound
<1>3. CASE sFnCheckDependencies
  BY <1>3 DEF sFnCheckDependencies, switchState, stopWith
<1>4. CASE sFnRegisterDependencyWatch
  BY <1>4 DEF sFnRegisterDependencyWatch, stopWith
<1>5. CASE sFnInitialize
  BY <1>5 DEF sFnInitialize, AddFinalizer, EndRun, switchState
<1>6. CASE sFnDetectDomain
  BY <1>6 DEF sFnDetectDomain, switchState, stopWith
<1>7. CASE sFnUpdate
  BY <1>7 DEF sFnUpdate, switchState, stopWith
<1>8. CASE PatchObject
  BY <1>8 DEF PatchObject
<1>9. CASE ApplyDone
  BY <1>9 DEF ApplyDone, switchState, stopWith
<1>10. CASE sFnReconcileOptionalObjects
  BY <1>10 DEF sFnReconcileOptionalObjects, ApplyPolicies,
     removeNetworkPolicies, switchState, stopWith
<1>11. CASE sFnVerify
  BY <1>11 DEF sFnVerify, stopWith
<1>12. CASE sFnDeleteResources
  BY <1>12 DEF sFnDeleteResources, switchState, stopWith
<1>13. CASE DeleteObject
  BY <1>13 DEF DeleteObject
<1>14. CASE DeleteDone
  BY <1>14 DEF DeleteDone, switchState, stopWith
<1>15. CASE sFnRemoveFinalizer
  BY <1>15 DEF sFnRemoveFinalizer, EndRun
<1>16. CASE sFnUpdateStatus
  BY <1>16 DEF sFnUpdateStatus, EndRun
<1>17. CASE DeliverCR
  BY <1>17 DEF DeliverCR
<1>18. CASE mapFunction
  BY <1>18 DEF mapFunction
<1>19. CASE DeliverPolicies
  BY <1>19 DEF DeliverPolicies
<1>20. CASE RequeueTimer
  BY <1>20 DEF RequeueTimer
<1>21. CASE Restart
  <2>1. cr.exists \in BOOLEAN
    BY DEF CopiesOK, ApplicationConnectors
  <2> QED
    BY <1>21, <2>1 DEF Restart
<1>22. CASE CreateCR
  BY <1>22 DEF CreateCR, UserWrite, Edit, NewCR
<1>23. CASE EditCR
  BY <1>23 DEF EditCR, UserWrite, Edit
<1>24. CASE DeleteCR
  BY <1>24 DEF DeleteCR, UserWrite, Edit
<1>25. CASE ToggleSecret
  BY <1>25 DEF ToggleSecret, Edit
<1>26. CASE ChangeShoot
  BY <1>26 DEF ChangeShoot, Edit
<1>27. CASE ToggleIstio
  BY <1>27 DEF ToggleIstio, Edit
<1>28. CASE \E w \in Workloads : BecomeAvailable(w)
  BY <1>28 DEF BecomeAvailable
<1>29. CASE \E w \in Workloads : LoseAvailable(w)
  BY <1>29 DEF LoseAvailable, Edit
<1>30. CASE \E o \in Objs : Drift(o)
  BY <1>30 DEF Drift, Edit
<1>31. CASE UNCHANGED vars
  BY <1>31 DEF vars
<1> QED
  BY <1>1, <1>2, <1>3, <1>4, <1>5, <1>6, <1>7, <1>8, <1>9, <1>10, <1>11,
     <1>12, <1>13, <1>14, <1>15, <1>16, <1>17, <1>18, <1>19, <1>20, <1>21,
     <1>22, <1>23, <1>24, <1>25, <1>26, <1>27, <1>28, <1>29, <1>30, <1>31
     DEF Next, Run, Environment

\* A step keeps the types.
LEMMA TypeInvStep == TypeInv /\ [Next]_vars => TypeInv'
  BY CopiesStep, ObjectsStep, ControlStep, FlagsStep DEF TypeInv, TypeOK

-----------------------------------------------------------------------------
(* The copies of the resource *)

\* A copy with the current version agrees with the resource.
LEMMA CurrentCopiesStep == TypeInv /\ CopyInv /\ [Next]_vars => CurrentCopies'
<1> SUFFICES ASSUME TypeInv, CopyInv, [Next]_vars PROVE CurrentCopies'
  OBVIOUS
<1> USE DEF TypeInv, TypeOK, CopiesOK, ApplicationConnectors, CopyInv,
      CurrentCopies, clusterVars, envVars, cacheVars, queueVars, memVars,
      loopVars, runVars
<1>1. CASE Reconcile
  BY <1>1 DEF Reconcile
<1>2. CASE sFnCheckDependencies
  BY <1>2 DEF sFnCheckDependencies, switchState, stopWith
<1>3. CASE sFnRegisterDependencyWatch
  BY <1>3 DEF sFnRegisterDependencyWatch, stopWith
<1>4. CASE sFnInitialize
  <2>1. CASE AddFinalizer
    <3>1. CASE fresh /\ cr' = [cr EXCEPT !.finalizer = TRUE] /\ cacheFresh' = FALSE
      BY <3>1, <2>1, <1>4 DEF sFnInitialize, AddFinalizer
    <3>2. CASE UNCHANGED <<cr, cacheFresh, fresh>>
      BY <3>2, <2>1, <1>4 DEF sFnInitialize, AddFinalizer
    <3> QED
      BY <3>1, <3>2, <2>1 DEF AddFinalizer
  <2>2. CASE inst.deleting
    BY <2>2, <1>4 DEF sFnInitialize, AddFinalizer, EndRun, switchState
  <2>3. CASE ~inst.deleting /\ inst.finalizer
    BY <2>3, <1>4 DEF sFnInitialize, AddFinalizer, switchState
  <2> QED
    BY <2>1, <2>2, <2>3, <1>4 DEF sFnInitialize
<1>5. CASE sFnDetectDomain
  BY <1>5 DEF sFnDetectDomain, switchState, stopWith
<1>6. CASE sFnUpdate
  BY <1>6 DEF sFnUpdate, switchState, stopWith
<1>7. CASE PatchObject
  BY <1>7 DEF PatchObject
<1>8. CASE ApplyDone
  BY <1>8 DEF ApplyDone, switchState, stopWith
<1>9. CASE sFnReconcileOptionalObjects
  BY <1>9 DEF sFnReconcileOptionalObjects, ApplyPolicies,
     removeNetworkPolicies, switchState, stopWith
<1>10. CASE sFnVerify
  BY <1>10 DEF sFnVerify, stopWith
<1>11. CASE sFnDeleteResources
  BY <1>11 DEF sFnDeleteResources, switchState, stopWith
<1>12. CASE DeleteObject
  BY <1>12 DEF DeleteObject
<1>13. CASE DeleteDone
  BY <1>13 DEF DeleteDone, switchState, stopWith
<1>14. CASE sFnRemoveFinalizer
  BY <1>14, NoCRType DEF sFnRemoveFinalizer, EndRun
<1>15. CASE sFnUpdateStatus
  <2>1. CASE fresh /\ cr' = [cr EXCEPT !.reason = inst.reason]
    <3>1. cr.reason = inst.reason => cr' = cr
      BY <2>1
    <3>2. cr.exists /\ cr'.exists
      BY <2>1, <1>15 DEF sFnUpdateStatus
    <3>3. fn' = "idle" /\ cache' = cache
      BY <1>15 DEF sFnUpdateStatus, EndRun
    <3>4. cacheFresh' => cacheFresh /\ cr' = cr
      BY <2>1, <3>1, <1>15 DEF sFnUpdateStatus
    <3> QED
      BY <3>2, <3>3, <3>4
  <2>2. CASE UNCHANGED <<cr, cacheFresh>>
    BY <2>2, <1>15 DEF sFnUpdateStatus, EndRun
  <2> QED
    BY <2>1, <2>2, <1>15 DEF sFnUpdateStatus
<1>16. CASE DeliverCR
  BY <1>16 DEF DeliverCR
<1>17. CASE Restart
  BY <1>17 DEF Restart
<1>18. CASE CreateCR
  BY <1>18 DEF CreateCR, UserWrite, Edit, NewCR
<1>19. CASE EditCR
  BY <1>19 DEF EditCR, UserWrite, Edit
<1>20. CASE DeleteCR
  BY <1>20, NoCRType DEF DeleteCR, UserWrite, Edit
<1>21. CASE \E w \in Workloads : BecomeAvailable(w) \/ LoseAvailable(w)
  BY <1>21 DEF BecomeAvailable, LoseAvailable, Edit
<1>22. CASE \E o \in Objs : Drift(o)
  BY <1>22 DEF Drift, Edit
<1>23. CASE ReconcileNotFound \/ mapFunction \/ DeliverPolicies \/ RequeueTimer
  BY <1>23 DEF ReconcileNotFound, mapFunction, DeliverPolicies, RequeueTimer
<1>24. CASE ToggleSecret \/ ChangeShoot \/ ToggleIstio \/ UNCHANGED vars
  BY <1>24 DEF ToggleSecret, ChangeShoot, ToggleIstio, Edit, vars
<1> QED
  BY <1>1, <1>2, <1>3, <1>4, <1>5, <1>6, <1>7, <1>8, <1>9, <1>10, <1>11,
     <1>12, <1>13, <1>14, <1>15, <1>16, <1>17, <1>18, <1>19, <1>20, <1>21,
     <1>22, <1>23, <1>24 DEF Next, Run, Environment

\* A run on an outdated copy installs only while the finalizer is there and no
\* deletion has begun.
LEMMA OutdatedCopiesStep == TypeInv /\ CopyInv /\ [Next]_vars => OutdatedCopies'
<1> SUFFICES ASSUME TypeInv, CopyInv, [Next]_vars PROVE OutdatedCopies'
  OBVIOUS
<1> USE DEF TypeInv, TypeOK, CopiesOK, ControlOK, ApplicationConnectors,
      StateFns, CopyInv, CurrentCopies, OutdatedCopies, DeletionReasons,
      Installs, StartFns, InstallFns, RemoveFns, isDeleting, Reasons, NoCR,
      clusterVars, envVars, cacheVars, queueVars, memVars, loopVars, runVars,
      SpecsKnown
<1>1. CASE Reconcile
  BY <1>1 DEF Reconcile
<1>2. CASE sFnCheckDependencies
  BY <1>2 DEF sFnCheckDependencies, switchState, stopWith
<1>3. CASE sFnRegisterDependencyWatch
  BY <1>3 DEF sFnRegisterDependencyWatch, stopWith
<1>4. CASE sFnInitialize
  <2>1. CASE AddFinalizer
    <3>1. CASE fresh /\ cr' = [cr EXCEPT !.finalizer = TRUE] /\ cacheFresh' = FALSE
      BY <3>1, <2>1, <1>4 DEF sFnInitialize, AddFinalizer
    <3>2. CASE UNCHANGED <<cr, cacheFresh, fresh>>
      BY <3>2, <2>1, <1>4 DEF sFnInitialize, AddFinalizer
    <3> QED
      BY <3>1, <3>2, <2>1 DEF AddFinalizer
  <2>2. CASE inst.deleting
    BY <2>2, <1>4 DEF sFnInitialize, AddFinalizer, EndRun, switchState
  <2>3. CASE ~inst.deleting /\ inst.finalizer
    BY <2>3, <1>4 DEF sFnInitialize, AddFinalizer, switchState
  <2> QED
    BY <2>1, <2>2, <2>3, <1>4 DEF sFnInitialize
<1>5. CASE sFnDetectDomain
  BY <1>5 DEF sFnDetectDomain, switchState, stopWith
<1>6. CASE sFnUpdate
  BY <1>6 DEF sFnUpdate, switchState, stopWith
<1>7. CASE PatchObject
  BY <1>7 DEF PatchObject
<1>8. CASE ApplyDone
  BY <1>8 DEF ApplyDone, switchState, stopWith
<1>9. CASE sFnReconcileOptionalObjects
  BY <1>9 DEF sFnReconcileOptionalObjects, ApplyPolicies,
     removeNetworkPolicies, switchState, stopWith
<1>10. CASE sFnVerify
  BY <1>10 DEF sFnVerify, stopWith
<1>11. CASE sFnDeleteResources
  BY <1>11 DEF sFnDeleteResources, switchState, stopWith
<1>12. CASE DeleteObject
  BY <1>12 DEF DeleteObject
<1>13. CASE DeleteDone
  BY <1>13 DEF DeleteDone, switchState, stopWith
<1>14. CASE sFnRemoveFinalizer
  BY <1>14 DEF sFnRemoveFinalizer, EndRun
<1>15. CASE sFnUpdateStatus
  BY <1>15 DEF sFnUpdateStatus, EndRun
<1>16. CASE DeliverCR
  BY <1>16 DEF DeliverCR
<1>17. CASE Restart
  BY <1>17 DEF Restart
<1>18. CASE CreateCR
  BY <1>18 DEF CreateCR, UserWrite, Edit, NewCR
<1>19. CASE EditCR
  BY <1>19 DEF EditCR, UserWrite, Edit
<1>20. CASE DeleteCR
  BY <1>20 DEF DeleteCR, UserWrite, Edit
<1>21. CASE \E w \in Workloads : BecomeAvailable(w) \/ LoseAvailable(w)
  BY <1>21 DEF BecomeAvailable, LoseAvailable, Edit
<1>22. CASE \E o \in Objs : Drift(o)
  BY <1>22 DEF Drift, Edit
<1>23. CASE ReconcileNotFound \/ mapFunction \/ DeliverPolicies \/ RequeueTimer
  BY <1>23 DEF ReconcileNotFound, mapFunction, DeliverPolicies, RequeueTimer
<1>24. CASE ToggleSecret \/ ChangeShoot \/ ToggleIstio \/ UNCHANGED vars
  BY <1>24 DEF ToggleSecret, ChangeShoot, ToggleIstio, Edit, vars
<1> QED
  BY <1>1, <1>2, <1>3, <1>4, <1>5, <1>6, <1>7, <1>8, <1>9, <1>10, <1>11,
     <1>12, <1>13, <1>14, <1>15, <1>16, <1>17, <1>18, <1>19, <1>20, <1>21,
     <1>22, <1>23, <1>24 DEF Next, Run, Environment

\* A deletion is shown only under a deletion timestamp.
LEMMA DeletionReasonsStep == TypeInv /\ CopyInv /\ [Next]_vars => DeletionReasons'
<1> SUFFICES ASSUME TypeInv, CopyInv, [Next]_vars PROVE DeletionReasons'
  OBVIOUS
<1> USE DEF TypeInv, TypeOK, CopiesOK, ControlOK, ApplicationConnectors,
      StateFns, CopyInv, CurrentCopies, OutdatedCopies, DeletionReasons,
      Installs, StartFns, InstallFns, RemoveFns, isDeleting, Reasons, NoCR,
      clusterVars, envVars, cacheVars, queueVars, memVars, loopVars, runVars
<1>1. CASE Reconcile
  BY <1>1 DEF Reconcile
<1>2. CASE sFnCheckDependencies
  BY <1>2 DEF sFnCheckDependencies, switchState, stopWith
<1>3. CASE sFnRegisterDependencyWatch
  BY <1>3 DEF sFnRegisterDependencyWatch, stopWith
<1>4. CASE sFnInitialize
  <2>1. CASE AddFinalizer
    <3>1. CASE fresh /\ cr' = [cr EXCEPT !.finalizer = TRUE] /\ cacheFresh' = FALSE
      BY <3>1, <2>1, <1>4 DEF sFnInitialize, AddFinalizer
    <3>2. CASE UNCHANGED <<cr, cacheFresh, fresh>>
      BY <3>2, <2>1, <1>4 DEF sFnInitialize, AddFinalizer
    <3> QED
      BY <3>1, <3>2, <2>1 DEF AddFinalizer
  <2>2. CASE inst.deleting
    BY <2>2, <1>4 DEF sFnInitialize, AddFinalizer, EndRun, switchState
  <2>3. CASE ~inst.deleting /\ inst.finalizer
    BY <2>3, <1>4 DEF sFnInitialize, AddFinalizer, switchState
  <2> QED
    BY <2>1, <2>2, <2>3, <1>4 DEF sFnInitialize
<1>5. CASE sFnDetectDomain
  BY <1>5 DEF sFnDetectDomain, switchState, stopWith
<1>6. CASE sFnUpdate
  BY <1>6 DEF sFnUpdate, switchState, stopWith
<1>7. CASE PatchObject
  BY <1>7 DEF PatchObject
<1>8. CASE ApplyDone
  BY <1>8 DEF ApplyDone, switchState, stopWith
<1>9. CASE sFnReconcileOptionalObjects
  BY <1>9 DEF sFnReconcileOptionalObjects, ApplyPolicies,
     removeNetworkPolicies, switchState, stopWith
<1>10. CASE sFnVerify
  BY <1>10 DEF sFnVerify, stopWith
<1>11. CASE sFnDeleteResources
  BY <1>11 DEF sFnDeleteResources, switchState, stopWith
<1>12. CASE DeleteObject
  BY <1>12 DEF DeleteObject
<1>13. CASE DeleteDone
  BY <1>13 DEF DeleteDone, switchState, stopWith
<1>14. CASE sFnRemoveFinalizer
  BY <1>14 DEF sFnRemoveFinalizer, EndRun
<1>15. CASE sFnUpdateStatus
  BY <1>15 DEF sFnUpdateStatus, EndRun
<1>16. CASE DeliverCR
  BY <1>16 DEF DeliverCR
<1>17. CASE Restart
  BY <1>17 DEF Restart
<1>18. CASE CreateCR
  BY <1>18 DEF CreateCR, UserWrite, Edit, NewCR
<1>19. CASE EditCR
  BY <1>19 DEF EditCR, UserWrite, Edit
<1>20. CASE DeleteCR
  BY <1>20 DEF DeleteCR, UserWrite, Edit
<1>21. CASE \E w \in Workloads : BecomeAvailable(w) \/ LoseAvailable(w)
  BY <1>21 DEF BecomeAvailable, LoseAvailable, Edit
<1>22. CASE \E o \in Objs : Drift(o)
  BY <1>22 DEF Drift, Edit
<1>23. CASE ReconcileNotFound \/ mapFunction \/ DeliverPolicies \/ RequeueTimer
  BY <1>23 DEF ReconcileNotFound, mapFunction, DeliverPolicies, RequeueTimer
<1>24. CASE ToggleSecret \/ ChangeShoot \/ ToggleIstio \/ UNCHANGED vars
  BY <1>24 DEF ToggleSecret, ChangeShoot, ToggleIstio, Edit, vars
<1> QED
  BY <1>1, <1>2, <1>3, <1>4, <1>5, <1>6, <1>7, <1>8, <1>9, <1>10, <1>11,
     <1>12, <1>13, <1>14, <1>15, <1>16, <1>17, <1>18, <1>19, <1>20, <1>21,
     <1>22, <1>23, <1>24 DEF Next, Run, Environment

\* A step keeps the facts about copies.
LEMMA CopyInvStep == TypeInv /\ CopyInv /\ [Next]_vars => CopyInv'
  BY CurrentCopiesStep, OutdatedCopiesStep, DeletionReasonsStep DEF CopyInv

-----------------------------------------------------------------------------
(* Removal, installation, watches *)

\* The removal leaves only what it could not delete.
LEMMA RemovalStep == TypeInv /\ CopyInv /\ RemovalInv /\ OnlyFailedDeletesLeak /\ [Next]_vars => (RemovalInv /\ OnlyFailedDeletesLeak)'
<1> SUFFICES ASSUME TypeInv, CopyInv, RemovalInv, OnlyFailedDeletesLeak, [Next]_vars PROVE (RemovalInv /\ OnlyFailedDeletesLeak)'
  OBVIOUS
<1> USE SizesAssumption DEF TypeInv, TypeOK, CopiesOK, ControlOK,
      ApplicationConnectors, StateFns, CopyInv, CurrentCopies, OutdatedCopies,
      DeletionReasons, Installs, StartFns, InstallFns, RemoveFns, isDeleting,
      Reasons, NoCR, clusterVars, envVars, cacheVars, queueVars, memVars,
      loopVars, runVars, RemovalInv, OnlyFailedDeletesLeak, ObjectsOK, N,
      Manifests, Deps, Objs
<1>1. CASE Reconcile
  BY <1>1 DEF Reconcile
<1>2. CASE sFnCheckDependencies
  BY <1>2 DEF sFnCheckDependencies, switchState, stopWith
<1>3. CASE sFnRegisterDependencyWatch
  BY <1>3 DEF sFnRegisterDependencyWatch, stopWith
<1>4. CASE sFnInitialize
  BY <1>4 DEF sFnInitialize, AddFinalizer, EndRun, switchState
<1>5. CASE sFnDetectDomain
  BY <1>5 DEF sFnDetectDomain, switchState, stopWith
<1>6. CASE sFnUpdate
  BY <1>6 DEF sFnUpdate, switchState, stopWith
<1>7. CASE PatchObject
  BY <1>7 DEF PatchObject
<1>8. CASE ApplyDone
  BY <1>8 DEF ApplyDone, switchState, stopWith
<1>9. CASE sFnReconcileOptionalObjects
  BY <1>9 DEF sFnReconcileOptionalObjects, ApplyPolicies,
     removeNetworkPolicies, switchState, stopWith
<1>10. CASE sFnVerify
  BY <1>10 DEF sFnVerify, stopWith
<1>11. CASE sFnDeleteResources
  BY <1>11 DEF sFnDeleteResources, switchState, stopWith
<1>12. CASE DeleteObject
  BY <1>12 DEF DeleteObject
<1>13. CASE DeleteDone
  BY <1>13 DEF DeleteDone, switchState, stopWith
<1>14. CASE sFnRemoveFinalizer
  BY <1>14 DEF sFnRemoveFinalizer, EndRun
<1>15. CASE sFnUpdateStatus
  BY <1>15 DEF sFnUpdateStatus, EndRun
<1>16. CASE DeliverCR
  BY <1>16 DEF DeliverCR
<1>17. CASE Restart
  BY <1>17 DEF Restart
<1>18. CASE CreateCR
  BY <1>18 DEF CreateCR, UserWrite, Edit, NewCR
<1>19. CASE EditCR
  BY <1>19 DEF EditCR, UserWrite, Edit
<1>20. CASE DeleteCR
  BY <1>20 DEF DeleteCR, UserWrite, Edit
<1>21. CASE \E w \in Workloads : BecomeAvailable(w) \/ LoseAvailable(w)
  BY <1>21 DEF BecomeAvailable, LoseAvailable, Edit
<1>22. CASE \E o \in Objs : Drift(o)
  BY <1>22 DEF Drift, Edit
<1>23. CASE ReconcileNotFound \/ mapFunction \/ DeliverPolicies \/ RequeueTimer
  BY <1>23 DEF ReconcileNotFound, mapFunction, DeliverPolicies, RequeueTimer
<1>24. CASE ToggleSecret \/ ChangeShoot \/ ToggleIstio \/ UNCHANGED vars
  BY <1>24 DEF ToggleSecret, ChangeShoot, ToggleIstio, Edit, vars
<1> QED
  BY <1>1, <1>2, <1>3, <1>4, <1>5, <1>6, <1>7, <1>8, <1>9, <1>10, <1>11,
     <1>12, <1>13, <1>14, <1>15, <1>16, <1>17, <1>18, <1>19, <1>20, <1>21,
     <1>22, <1>23, <1>24 DEF Next, Run, Environment

\* A run that reaches sFnVerify has applied what its copy asks for.
LEMMA ReadyStep == TypeInv /\ CopyInv /\ RemovalInv /\ ReadyInv /\ [Next]_vars => ReadyInv'
<1> SUFFICES ASSUME TypeInv, CopyInv, RemovalInv, ReadyInv, [Next]_vars PROVE ReadyInv'
  OBVIOUS
<1> USE SizesAssumption DEF TypeInv, TypeOK, CopiesOK, ControlOK,
      ApplicationConnectors, StateFns, CopyInv, CurrentCopies, OutdatedCopies,
      DeletionReasons, Installs, StartFns, InstallFns, RemoveFns, isDeleting,
      Reasons, NoCR, clusterVars, envVars, cacheVars, queueVars, memVars,
      loopVars, runVars, RemovalInv, ReadyInv, Rendered, Applied,
      PoliciesDone, SpecsKnown, ObjectsOK, N, Manifests, Deps, Objs
<1>1. CASE Reconcile
  BY <1>1 DEF Reconcile
<1>2. CASE sFnCheckDependencies
  BY <1>2 DEF sFnCheckDependencies, switchState, stopWith
<1>3. CASE sFnRegisterDependencyWatch
  BY <1>3 DEF sFnRegisterDependencyWatch, stopWith
<1>4. CASE sFnInitialize
  <2>1. CASE AddFinalizer
    <3>1. CASE fresh /\ cr' = [cr EXCEPT !.finalizer = TRUE] /\ cacheFresh' = FALSE
      BY <3>1, <2>1, <1>4 DEF sFnInitialize, AddFinalizer
    <3>2. CASE UNCHANGED <<cr, cacheFresh, fresh>>
      BY <3>2, <2>1, <1>4 DEF sFnInitialize, AddFinalizer
    <3> QED
      BY <3>1, <3>2, <2>1 DEF AddFinalizer
  <2>2. CASE inst.deleting
    BY <2>2, <1>4 DEF sFnInitialize, AddFinalizer, EndRun, switchState
  <2>3. CASE ~inst.deleting /\ inst.finalizer
    BY <2>3, <1>4 DEF sFnInitialize, AddFinalizer, switchState
  <2> QED
    BY <2>1, <2>2, <2>3, <1>4 DEF sFnInitialize
<1>5. CASE sFnDetectDomain
  BY <1>5 DEF sFnDetectDomain, switchState, stopWith
<1>6. CASE sFnUpdate
  <2>1. CASE fn' = "sFnApply"
    <3>1. Rendered'
      BY <1>6, <2>1 DEF sFnUpdate, switchState, stopWith
    <3>2. idx' = 1
      BY <1>6 DEF sFnUpdate
    <3> QED
      BY <1>6, <2>1, <3>1, <3>2 DEF sFnUpdate, switchState, stopWith
  <2>2. CASE fn' = "sFnUpdateStatus"
    BY <1>6, <2>2 DEF sFnUpdate, switchState, stopWith
  <2> QED
    BY <1>6, <2>1, <2>2 DEF sFnUpdate, switchState, stopWith
<1>7. CASE PatchObject
  BY <1>7 DEF PatchObject
<1>8. CASE ApplyDone
  BY <1>8 DEF ApplyDone, switchState, stopWith
<1>9. CASE sFnReconcileOptionalObjects
  BY <1>9 DEF sFnReconcileOptionalObjects, ApplyPolicies,
     removeNetworkPolicies, switchState, stopWith
<1>10. CASE sFnVerify
  BY <1>10 DEF sFnVerify, stopWith
<1>11. CASE sFnDeleteResources
  BY <1>11 DEF sFnDeleteResources, switchState, stopWith
<1>12. CASE DeleteObject
  BY <1>12 DEF DeleteObject
<1>13. CASE DeleteDone
  BY <1>13 DEF DeleteDone, switchState, stopWith
<1>14. CASE sFnRemoveFinalizer
  BY <1>14 DEF sFnRemoveFinalizer, EndRun
<1>15. CASE sFnUpdateStatus
  BY <1>15 DEF sFnUpdateStatus, EndRun
<1>16. CASE DeliverCR
  BY <1>16 DEF DeliverCR
<1>17. CASE Restart
  BY <1>17 DEF Restart
<1>18. CASE CreateCR
  BY <1>18 DEF CreateCR, UserWrite, Edit, NewCR
<1>19. CASE EditCR
  BY <1>19 DEF EditCR, UserWrite, Edit
<1>20. CASE DeleteCR
  BY <1>20 DEF DeleteCR, UserWrite, Edit
<1>21. CASE \E w \in Workloads : BecomeAvailable(w) \/ LoseAvailable(w)
  BY <1>21 DEF BecomeAvailable, LoseAvailable, Edit
<1>22. CASE \E o \in Objs : Drift(o)
  BY <1>22 DEF Drift, Edit
<1>23. CASE ReconcileNotFound \/ mapFunction \/ DeliverPolicies \/ RequeueTimer
  BY <1>23 DEF ReconcileNotFound, mapFunction, DeliverPolicies, RequeueTimer
<1>24. CASE ToggleSecret \/ ChangeShoot \/ ToggleIstio \/ UNCHANGED vars
  BY <1>24 DEF ToggleSecret, ChangeShoot, ToggleIstio, Edit, vars
<1> QED
  BY <1>1, <1>2, <1>3, <1>4, <1>5, <1>6, <1>7, <1>8, <1>9, <1>10, <1>11,
     <1>12, <1>13, <1>14, <1>15, <1>16, <1>17, <1>18, <1>19, <1>20, <1>21,
     <1>22, <1>23, <1>24 DEF Next, Run, Environment

\* DepsACK is set only when every watch is registered.
LEMMA AckedStep == AckedDepsAreWatched /\ [Next]_vars => AckedDepsAreWatched'
<1> SUFFICES ASSUME AckedDepsAreWatched, [Next]_vars PROVE AckedDepsAreWatched'
  OBVIOUS
<1> USE DEF AckedDepsAreWatched, clusterVars, envVars, cacheVars, queueVars, memVars,
        loopVars, runVars
<1>1. CASE sFnRegisterDependencyWatch
  BY <1>1 DEF sFnRegisterDependencyWatch
<1>2. CASE Restart
  BY <1>2 DEF Restart
<1>3. CASE UNCHANGED memVars
  BY <1>3
<1>4. CASE Reconcile \/ ReconcileNotFound \/ DeliverCR \/ mapFunction \/ DeliverPolicies
           \/ RequeueTimer \/ UNCHANGED vars
  BY <1>3, <1>4 DEF Reconcile, ReconcileNotFound, DeliverCR, mapFunction,
     DeliverPolicies, RequeueTimer, vars
<1>5. CASE Environment
  BY <1>3, <1>5 DEF Environment, CreateCR, EditCR, DeleteCR, UserWrite, ToggleSecret,
     ChangeShoot, ToggleIstio, BecomeAvailable, LoseAvailable, Drift
<1>6. CASE \/ sFnCheckDependencies \/ sFnInitialize \/ sFnDetectDomain \/ sFnUpdate
           \/ PatchObject \/ ApplyDone \/ sFnReconcileOptionalObjects \/ sFnVerify
           \/ sFnDeleteResources \/ DeleteObject \/ DeleteDone \/ sFnRemoveFinalizer
           \/ sFnUpdateStatus
  BY <1>3, <1>6 DEF sFnCheckDependencies, sFnInitialize, sFnDetectDomain, sFnUpdate,
     PatchObject, ApplyDone, sFnReconcileOptionalObjects, sFnVerify, sFnDeleteResources,
     DeleteObject, DeleteDone, sFnRemoveFinalizer, sFnUpdateStatus
<1> QED
  BY <1>1, <1>2, <1>4, <1>5, <1>6 DEF Next, Run

-----------------------------------------------------------------------------
(* Theorems *)

\* The invariant holds in every reachable state.
THEOREM InductiveInvariant == Spec => []IInv
<1>1. IInv /\ [Next]_vars => IInv'
  BY TypeInvStep, CopyInvStep, RemovalStep, ReadyStep, AckedStep DEF IInv
<1> QED
  BY InitIInv, <1>1, PTL DEF Spec

\* Types: in particular sFnUpdate never renders an empty domain name.
THEOREM TypeCorrect == Spec => []TypeOK
<1>1. IInv => TypeOK
  BY DEF IInv, TypeInv
<1> QED
  BY InductiveInvariant, <1>1, PTL

\* When the finalizer is gone, of the manifests in r.Objs and r.Deps only those whose
\* Delete call failed are left.
THEOREM OnlyFailedLeak == Spec => []OnlyFailedDeletesLeak
<1>1. IInv => OnlyFailedDeletesLeak
  BY DEF IInv
<1> QED
  BY InductiveInvariant, <1>1, PTL

\* DepsACK means that every Istio manifest is watched.
THEOREM AckedMeansWatched == Spec => []AckedDepsAreWatched
<1>1. IInv => AckedDepsAreWatched
  BY DEF IInv
<1> QED
  BY InductiveInvariant, <1>1, PTL

\* Who changes the objects of the module: only PatchObject creates or changes
\* one, only sFnReconcileOptionalObjects touches the policies.
LEMMA WhoInstalls ==
  ASSUME TypeInv, [Next]_vars
  PROVE  /\ \A o \in Manifests : content'[o] \notin {content[o], Absent} => PatchObject
         /\ pols' # pols => sFnReconcileOptionalObjects
<1> USE DEF clusterVars, envVars, cacheVars, queueVars, memVars, loopVars, runVars
<1>1. CASE PatchObject
  BY <1>1 DEF PatchObject
<1>2. CASE sFnReconcileOptionalObjects
  BY <1>2 DEF sFnReconcileOptionalObjects
<1>3. CASE DeleteObject
  <2>1. content \in [Manifests -> Renderings \cup {Absent}] /\ pols' = pols
    BY <1>3 DEF DeleteObject, TypeInv, TypeOK, ObjectsOK
  <2>2. \/ content' = content
        \/ content' = [content EXCEPT ![idx] = IF idx \in hooked THEN @ ELSE Absent]
    BY <1>3 DEF DeleteObject
  <2> QED
    BY <2>1, <2>2
<1>4. CASE \E o \in Objs : Drift(o)
  <2>1. PICK d \in Objs : Drift(d)
    BY <1>4
  <2>2. content \in [Manifests -> Renderings \cup {Absent}]
    BY DEF TypeInv, TypeOK, ObjectsOK
  <2> QED
    BY <2>1, <2>2 DEF Drift
<1>5. CASE sFnDeleteResources
  BY <1>5 DEF sFnDeleteResources
<1>6. CASE UNCHANGED <<content, pols>>
  BY <1>6
<1>7. CASE Reconcile \/ ReconcileNotFound \/ DeliverCR \/ mapFunction
           \/ DeliverPolicies \/ RequeueTimer \/ Restart \/ UNCHANGED vars
  BY <1>7, <1>6 DEF Reconcile, ReconcileNotFound, DeliverCR, mapFunction,
     DeliverPolicies, RequeueTimer, Restart, vars
<1>8. CASE CreateCR \/ EditCR \/ DeleteCR \/ ToggleSecret \/ ChangeShoot \/ ToggleIstio
           \/ \E w \in Workloads : BecomeAvailable(w) \/ LoseAvailable(w)
  BY <1>8, <1>6 DEF CreateCR, EditCR, DeleteCR, UserWrite, ToggleSecret, ChangeShoot,
     ToggleIstio, BecomeAvailable, LoseAvailable
<1>9. CASE \/ sFnCheckDependencies \/ sFnRegisterDependencyWatch \/ sFnInitialize
           \/ sFnDetectDomain \/ sFnUpdate \/ ApplyDone \/ sFnVerify \/ DeleteDone
           \/ sFnRemoveFinalizer \/ sFnUpdateStatus
  BY <1>9, <1>6 DEF sFnCheckDependencies, sFnRegisterDependencyWatch, sFnInitialize,
     sFnDetectDomain, sFnUpdate, ApplyDone, sFnVerify, DeleteDone, sFnRemoveFinalizer,
     sFnUpdateStatus
<1> QED
  BY <1>1, <1>2, <1>3, <1>4, <1>5, <1>7, <1>8, <1>9 DEF Next, Run, Environment

\* Nothing is installed, and no network policy removed, while the resource lacks
\* the finalizer.
THEOREM PatchedUnderFinalizer == Spec => PatchOnlyUnderFinalizer
<1>1. IInv /\ [Next]_vars =>
        [(\/ \E o \in Manifests : content'[o] \notin {content[o], Absent}
          \/ pols' # pols) => cr.exists /\ cr.finalizer]_vars
  <2> SUFFICES ASSUME IInv, [Next]_vars,
                      \/ \E o \in Manifests : content'[o] \notin {content[o], Absent}
                      \/ pols' # pols
               PROVE  cr.exists /\ cr.finalizer
    OBVIOUS
  <2>1. PatchObject \/ sFnReconcileOptionalObjects
    BY WhoInstalls DEF IInv
  <2>2. fn \in InstallFns
    BY <2>1 DEF PatchObject, sFnReconcileOptionalObjects, InstallFns
  <2> QED
    BY <2>2 DEF IInv, CopyInv, OutdatedCopies, CurrentCopies
<1> QED
  BY InductiveInvariant, <1>1, PTL DEF Spec, PatchOnlyUnderFinalizer

\* After the deletion has begun nothing is installed any more.
THEOREM DeletionIsFinal == Spec => NoInstallAfterDeletionBegan
<1>1. IInv /\ [Next]_vars =>
        [cr.deleting /\ isDeleting(cr.reason) =>
            /\ \A o \in Manifests : content'[o] \in {content[o], Absent}
            /\ pols' = pols]_vars
  <2> SUFFICES ASSUME IInv, [Next]_vars, cr.deleting, isDeleting(cr.reason)
               PROVE  /\ \A o \in Manifests : content'[o] \in {content[o], Absent}
                      /\ pols' = pols
    OBVIOUS
  <2>1. fn \notin InstallFns
    BY DEF IInv, CopyInv, OutdatedCopies
  <2>2. ~PatchObject /\ ~sFnReconcileOptionalObjects
    BY <2>1 DEF PatchObject, sFnReconcileOptionalObjects, InstallFns
  <2> QED
    BY <2>2, WhoInstalls DEF IInv
<1> QED
  BY InductiveInvariant, <1>1, PTL DEF Spec, NoInstallAfterDeletionBegan

\* Who writes Ready: only sFnUpdateStatus changes the reason of the resource to it.
LEMMA WhoWritesReady ==
  ASSUME TypeInv, [Next]_vars, cr.reason # "Verified", cr'.reason = "Verified"
  PROVE  sFnUpdateStatus /\ fresh /\ inst.reason = "Verified"
<1> USE DEF clusterVars, envVars, cacheVars, queueVars, memVars, loopVars, runVars
<1>1. cr \in ApplicationConnectors /\ NoCR.reason = "none"
  BY DEF TypeInv, TypeOK, CopiesOK, NoCR
<1>2. CASE sFnUpdateStatus
  BY <1>1, <1>2 DEF sFnUpdateStatus, ApplicationConnectors
<1>3. CASE sFnInitialize
  BY <1>1, <1>3 DEF sFnInitialize, AddFinalizer, ApplicationConnectors
<1>4. CASE sFnRemoveFinalizer
  BY <1>1, <1>4 DEF sFnRemoveFinalizer
<1>5. CASE CreateCR \/ EditCR
  BY <1>1, <1>5 DEF CreateCR, EditCR, NewCR, ApplicationConnectors
<1>6. CASE DeleteCR
  BY <1>1, <1>6 DEF DeleteCR, ApplicationConnectors
<1>7. CASE cr' = cr
  BY <1>7
<1>8. CASE Reconcile \/ ReconcileNotFound \/ DeliverCR \/ mapFunction
           \/ DeliverPolicies \/ RequeueTimer \/ Restart \/ UNCHANGED vars
  BY <1>7, <1>8 DEF Reconcile, ReconcileNotFound, DeliverCR, mapFunction,
     DeliverPolicies, RequeueTimer, Restart, vars
<1>9. CASE ToggleSecret \/ ChangeShoot \/ ToggleIstio \/ (\E o \in Objs : Drift(o))
           \/ \E w \in Workloads : BecomeAvailable(w) \/ LoseAvailable(w)
  BY <1>7, <1>9 DEF ToggleSecret, ChangeShoot, ToggleIstio, Drift, BecomeAvailable,
     LoseAvailable
<1>10. CASE \/ sFnCheckDependencies \/ sFnRegisterDependencyWatch \/ sFnDetectDomain
            \/ sFnUpdate \/ PatchObject \/ ApplyDone \/ sFnReconcileOptionalObjects
            \/ sFnVerify \/ sFnDeleteResources \/ DeleteObject \/ DeleteDone
  BY <1>7, <1>10 DEF sFnCheckDependencies, sFnRegisterDependencyWatch, sFnDetectDomain,
     sFnUpdate, PatchObject, ApplyDone, sFnReconcileOptionalObjects, sFnVerify,
     sFnDeleteResources, DeleteObject, DeleteDone
<1> QED
  BY <1>2, <1>3, <1>4, <1>5, <1>6, <1>8, <1>9, <1>10 DEF Next, Run, Environment

\* Ready is written only for the spec the resource has at that moment.
THEOREM ReadyIsForTheSpec == Spec => ReadyMatchesSpec
<1>1. IInv /\ [Next]_vars =>
        [cr.reason # "Verified" /\ cr'.reason = "Verified" =>
            /\ ~cr.deleting
            /\ seen = Workloads
            /\ manifest.cfg = cr.spec.cfg
            /\ cr.spec.domain # NoDomain => manifest.domain = cr.spec.domain
            /\ \A o \in Manifests : content[o] \in {manifest, Absent}
            /\ cr.spec.np => pols = Policies]_vars
  <2> SUFFICES ASSUME IInv, [Next]_vars, cr.reason # "Verified", cr'.reason = "Verified"
               PROVE  /\ ~cr.deleting
                      /\ seen = Workloads
                      /\ manifest.cfg = cr.spec.cfg
                      /\ cr.spec.domain # NoDomain => manifest.domain = cr.spec.domain
                      /\ \A o \in Manifests : content[o] \in {manifest, Absent}
                      /\ cr.spec.np => pols = Policies
    OBVIOUS
  <2>1. fn = "sFnUpdateStatus" /\ fresh /\ inst.reason = "Verified"
    BY WhoWritesReady DEF IInv, sFnUpdateStatus
  <2>2. inst.spec = cr.spec /\ (inst.deleting <=> cr.deleting)
    BY <2>1 DEF IInv, ReadyInv, CopyInv, CurrentCopies
  <2>3. /\ ~inst.deleting /\ seen = Workloads
        /\ Rendered /\ Applied /\ PoliciesDone
    BY <2>1 DEF IInv, ReadyInv
  <2> QED
    BY <2>2, <2>3 DEF Rendered, Applied, PoliciesDone
<1> QED
  BY InductiveInvariant, <1>1, PTL DEF Spec, ReadyMatchesSpec
=============================================================================
