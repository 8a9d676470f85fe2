---------------------------- MODULE ReconcilerInv ----------------------------
(***************************************************************************)
(* The inductive invariant of Reconciler, in the parts its proof uses.     *)
(***************************************************************************)
EXTENDS Reconciler

\* The state functions of a run that installs, and of a run that removes.
InstallFns == {"sFnDetectDomain", "sFnUpdate", "sFnApply",
               "sFnReconcileOptionalObjects", "sFnVerify"}
StartFns == {"sFnCheckDependencies", "sFnRegisterDependencyWatch", "sFnInitialize"}
RemoveFns == {"sFnDeleteResources", "sFnCascadeDeletionState", "sFnRemoveFinalizer"}

\* A resource that exists has a spec.
SpecsKnown ==
    /\ cr.exists => cr.spec \in CRSpecs
    /\ cache.exists => cache.spec \in CRSpecs
    /\ inst.exists => inst.spec \in CRSpecs

TypeInv == TypeOK /\ SpecsKnown

\* A copy whose version is current agrees with the resource, and the cache is
\* never behind the copy of a run.
CurrentCopies ==
    /\ ~cr.exists => ~cr.finalizer
    /\ cacheFresh => cache = cr
    /\ fn # "idle" /\ fresh =>
          /\ cr.exists
          /\ (inst.deleting <=> cr.deleting) /\ (cache.deleting <=> cr.deleting)
          /\ fn # "sFnUpdateStatus" => (inst.finalizer <=> cr.finalizer)

\* A copy that is to be installed: it has the finalizer and is not deleted.
Installs(copy) == copy.exists /\ copy.finalizer /\ ~copy.deleting

\* An outdated copy may be installed only while the resource still has its
\* finalizer and no run has begun to delete.
OutdatedCopies ==
    /\ Installs(cache) => cr.finalizer /\ ~isDeleting(cr.reason)
    /\ fn \in StartFns \cup InstallFns /\ Installs(inst) =>
          cr.finalizer /\ ~isDeleting(cr.reason)
    /\ fn \in InstallFns => Installs(inst)
    /\ fn \in RemoveFns => inst.deleting /\ inst.finalizer

\* The reasons of a deletion are written only under a deletion timestamp.
DeletionReasons ==
    /\ isDeleting(cr.reason) => cr.deleting
    /\ isDeleting(cache.reason) => cache.deleting
    /\ isDeleting(inst.reason) => inst.deleting

CopyInv == CurrentCopies /\ OutdatedCopies /\ DeletionReasons

\* Where the loops over the manifests start, and how far the removal of the
\* objects has come.
RemovalInv ==
    /\ fn \in {"idle", "sFnDetectDomain", "sFnUpdate", "sFnDeleteResources"}
              \cup StartFns => idx = 1
    /\ fn \in {"sFnCascadeDeletionState", "sFnRemoveFinalizer"} => hooked = {}
    /\ fn = "sFnCascadeDeletionState" =>
          \A o \in Manifests : o < idx /\ content[o] # Absent => o \in delFailed
    /\ fn = "sFnRemoveFinalizer" =>
          \A o \in Manifests : content[o] # Absent => o \in delFailed

\* What the manifests hold follows the spec of the run's copy.
Rendered ==
    /\ manifest.cfg = inst.spec.cfg
    /\ inst.spec.domain # NoDomain => manifest.domain = inst.spec.domain

Applied == \A o \in Manifests : content[o] \in {manifest, Absent}

PoliciesDone == inst.spec.np => pols = Policies

\* What a run has achieved when it reaches sFnVerify, and when it is about to
\* write a Ready that the resource does not show yet.
ReadyInv ==
    /\ fn # "idle" /\ fresh =>
          inst.spec = cr.spec /\ (fn # "sFnUpdateStatus" => inst.reason = cr.reason)
    /\ fn \in StartFns \cup {"idle", "sFnDetectDomain"} => domainName = NoDomain
    /\ fn = "sFnUpdate" /\ inst.spec.domain # NoDomain => domainName = NoDomain
    /\ fn \in {"sFnApply", "sFnReconcileOptionalObjects", "sFnVerify"} => Rendered
    /\ fn = "sFnApply" /\ ~isErr =>
          \A o \in Manifests : o < idx => content[o] \in {manifest, Absent}
    /\ fn \in {"sFnReconcileOptionalObjects", "sFnVerify"} => Applied
    /\ fn = "sFnVerify" => PoliciesDone
    /\ fn = "sFnUpdateStatus" /\ fresh /\ inst.reason = "Verified" =>
          \/ cr.reason = "Verified"
          \/ /\ ~inst.deleting /\ seen = Workloads
             /\ Rendered /\ Applied /\ PoliciesDone

\* The whole invariant: it is inductive, and every safety property that is
\* proved follows from it.
IInv == /\ TypeInv /\ CopyInv /\ RemovalInv /\ ReadyInv
        /\ OnlyFailedDeletesLeak /\ AckedDepsAreWatched
=============================================================================
