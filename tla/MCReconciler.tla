---------------------------- MODULE MCReconciler ----------------------------
(* Small instances of Reconciler: the manifests are a labelled Deployment,  *)
(* an object without the part-of label and one Istio object.                *)
EXTENDS ReconcilerInv

\* A spec with a domain and one that leaves it to the cluster; the second
\* enables the network policies.
SpecPair(d, c1, c2) ==
    {[domain |-> d, np |-> FALSE, cfg |-> c1],
     [domain |-> NoDomain, np |-> TRUE, cfg |-> c2]}

CONSTANTS d1, c1, c2
MCSpecs == SpecPair(d1, c1, c2)

\* The passing runs start on a complete cluster; its parts may go away or change later.
InitOnCompleteCluster == Init /\ istio /\ secret /\ shoot = d1

SafetySpec == InitOnCompleteCluster /\ [][Next]_vars

LiveFairSpec == InitOnCompleteCluster /\ [][Next]_vars /\ Fairness
=============================================================================
