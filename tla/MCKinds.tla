------------------------------ MODULE MCKinds ------------------------------
(* A HibernatePolicy and one workload of each kind: an autoscaled           *)
(* Deployment, a StatefulSet, a ReplicaSet that an older version of the     *)
(* program left hibernated, a DaemonSet, and a ReplicaSet that the          *)
(* Deployment manages.  The cache may be a version behind.                  *)
EXTENDS Hibernation

CONSTANTS dep, sts, rs, ds, owned, ns

MCKindOf ==
    [w \in Workloads |-> CASE w = dep -> "Deployment" [] w = sts -> "StatefulSet"
                           [] w = ds -> "DaemonSet" [] OTHER -> "ReplicaSet"]
MCNamespaceOf == [w \in Workloads |-> ns]
MCHomeOf == [p \in HPs |-> ns]
MCMin == [w \in Autoscaled |-> 1]
MCMax == [w \in Autoscaled |-> 2]
MCHPSpecs == {[cap |-> 0, sleep |-> TRUE, types |-> {"Deployment", "DaemonSet"}],
              [cap |-> 1, sleep |-> FALSE, types |-> {"StatefulSet", "ReplicaSet"}],
              [cap |-> None, sleep |-> TRUE, types |-> {"StatefulSet", "DaemonSet"}]}

MCInit ==
    /\ Init
    /\ \A p \in HPs : policy[p] # None
    /\ wanted[ds] = {{}}
MCSpec == MCInit /\ [][Next]_vars /\ Fairness
=============================================================================
