------------------------------- MODULE MCRace -------------------------------
(* One autoscaled Deployment that a HibernatePolicy and a                   *)
(* ClusterHibernatePolicy both govern, with caps CapA and CapB.             *)
EXTENDS Hibernation

CONSTANTS d, A, B, ns, CapA, CapB

MCKindOf == [w \in Workloads |-> "Deployment"]
MCNamespaceOf == [w \in Workloads |-> ns]
MCHomeOf == [p \in HPs |-> ns]
MCMin == [w \in Autoscaled |-> 1]
MCMax == [w \in Autoscaled |-> 3]
MCHPSpecs == {[cap |-> CapA, sleep |-> FALSE, types |-> {"Deployment"}]}
MCCHPSpecs == {[cap |-> CapB, sleep |-> FALSE, included |-> {}, excluded |-> {}]}

(* Both policies exist and the workload opted in when the system starts.    *)
MCInit ==
    /\ Init
    /\ policy[A] # None /\ policy[B] # None
    /\ nsPolicy[ns] = None /\ wlPolicy[d] = B
MCSpec == MCInit /\ [][Next]_vars /\ Fairness
=============================================================================
