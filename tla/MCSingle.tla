------------------------------ MODULE MCSingle ------------------------------
(* One autoscaled Deployment and the one HibernatePolicy that governs it.   *)
EXTENDS Hibernation

CONSTANTS d, A, ns

MCKindOf == [w \in Workloads |-> "Deployment"]
MCNamespaceOf == [w \in Workloads |-> ns]
MCHomeOf == [p \in HPs |-> ns]
MCMin == [w \in Autoscaled |-> 1]
MCMax == [w \in Autoscaled |-> 3]
MCHPSpecs == {[cap |-> 0, sleep |-> FALSE, types |-> {"Deployment"}]}

MCSpec == Init /\ policy[A] # None /\ [][Next]_vars /\ Fairness
=============================================================================
