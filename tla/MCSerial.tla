------------------------------ MODULE MCSerial ------------------------------
(* One worker reconciles two policies.  Either they are HibernatePolicies   *)
(* of one namespace with one autoscaled Deployment, one with cap 0 (which   *)
(* detaches the HPA) and one with cap 1 (which clamps it).  Or they are     *)
(* ClusterHibernatePolicies, which a namespace and workloads of three kinds *)
(* opt in to: a StatefulSet of another namespace, a ReplicaSet that an      *)
(* older version of the program left hibernated, a DaemonSet, and a         *)
(* ReplicaSet that a Deployment manages.                                    *)
EXTENDS Hibernation

CONSTANTS d, sts, rs, ds, owned, A1, A2, B, C, home, ns, other

MCKindOf ==
    [w \in Workloads |-> CASE w = d -> "Deployment" [] w = sts -> "StatefulSet"
                           [] w = ds -> "DaemonSet" [] OTHER -> "ReplicaSet"]
MCNamespaceOf ==
    [w \in Workloads |-> CASE w = d -> home [] w = sts -> other [] OTHER -> ns]
MCHomeOf == [p \in HPs |-> home]
MCMin == [w \in Autoscaled |-> 1]
MCMax == [w \in Autoscaled |-> 3]
MCHPSpecs == [cap : {0, 1}, sleep : {FALSE}, types : {{"Deployment"}}]
             \cup {[cap |-> 1, sleep |-> FALSE, types |-> {"StatefulSet"}]}
MCCHPSpecs == {[cap |-> 0, sleep |-> TRUE, included |-> {}, excluded |-> {}],
               [cap |-> 0, sleep |-> TRUE, included |-> {"DaemonSet", "StatefulSet"},
                excluded |-> {}],
               [cap |-> None, sleep |-> TRUE, included |-> {}, excluded |-> {"StatefulSet"}]}

Unopted == wlPolicy = [w \in Workloads |-> None] /\ nsPolicy = [n \in Namespaces |-> None]

MCHibernatePolicies ==
    /\ policy = [p \in Policies |->
                   CASE p = A1 -> [cap |-> 0, sleep |-> FALSE, types |-> {"Deployment"}]
                     [] p = A2 -> [cap |-> 1, sleep |-> FALSE, types |-> {"Deployment"}]
                     [] OTHER -> None]
    /\ Unopted

(* The namespace ns opts in to one policy, the workload rs to the other.    *)
MCClusterHibernatePolicies ==
    /\ policy = [p \in Policies |->
                   IF p \in HPs THEN None
                   ELSE [cap |-> 0, sleep |-> TRUE, included |-> {}, excluded |-> {}]]
    /\ \E p, q \in CHPs :
          /\ p # q
          /\ nsPolicy = [n \in Namespaces |-> IF n = ns THEN p ELSE None]
          /\ wlPolicy = [w \in Workloads |-> CASE w = sts -> p [] w = rs -> q [] OTHER -> None]

MCInit ==
    /\ MCHibernatePolicies \/ MCClusterHibernatePolicies
    /\ Init
    /\ \A p \in Policies : policy[p] = None => ~inWindow[p]
    /\ \A w \in Workloads : w # d \/ ~Unopted => wanted[w] = IF w = ds THEN {{}} ELSE {2}

(* Users leave alone what nobody reconciles, and calls fail with the        *)
(* HibernatePolicies only.                                                  *)
MCNext ==
    /\ Next
    /\ IF Unopted
       THEN /\ UNCHANGED <<wlPolicy, nsPolicy>>
            /\ \A w \in Workloads \ {d} : UNCHANGED wl[w]
            /\ \A p \in CHPs : policy'[p] = None
       ELSE /\ UNCHANGED <<faults, wl[d]>>
            /\ wlPolicy'[d] = None /\ nsPolicy'[home] = None
            /\ \A p \in HPs : policy'[p] = None

Turn(p, q) ==
    \/ HPReconcile(p) /\ UNCHANGED chp
    \/ CHPReconcile(q) /\ UNCHANGED hp

(* Fairness, of which this is the part that applies: of A1 and B, and of A2 *)
(* and C, one is absent, and no cache is behind.                            *)
MCFairness ==
    /\ WF_vars(HPProgress /\ UNCHANGED chp)
    /\ WF_vars(CHPProgress /\ UNCHANGED hp)
    /\ SF_vars(Turn(A1, B))
    /\ SF_vars(Turn(A2, C))

MCSpec == MCInit /\ [][MCNext]_vars /\ MCFairness
=============================================================================
