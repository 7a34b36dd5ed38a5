-------------------------- MODULE HibernatePolicy --------------------------
(***************************************************************************)
(* The HibernatePolicy controller.  It has one worker, so one policy is    *)
(* reconciled at a time.  A reconcile reads the policy and the clock, then *)
(* for each workload type lists the namespace once and handles the listed  *)
(* objects one after another; every patch is made from that listing.  The  *)
(* order of the types (the user's) and of a listing (the cache's) is left  *)
(* open.  Any error ends the type it happens in and the next type goes on. *)
(***************************************************************************)
EXTENDS Cluster

VARIABLE hp     \* the reconcile that is running

HPIdle ==
    [pc     |-> "idle",
     policy |-> None,   \* the policy reconciled ...
     spec   |-> None,   \* ... its spec as read ...
     wake   |-> FALSE,  \* ... and whether it was in a window when the clock was read
     types  |-> {},     \* workload types still to do
     todo   |-> {},     \* workloads of the current type still to do
     snap   |-> [w \in Workloads |-> None],  \* the listing of the current type
     w      |-> None,   \* the workload at hand
     hbase  |-> None,   \* the version of its HPA that was listed
     listed |-> {},     \* names collected for the current type ...
     names  |-> {}]     \* ... and for the types that are done

(* Leave the workload at hand and go on with the listing.                   *)
HPContinue(w) ==
    [hp EXCEPT !.pc = "items", !.todo = @ \ {w}, !.snap[w] = None, !.w = None, !.hbase = None]

(* The same, with its name added to the hibernated ones.                    *)
HPCounted(w) ==
    [hp EXCEPT !.pc = "items", !.todo = @ \ {w}, !.snap[w] = None, !.w = None, !.hbase = None,
               !.listed = @ \cup {w}]

HPAt(pc, w) == [hp EXCEPT !.pc = pc, !.w = w]

(* An error ends the type: its names are dropped, the status will not list  *)
(* them.                                                                    *)
HPAbortType ==
    [hp EXCEPT !.pc = "types", !.todo = {}, !.snap = [w \in Workloads |-> None], !.w = None,
               !.hbase = None, !.listed = {}]

-----------------------------------------------------------------------------

HPReconcile(p) ==
    /\ hp.pc = "idle"
    /\ policy[p] # None
    /\ hp' = [HPIdle EXCEPT !.pc = "types", !.policy = p, !.spec = policy[p],
                            !.wake = inWindow[p], !.types = policy[p].types]
    /\ UNCHANGED clusterVars

(* ReplicaSets that a Deployment manages are left to it.                    *)
HPListing(k) ==
    {w \in Workloads : /\ NamespaceOf[w] = HomeOf[hp.policy]
                       /\ KindOf[w] = k
                       /\ w \notin OwnedByDeployment}

HPList(k) ==
    /\ hp' = [hp EXCEPT !.pc = "items", !.types = @ \ {k}, !.todo = HPListing(k),
                        !.snap = [w \in Workloads |-> IF w \in HPListing(k) THEN Cached(wl[w])
                                                                            ELSE None]]
    /\ UNCHANGED clusterVars

(* Mutant: nothing is done unless the sleep action is set.                  *)
HPActsOnSleepOnly(k) == hp.spec.sleep

HPActsOn(k) == actionSet(hp.spec) /\ (k = "DaemonSet" => hp.spec.sleep)

hibernateWorkloadType(k) ==
    /\ hp.pc = "types" /\ k \in hp.types /\ ~hp.wake
    /\ \/ HPActsOn(k) /\ HPList(k)
       \/ ~HPActsOn(k) /\ hp' = [hp EXCEPT !.types = @ \ {k}] /\ UNCHANGED clusterVars

wakeWorkloadType(k) ==
    /\ hp.pc = "types" /\ k \in hp.types /\ hp.wake
    /\ HPList(k)

HPListFails(k) ==
    /\ hp.pc = "types" /\ k \in hp.types /\ (hp.wake \/ HPActsOn(k))
    /\ Fault
    /\ hp' = [hp EXCEPT !.types = @ \ {k}]
    /\ UNCHANGED <<wl, hpa, wanted, policy, inWindow, wlPolicy, nsPolicy, status, edits>>

-----------------------------------------------------------------------------
(* One listed workload, outside the windows.  The three kinds with replicas *)
(* have a function each, with the same body.                                *)

HPHibernateItem(w, k) == hp.pc = "items" /\ ~hp.wake /\ w \in hp.todo /\ KindOf[w] = k

(* Mutants: the marker is not checked before a workload is lowered; the HPA *)
(* of one that sleeps already is not looked at again.                       *)
HPHibernateReplicasTwice(w) ==
    LET lower == computeTargetReplicas(hp.spec.cap, hp.snap[w].spec)
    IN  /\ \/ lower /\ hp' = HPAt("patch", w)
           \/ ~lower /\ hp' = HPContinue(w)
        /\ UNCHANGED clusterVars

HPHibernateReplicasOnce(w) ==
    LET v == hp.snap[w]
        mine == v.hib /\ ownedBy(v, hp.policy)
        lower == ~v.hib /\ computeTargetReplicas(hp.spec.cap, v.spec)
    IN  /\ \/ mine /\ hp' = HPCounted(w)
           \/ lower /\ hp' = HPAt("patch", w)
           \/ ~mine /\ ~lower /\ hp' = HPContinue(w)
        /\ UNCHANGED clusterVars

HPHibernateReplicas(w) ==
    LET v == hp.snap[w]
        mine == v.hib /\ ownedBy(v, hp.policy)
        lower == ~v.hib /\ computeTargetReplicas(hp.spec.cap, v.spec)
    IN  /\ \/ mine /\ hp.spec.cap # None /\ hp' = HPAt("hpa", w)
           \/ mine /\ hp.spec.cap = None /\ hp' = HPCounted(w)
           \/ lower /\ hp' = HPAt("patch", w)
           \/ ~mine /\ ~lower /\ hp' = HPContinue(w)
        /\ UNCHANGED clusterVars

hibernateDeployments(w) == HPHibernateItem(w, "Deployment") /\ HPHibernateReplicas(w)
hibernateStatefulSets(w) == HPHibernateItem(w, "StatefulSet") /\ HPHibernateReplicas(w)
hibernateReplicaSets(w) == HPHibernateItem(w, "ReplicaSet") /\ HPHibernateReplicas(w)

(* Mutant: the marker is not checked before a DaemonSet is put to sleep.    *)
hibernateDaemonSetsTwice(w) ==
    /\ HPHibernateItem(w, "DaemonSet")
    /\ hp' = HPAt("patch", w)
    /\ UNCHANGED clusterVars

hibernateDaemonSets(w) ==
    /\ HPHibernateItem(w, "DaemonSet")
    /\ LET v == hp.snap[w]
       IN  \/ ~v.hib /\ hp' = HPAt("patch", w)
           \/ v.hib /\ ownedBy(v, hp.policy) /\ hp' = HPCounted(w)
           \/ v.hib /\ ~ownedBy(v, hp.policy) /\ hp' = HPContinue(w)
    /\ UNCHANGED clusterVars

-----------------------------------------------------------------------------
(* One listed workload, inside a window: the HPA comes first.               *)

HPWakeItem(w, k) == hp.pc = "items" /\ hp.wake /\ w \in hp.todo /\ KindOf[w] = k

HPWakes(w) == hp.snap[w].hib /\ ownedBy(hp.snap[w], hp.policy)

HPWakeReplicas(w) ==
    /\ \/ HPWakes(w) /\ hp' = HPAt("hpa", w)
       \/ ~HPWakes(w) /\ hp' = HPContinue(w)
    /\ UNCHANGED clusterVars

wakeDeployments(w) == HPWakeItem(w, "Deployment") /\ HPWakeReplicas(w)
wakeStatefulSets(w) == HPWakeItem(w, "StatefulSet") /\ HPWakeReplicas(w)
wakeReplicaSets(w) == HPWakeItem(w, "ReplicaSet") /\ HPWakeReplicas(w)

wakeDaemonSets(w) ==
    /\ HPWakeItem(w, "DaemonSet")
    /\ \/ HPWakes(w) /\ hp' = HPAt("patch", w)
       \/ ~HPWakes(w) /\ hp' = HPContinue(w)
    /\ UNCHANGED clusterVars

-----------------------------------------------------------------------------
(* The patch of the workload at hand, from the version that was listed.     *)

HPDesired ==
    IF hp.wake THEN clearHibernated(hp.w, hp.snap[hp.w])
    ELSE markHibernated(hp.w, hp.snap[hp.w], hp.policy, hp.spec.cap)

HPPatch ==
    /\ hp.pc = "patch"
    /\ PatchWorkload(hp.w, hp.snap[hp.w], HPDesired)
    /\ hp' = IF hp.wake THEN HPContinue(hp.w)
             ELSE IF IsDaemonSet(hp.w) THEN HPCounted(hp.w)
             ELSE HPAt("hpa", hp.w)
    /\ UNCHANGED <<hpa, wanted, policy, inWindow, wlPolicy, nsPolicy, status, edits, faults>>

(* The call fails before it reached the API server, or after.               *)
HPPatchFails ==
    /\ hp.pc = "patch"
    /\ Fault
    /\ UNCHANGED wl \/ PatchWorkload(hp.w, hp.snap[hp.w], HPDesired)
    /\ hp' = HPAbortType
    /\ UNCHANGED <<hpa, wanted, policy, inWindow, wlPolicy, nsPolicy, status, edits>>

(* suspendHPA or restoreHPA: list the HPAs, then patch the one found.       *)

(* Mutant: the name is added to a slice that is thrown away.                *)
HPHPADoneUnnamed ==
    IF hp.wake THEN [HPAt("patch", hp.w) EXCEPT !.hbase = None] ELSE HPContinue(hp.w)

(* A workload is woken after its HPA, and named when its HPA is suspended.  *)
HPHPADone == IF hp.wake THEN [HPAt("patch", hp.w) EXCEPT !.hbase = None] ELSE HPCounted(hp.w)

HPFindHPA ==
    /\ hp.pc = "hpa"
    /\ LET found == IF hp.wake THEN ToRestore(hp.w) ELSE ToSuspend(hp.w)
       IN  \/ found /\ hp' = [hp EXCEPT !.pc = "hpaPatch", !.hbase = Cached(hpa[hp.w])]
           \/ ~found /\ hp' = HPHPADone
    /\ UNCHANGED clusterVars

HPDesiredHPA ==
    IF hp.wake THEN restoreHPA(hp.hbase) ELSE suspendHPA(hp.hbase, hp.spec.cap)

HPPatchHPA ==
    /\ hp.pc = "hpaPatch"
    /\ PatchAccepted(hp.w, hp.hbase, HPDesiredHPA)
    /\ PatchHPA(hp.w, hp.hbase, HPDesiredHPA)
    /\ hp' = HPHPADone
    /\ UNCHANGED <<wl, wanted, policy, inWindow, wlPolicy, nsPolicy, status, edits, faults>>

HPPatchHPARejected ==
    /\ hp.pc = "hpaPatch"
    /\ ~PatchAccepted(hp.w, hp.hbase, HPDesiredHPA)
    /\ hp' = HPAbortType
    /\ UNCHANGED clusterVars

HPCallHPAFails ==
    /\ hp.pc \in {"hpa", "hpaPatch"}
    /\ Fault
    /\ \/ UNCHANGED hpa
       \/ /\ hp.pc = "hpaPatch"
          /\ PatchAccepted(hp.w, hp.hbase, HPDesiredHPA)
          /\ PatchHPA(hp.w, hp.hbase, HPDesiredHPA)
    /\ hp' = HPAbortType
    /\ UNCHANGED <<wl, wanted, policy, inWindow, wlPolicy, nsPolicy, status, edits>>

-----------------------------------------------------------------------------

(* Mutant: the names of a type replace those of the types before.           *)
HPTypeDoneLast ==
    /\ hp.pc = "items" /\ hp.todo = {}
    /\ hp' = [hp EXCEPT !.pc = "types", !.listed = {}, !.names = hp.listed]
    /\ UNCHANGED clusterVars

HPTypeDone ==
    /\ hp.pc = "items" /\ hp.todo = {}
    /\ hp' = [hp EXCEPT !.pc = "types", !.listed = {}, !.names = @ \cup hp.listed]
    /\ UNCHANGED clusterVars

(* The status patch, whose outcome nothing here reads back.  The result     *)
(* always asks for another reconcile, at the latest after                   *)
(* windowCheckInterval, so HPReconcile is enabled again at once.            *)
HPPatchStatus ==
    /\ hp.pc = "types" /\ hp.types = {}
    /\ status' = IF policy[hp.policy] = None THEN status
                 ELSE [status EXCEPT ![hp.policy] = IF hp.wake THEN {} ELSE hp.names]
    /\ hp' = HPIdle
    /\ UNCHANGED <<wl, hpa, wanted, policy, inWindow, wlPolicy, nsPolicy, edits, faults>>

HPPatchStatusFails ==
    /\ hp.pc = "types" /\ hp.types = {}
    /\ Fault
    /\ hp' = HPIdle
    /\ UNCHANGED <<wl, hpa, wanted, policy, inWindow, wlPolicy, nsPolicy, status, edits>>

-----------------------------------------------------------------------------

HPWorkload(w) ==
    \/ hibernateDeployments(w) \/ hibernateStatefulSets(w)
    \/ hibernateReplicaSets(w) \/ hibernateDaemonSets(w)
    \/ wakeDeployments(w) \/ wakeStatefulSets(w)
    \/ wakeReplicaSets(w) \/ wakeDaemonSets(w)

HPProgress ==
    \/ \E k \in Kinds : hibernateWorkloadType(k) \/ wakeWorkloadType(k)
    \/ \E w \in Workloads : HPWorkload(w)
    \/ HPPatch \/ HPFindHPA \/ HPPatchHPA \/ HPPatchHPARejected
    \/ HPTypeDone \/ HPPatchStatus

HPFailure ==
    \/ \E k \in Kinds : HPListFails(k)
    \/ HPPatchFails \/ HPCallHPAFails \/ HPPatchStatusFails

HPNext == (\E p \in HPs : HPReconcile(p)) \/ HPProgress \/ HPFailure
=============================================================================
