----------------------- MODULE ClusterHibernatePolicy -----------------------
(***************************************************************************)
(* The ClusterHibernatePolicy controller, with one worker of its own beside *)
(* that of the HibernatePolicy controller.  A reconcile collects the refs  *)
(* of the workloads that opted in, on their namespace or on themselves,    *)
(* and handles them one after another; each is read again by a Get before  *)
(* it is changed.  An error is kept for the result and the next ref goes   *)
(* on; only an error while collecting ends the reconcile.                  *)
(***************************************************************************)
EXTENDS Cluster

VARIABLE chp    \* the reconcile that is running

CHPIdle ==
    [pc     |-> "idle",
     policy |-> None,   \* the policy reconciled ...
     spec   |-> None,   \* ... its spec as read ...
     wake   |-> FALSE,  \* ... and whether it was in a window when the clock was read
     refs   |-> {},     \* collected workloads still to do
     w      |-> None,   \* the workload at hand ...
     base   |-> None,   \* ... its version as read by Get ...
     hbase  |-> None,   \* ... and that of its HPA as listed
     names  |-> {}]     \* names for status.hibernatedWorkloads

CHPContinue(w) ==
    [chp EXCEPT !.pc = "items", !.refs = @ \ {w}, !.w = None, !.base = None, !.hbase = None]

CHPCounted(w) ==
    [chp EXCEPT !.pc = "items", !.refs = @ \ {w}, !.w = None, !.base = None, !.hbase = None,
                !.names = @ \cup {w}]

CHPAt(pc, w, v) == [chp EXCEPT !.pc = pc, !.w = w, !.base = v]

-----------------------------------------------------------------------------

(* Mutant: a policy that is not found is reconciled.                        *)
CHPReconcileMissing(p) ==
    /\ chp.pc = "idle"
    /\ chp' = [CHPIdle EXCEPT !.pc = "namespaces", !.policy = p, !.spec = policy[p],
                              !.wake = inWindow[p]]
    /\ UNCHANGED clusterVars

CHPReconcile(p) ==
    /\ chp.pc = "idle"
    /\ policy[p] # None
    /\ chp' = [CHPIdle EXCEPT !.pc = "namespaces", !.policy = p, !.spec = policy[p],
                              !.wake = inWindow[p]]
    /\ UNCHANGED clusterVars

kindAllowed(w, s) ==
    IF s.included # {} THEN KindOf[w] \in s.included ELSE KindOf[w] \notin s.excluded

(* Mutant: the annotation of the workload is not looked at.                 *)
allWorkloadsOfNamespace(p) ==
    {w \in Workloads \ OwnedByDeployment : nsPolicy[NamespaceOf[w]] = p}

(* Workloads of the namespaces annotated with p, but for those annotated    *)
(* with another policy ...                                                  *)
allWorkloadsInNamespace(p) ==
    {w \in Workloads \ OwnedByDeployment :
        nsPolicy[NamespaceOf[w]] = p /\ wlPolicy[w] \in {None, p}}

(* ... and workloads annotated with p themselves.                           *)
annotatedWorkloads(p) == {w \in Workloads \ OwnedByDeployment : wlPolicy[w] = p}

collectNamespaces ==
    /\ chp.pc = "namespaces"
    /\ chp' = [chp EXCEPT !.pc = "workloads",
                          !.refs = {w \in allWorkloadsInNamespace(chp.policy) :
                                        kindAllowed(w, chp.spec)}]
    /\ UNCHANGED clusterVars

(* Mutant: workloads that opted in themselves are left out.                 *)
collectNoWorkloads ==
    /\ chp.pc = "workloads"
    /\ chp' = [chp EXCEPT !.pc = "items"]
    /\ UNCHANGED clusterVars

collectWorkloads ==
    /\ chp.pc = "workloads"
    /\ chp' = [chp EXCEPT !.pc = "items",
                          !.refs = @ \cup {w \in annotatedWorkloads(chp.policy) :
                                               kindAllowed(w, chp.spec)}]
    /\ UNCHANGED clusterVars

collectFails ==
    /\ chp.pc \in {"namespaces", "workloads"}
    /\ Fault
    /\ chp' = CHPIdle
    /\ UNCHANGED <<wl, hpa, wanted, policy, inWindow, wlPolicy, nsPolicy, status, edits>>

-----------------------------------------------------------------------------
(* One ref.  A Get that fails leaves the workload to the next reconcile.    *)

(* Mutant: the marker is not checked before a workload is lowered.          *)
hibernateWorkloadTwice(w) ==
    /\ chp.pc = "items" /\ w \in chp.refs /\ ~chp.wake
    /\ LET v == Cached(wl[w])
           lower == IF IsDaemonSet(w) THEN chp.spec.sleep
                    ELSE computeTargetReplicas(chp.spec.cap, v.spec)
       IN  \/ lower /\ chp' = CHPAt("patch", w, v)
           \/ ~lower /\ chp' = CHPContinue(w)
    /\ UNCHANGED clusterVars

hibernateWorkload(w) ==
    /\ chp.pc = "items" /\ w \in chp.refs /\ ~chp.wake
    /\ LET v == Cached(wl[w])
           acts == actionSet(chp.spec) /\ (IsDaemonSet(w) => chp.spec.sleep)
           mine == acts /\ v.hib /\ ownedBy(v, chp.policy)
           suspends == ~IsDaemonSet(w) /\ chp.spec.cap # None
           lower == /\ acts /\ ~v.hib
                    /\ ~IsDaemonSet(w) => computeTargetReplicas(chp.spec.cap, v.spec)
       IN  \/ mine /\ suspends /\ chp' = CHPAt("hpa", w, v)
           \/ mine /\ ~suspends /\ chp' = CHPCounted(w)
           \/ lower /\ chp' = CHPAt("patch", w, v)
           \/ ~mine /\ ~lower /\ chp' = CHPContinue(w)
    /\ UNCHANGED clusterVars

wakeWorkload(w) ==
    /\ chp.pc = "items" /\ w \in chp.refs /\ chp.wake
    /\ LET v == Cached(wl[w])
           mine == v.hib /\ ownedBy(v, chp.policy)
       IN  \/ mine /\ chp' = CHPAt(IF IsDaemonSet(w) THEN "patch" ELSE "hpa", w, v)
           \/ ~mine /\ chp' = CHPContinue(w)
    /\ UNCHANGED clusterVars

CHPGetFails(w) ==
    /\ chp.pc = "items" /\ w \in chp.refs
    /\ Fault
    /\ chp' = CHPContinue(w)
    /\ UNCHANGED <<wl, hpa, wanted, policy, inWindow, wlPolicy, nsPolicy, status, edits>>

-----------------------------------------------------------------------------

CHPDesired ==
    IF chp.wake THEN clearHibernated(chp.w, chp.base)
    ELSE markHibernated(chp.w, chp.base, chp.policy, chp.spec.cap)

CHPPatch ==
    /\ chp.pc = "patch"
    /\ PatchWorkload(chp.w, chp.base, CHPDesired)
    /\ chp' = IF chp.wake THEN CHPContinue(chp.w)
              ELSE IF IsDaemonSet(chp.w) THEN CHPCounted(chp.w)
              ELSE CHPAt("hpa", chp.w, chp.base)
    /\ UNCHANGED <<hpa, wanted, policy, inWindow, wlPolicy, nsPolicy, status, edits, faults>>

CHPPatchFails ==
    /\ chp.pc = "patch"
    /\ Fault
    /\ UNCHANGED wl \/ PatchWorkload(chp.w, chp.base, CHPDesired)
    /\ chp' = CHPContinue(chp.w)
    /\ UNCHANGED <<hpa, wanted, policy, inWindow, wlPolicy, nsPolicy, status, edits>>

(* Mutant: the workload is left when its HPA is restored.                   *)
CHPHPADoneEarly == IF chp.wake THEN CHPContinue(chp.w) ELSE CHPCounted(chp.w)

CHPHPADone ==
    IF chp.wake THEN [chp EXCEPT !.pc = "patch", !.hbase = None] ELSE CHPCounted(chp.w)

CHPFindHPA ==
    /\ chp.pc = "hpa"
    /\ LET found == IF chp.wake THEN ToRestore(chp.w) ELSE ToSuspend(chp.w)
       IN  \/ found /\ chp' = [chp EXCEPT !.pc = "hpaPatch", !.hbase = Cached(hpa[chp.w])]
           \/ ~found /\ chp' = CHPHPADone
    /\ UNCHANGED clusterVars

CHPDesiredHPA ==
    IF chp.wake THEN restoreHPA(chp.hbase) ELSE suspendHPA(chp.hbase, chp.spec.cap)

CHPPatchHPA ==
    /\ chp.pc = "hpaPatch"
    /\ PatchAccepted(chp.w, chp.hbase, CHPDesiredHPA)
    /\ PatchHPA(chp.w, chp.hbase, CHPDesiredHPA)
    /\ chp' = CHPHPADone
    /\ UNCHANGED <<wl, wanted, policy, inWindow, wlPolicy, nsPolicy, status, edits, faults>>

CHPPatchHPARejected ==
    /\ chp.pc = "hpaPatch"
    /\ ~PatchAccepted(chp.w, chp.hbase, CHPDesiredHPA)
    /\ chp' = CHPContinue(chp.w)
    /\ UNCHANGED clusterVars

CHPCallHPAFails ==
    /\ chp.pc \in {"hpa", "hpaPatch"}
    /\ Fault
    /\ \/ UNCHANGED hpa
       \/ /\ chp.pc = "hpaPatch"
          /\ PatchAccepted(chp.w, chp.hbase, CHPDesiredHPA)
          /\ PatchHPA(chp.w, chp.hbase, CHPDesiredHPA)
    /\ chp' = CHPContinue(chp.w)
    /\ UNCHANGED <<wl, wanted, policy, inWindow, wlPolicy, nsPolicy, status, edits>>

-----------------------------------------------------------------------------

CHPPatchStatus ==
    /\ chp.pc = "items" /\ chp.refs = {}
    /\ status' = IF policy[chp.policy] = None THEN status
                 ELSE [status EXCEPT ![chp.policy] = IF chp.wake THEN {} ELSE chp.names]
    /\ chp' = CHPIdle
    /\ UNCHANGED <<wl, hpa, wanted, policy, inWindow, wlPolicy, nsPolicy, edits, faults>>

CHPPatchStatusFails ==
    /\ chp.pc = "items" /\ chp.refs = {}
    /\ Fault
    /\ chp' = CHPIdle
    /\ UNCHANGED <<wl, hpa, wanted, policy, inWindow, wlPolicy, nsPolicy, status, edits>>

CHPProgress ==
    \/ collectNamespaces \/ collectWorkloads
    \/ \E w \in Workloads : hibernateWorkload(w) \/ wakeWorkload(w)
    \/ CHPPatch \/ CHPFindHPA \/ CHPPatchHPA \/ CHPPatchHPARejected \/ CHPPatchStatus

CHPFailure ==
    \/ \E w \in Workloads : CHPGetFails(w)
    \/ collectFails \/ CHPPatchFails \/ CHPCallHPAFails \/ CHPPatchStatusFails

CHPNext == (\E p \in CHPs : CHPReconcile(p)) \/ CHPProgress \/ CHPFailure
=============================================================================
