---------------------------- MODULE Hibernation ----------------------------
(***************************************************************************)
(* Both hibernation controllers at work on one cluster: their workers      *)
(* interleave at every API call, read the same caches and may be stopped   *)
(* at any point by a crash of the manager they share.                      *)
(***************************************************************************)
EXTENDS HibernatePolicy, ClusterHibernatePolicy

vars == <<wl, hpa, wanted, policy, inWindow, wlPolicy, nsPolicy, status, edits, faults, hp, chp>>

Init == ClusterInit /\ hp = HPIdle /\ chp = CHPIdle

(* The manager restarts: both reconciles are lost and the caches are filled *)
(* by a fresh list.                                                         *)
Crash ==
    /\ Fault
    /\ hp' = HPIdle
    /\ chp' = CHPIdle
    /\ wl' = [w \in Workloads |-> <<Live(wl[w])>>]
    /\ hpa' = [w \in Autoscaled |-> <<Live(hpa[w])>>]
    /\ UNCHANGED <<wanted, policy, inWindow, wlPolicy, nsPolicy, status, edits>>

Next ==
    \/ HPNext /\ UNCHANGED chp
    \/ CHPNext /\ UNCHANGED hp
    \/ Environment /\ UNCHANGED <<hp, chp>>
    \/ Crash

(* Workers do not stop in the middle of a reconcile, watch events arrive,   *)
(* and every existing policy is queued again by the requeue of its last     *)
(* reconcile, so its turn comes though other policies take theirs.          *)
Fairness ==
    /\ WF_vars(HPProgress /\ UNCHANGED chp)
    /\ WF_vars(CHPProgress /\ UNCHANGED hp)
    /\ \A p \in HPs : SF_vars(HPReconcile(p) /\ UNCHANGED chp)
    /\ \A p \in CHPs : SF_vars(CHPReconcile(p) /\ UNCHANGED hp)
    /\ \A w \in Workloads : WF_vars(WorkloadEvent(w) /\ UNCHANGED <<hp, chp>>)
    /\ \A w \in Autoscaled : WF_vars(HPAEvent(w) /\ UNCHANGED <<hp, chp>>)

Spec == Init /\ [][Next]_vars /\ Fairness

-----------------------------------------------------------------------------
(* Types *)

Selectors == SUBSET (Labels \cup {HibernateLabel})
SpecsOf(w) == IF IsDaemonSet(w) THEN Selectors ELSE Nat

VersionsOf(w) ==
    [spec : SpecsOf(w), hib : BOOLEAN, by : Policies \cup {None}, orig : SpecsOf(w) \cup {None}]

HPAVersions ==
    [min : Nat, max : Nat, attached : BOOLEAN, omin : Nat \cup {None}, omax : Nat \cup {None},
     otarget : BOOLEAN]

HPStates(snap) ==
    [pc : {"idle", "types", "items", "patch", "hpa", "hpaPatch"},
     policy : HPs \cup {None}, spec : HPSpecs \cup {None}, wake : BOOLEAN,
     types : SUBSET Kinds, todo : SUBSET Workloads, snap : {snap},
     w : Workloads \cup {None}, hbase : HPAVersions \cup {None},
     listed : SUBSET Workloads, names : SUBSET Workloads]

HPTypeOK ==
    /\ hp \in HPStates(hp.snap)
    /\ hp.pc # "idle" => hp.policy # None /\ hp.spec # None
    /\ DOMAIN hp.snap = Workloads
    /\ \A w \in hp.todo : hp.snap[w] \in VersionsOf(w)
    /\ hp.pc \in {"patch", "hpa", "hpaPatch"} => hp.w \in hp.todo
    /\ hp.pc = "hpaPatch" => hp.w \in Autoscaled /\ hp.hbase \in HPAVersions

CHPStates(base) ==
    [pc : {"idle", "namespaces", "workloads", "items", "patch", "hpa", "hpaPatch"},
     policy : CHPs \cup {None}, spec : CHPSpecs \cup {None}, wake : BOOLEAN,
     refs : SUBSET Workloads, w : Workloads \cup {None}, base : {base},
     hbase : HPAVersions \cup {None}, names : SUBSET Workloads]

CHPTypeOK ==
    /\ chp \in CHPStates(chp.base)
    /\ chp.pc # "idle" => chp.policy # None /\ chp.spec # None
    /\ chp.pc \in {"patch", "hpa", "hpaPatch"} =>
          chp.w \in chp.refs /\ chp.base \in VersionsOf(chp.w)
    /\ chp.pc = "hpaPatch" => chp.w \in Autoscaled /\ chp.hbase \in HPAVersions

ClusterTypeOK ==
    /\ wl = [w \in Workloads |-> wl[w]]
    /\ \A w \in Workloads : wl[w] \in Seq(VersionsOf(w)) /\ Len(wl[w]) \in 1..(MaxLag + 1)
    /\ hpa \in [Autoscaled -> Seq(HPAVersions)]
    /\ \A w \in Autoscaled : Len(hpa[w]) \in 1..(MaxLag + 1)
    /\ wanted = [w \in Workloads |-> wanted[w]]
    /\ \A w \in Workloads : wanted[w] \subseteq UserSpecs(w)
    /\ policy \in [Policies -> HPSpecs \cup CHPSpecs \cup {None}]
    /\ \A p \in HPs : policy[p] \in HPSpecs \cup {None}
    /\ \A p \in CHPs : policy[p] \in CHPSpecs \cup {None}
    /\ inWindow \in [Policies -> BOOLEAN]
    /\ wlPolicy \in [Workloads -> CHPs \cup {None}]
    /\ nsPolicy \in [Namespaces -> CHPs \cup {None}]
    /\ status \in [Policies -> SUBSET Workloads]
    /\ edits \in 0..MaxEdits
    /\ faults \in 0..MaxFaults

(* Each variable has its type; the version a controller is about to patch   *)
(* from is a version of the workload at hand.                               *)
TypeOK == ClusterTypeOK /\ HPTypeOK /\ CHPTypeOK

-----------------------------------------------------------------------------
(* Safety *)

(* v still knows what the user wants of w: an awake workload runs with a    *)
(* spec the user gave it and a sleeping one has stored one.  Node selectors *)
(* merge key by key, so of a DaemonSet only this: what it runs with, or     *)
(* stored, are labels of users, never the label that keeps it asleep.       *)
KnowsOriginal(w, v) ==
    LET kept == IF v.hib THEN v.orig ELSE v.spec
    IN  IF IsDaemonSet(w) THEN kept \subseteq Labels ELSE kept \in wanted[w]

(* However the two controllers interleave, however old the cached versions  *)
(* they patch from, and wherever a call fails or the manager crashes, no    *)
(* version of a workload loses its original replica count or node selector  *)
(* (the check for the marker before annotationOriginalReplicas is set).     *)
OriginalsKept ==
    \A w \in Workloads : \A i \in 1..Len(wl[w]) : KnowsOriginal(w, wl[w][i])

(* OriginalsKept is not inductive: a merge patch carries only what differs, *)
(* so that the original comes back with a wake-up also needs a sleeping     *)
(* version to run below its original and an awake one to store none.        *)
Sound(w, v) ==
    /\ KnowsOriginal(w, v)
    /\ IF v.hib
       THEN /\ v.orig # None
            /\ IF IsDaemonSet(w) THEN HibernateLabel \in v.spec ELSE v.spec < v.orig
       ELSE v.orig = None

(* Users who edit sleeping workloads break this, and nothing else does.     *)
SoundVersions(w) == {v \in VersionsOf(w) : NightEdits \/ Sound(w, v)}

(* The version that is patched is sound, and is the kind of version the     *)
(* patch was decided on.                                                    *)
ReadyToPatch(w, v, pc, wake, spec) ==
    /\ v \in SoundVersions(w)
    /\ wake => v.hib
    /\ pc = "patch" /\ ~wake => ~v.hib /\ (~IsDaemonSet(w) => spec.cap # None /\ v.spec > spec.cap)
    /\ pc \in {"hpa", "hpaPatch"} => ~IsDaemonSet(w) /\ (~wake => spec.cap # None)

ClusterInv ==
    ClusterTypeOK /\ \A w \in Workloads : wl[w] \in Seq(SoundVersions(w))

HPInv ==
    /\ HPTypeOK
    /\ \A w \in hp.todo : hp.snap[w] \in SoundVersions(w)
    /\ hp.pc \in {"patch", "hpa", "hpaPatch"} =>
          ReadyToPatch(hp.w, hp.snap[hp.w], hp.pc, hp.wake, hp.spec)

CHPInv ==
    /\ CHPTypeOK
    /\ chp.pc \in {"patch", "hpa", "hpaPatch"} =>
          ReadyToPatch(chp.w, chp.base, chp.pc, chp.wake, chp.spec)

Inductive == ClusterInv /\ HPInv /\ CHPInv

(* The workloads with replicas as objects of SleepAndWake: what the API     *)
(* server holds of each, whatever the caches and the controllers have read. *)
Scalable == Workloads \ DaemonSets
Asked == [w \in Scalable |-> wanted[w]]
Asleep == [w \in Scalable |-> Live(wl[w]).hib]
Runs == [w \in Scalable |-> Live(wl[w]).spec]
Kept == [w \in Scalable |-> IF Live(wl[w]).hib THEN Live(wl[w]).orig ELSE Live(wl[w]).spec]

SW == INSTANCE SleepAndWake WITH
    Objects <- Scalable, Requests <- Counts,
    asked <- Asked, asleep <- Asleep, runs <- Runs, kept <- Kept

(* The two controllers, with their interleavings, stale reads, failed calls *)
(* and crashes, do no more to a workload than put it to sleep, with fewer   *)
(* replicas than before, and give it back a count its users asked for: they *)
(* implement SleepAndWake (of users who leave sleeping workloads alone).    *)
ImplementsSleepAndWake == SW!Spec

HPAKnowsOriginal(w, h) ==
    IF h.omin = None
    THEN h.min = MinReplicas[w] /\ h.max = MaxReplicas[w] /\ h.attached /\ ~h.otarget
    ELSE /\ h.omin = MinReplicas[w] /\ h.omax = MaxReplicas[w]
         /\ h.attached = ~h.otarget

(* An HPA has the bounds and the target it was made with, or is suspended   *)
(* and has stored them (suspendHPA, restoreHPA), whichever policy, with     *)
(* whichever cap, suspended it and from whichever cached version.           *)
HPAOriginalsKept ==
    \A w \in Autoscaled : \A i \in 1..Len(hpa[w]) : HPAKnowsOriginal(w, hpa[w][i])

(* The policy whose controller takes this step.                             *)
Acting == IF hp' # hp THEN hp.policy ELSE chp.policy

(* README.md:526: "only the policy that put the workload to sleep may wake  *)
(* it": what ownedBy checks on the version that was read, said of the       *)
(* version that is overwritten.                                             *)
OnlyOwnerWakes ==
    [][\A w \in Workloads :
          Live(wl[w]).hib /\ ~Live(wl'[w]).hib => Live(wl[w]).by \in {None, Acting}]_vars

(* No policy takes over a workload that another one put to sleep: the       *)
(* hibernate functions leave a marked workload to its owner.                *)
OwnerKept ==
    [][\A w \in Workloads :
          Live(wl[w]).hib /\ Live(wl'[w]).hib => Live(wl'[w]).by = Live(wl[w]).by]_vars

-----------------------------------------------------------------------------
(* Liveness *)

Governs(p, w) ==
    /\ policy[p] # None
    /\ w \notin OwnedByDeployment
    /\ IF p \in HPs THEN NamespaceOf[w] = HomeOf[p] /\ KindOf[w] \in policy[p].types
       ELSE /\ w \in allWorkloadsInNamespace(p) \cup annotatedWorkloads(p)
            /\ kindAllowed(w, policy[p])

(* Whether p puts w to sleep whatever the user asked of it.                 *)
Lowers(p, w) ==
    IF IsDaemonSet(w) THEN policy[p].sleep
    ELSE \A n \in wanted[w] : computeTargetReplicas(policy[p].cap, n)

(* A policy that may wake w, if it sleeps, also governs it.                 *)
Restorable(w) ==
    Live(wl[w]).hib => \E p \in Policies : Governs(p, w) /\ Live(wl[w]).by \in {None, p}

AllInWindows == \A p \in Policies : policy[p] # None => inWindow[p]

(* When every policy stays in a window, each workload that its owner still  *)
(* governs wakes up for good, though calls fail, the manager crashes and    *)
(* listings are stale (wakeWorkloadType, wakeWorkload and their requeues).  *)
AwakeInWindows ==
    <>[]AllInWindows => <>[](\A w \in Workloads : Restorable(w) => ~Live(wl[w]).hib)

WindowsSettle == <>[][UNCHANGED inWindow]_vars

(* When the windows settle, each workload that some policy outside its      *)
(* windows lowers sleeps for good: overlapping policies do not wake each    *)
(* other's workloads in turn (ownedBy in the hibernate and wake functions). *)
AsleepOutsideWindows ==
    WindowsSettle =>
        <>[](\A w \in Workloads, p \in Policies :
                ~inWindow[p] /\ Governs(p, w) /\ Lowers(p, w) => Live(wl[w]).hib)

SleepsBy(p, w) == Live(wl[w]).hib /\ Live(wl[w]).by = p

(* Whether the spec of p has an action for w.                               *)
ActsOn(p, w) == actionSet(policy[p]) /\ (IsDaemonSet(w) => policy[p].sleep)

(* The status tells the truth in the end: once the windows of the policy    *)
(* settle it lists the workloads that sleep by the policy, those put to     *)
(* sleep by an earlier reconcile too, though a type that failed midway      *)
(* dropped its names, and it is empty in a window (the names that           *)
(* hibernateWorkloadType returns and the status patch).                     *)
StatusSettles ==
    \A p \in Policies :
        <>[][UNCHANGED inWindow[p]]_vars =>
            <>[](/\ ~inWindow[p] =>
                       \A w \in Workloads :
                          SleepsBy(p, w) /\ Governs(p, w) /\ ActsOn(p, w) => w \in status[p]
                 /\ policy[p] # None /\ inWindow[p] => status[p] = {})

(* README: the annotation of a workload "wins over the namespace annotation,*)
(* including when it points to another policy": once the annotations settle *)
(* no policy puts a workload to sleep whose annotation names another one    *)
(* (allWorkloadsInNamespace).                                               *)
AnnotationWins ==
    <>[][UNCHANGED wlPolicy]_vars =>
        <>[][\A w \in Workloads, p \in CHPs :
                wlPolicy[w] \notin {None, p} /\ SleepsBy(p, w)' => SleepsBy(p, w)]_vars

(* When a workload wakes for good its HPA works again, as it was            *)
(* (restoreHPA, which runs before the workload's own patch).                *)
HPARestored ==
    <>[]AllInWindows =>
        <>[](\A w \in Autoscaled : Restorable(w) => Live(hpa[w]) = OriginalHPA(w))

(* While a workload sleeps under the cap of its owner its HPA is suspended, *)
(* also when the call that suspends it failed after the workload was patched*)
(* (suspendHPAForAction on a workload that is already hibernated).          *)
HPASuspended ==
    \A p \in Policies :
        <>[][UNCHANGED inWindow[p]]_vars =>
            <>[](\A w \in Autoscaled :
                    SleepsBy(p, w) /\ ~inWindow[p] /\ Governs(p, w) /\ policy[p].cap # None
                        => Live(hpa[w]).omin # None)
=============================================================================
