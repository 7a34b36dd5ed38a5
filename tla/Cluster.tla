------------------------------ MODULE Cluster ------------------------------
(***************************************************************************)
(* What the two hibernation controllers share: the API objects they read   *)
(* and patch, the informer caches they read them through, the annotations  *)
(* that mark a sleeping workload, the autoscaler helpers of helpers.go and *)
(* the people who edit the objects.                                        *)
(*                                                                         *)
(* Every object is the sequence of its versions (module Versions).  Both   *)
(* controllers live in one manager and share its cache.                    *)
(***************************************************************************)
EXTENDS Versions

CONSTANTS
    Workloads,          \* the pod-deploying objects
    KindOf,             \* [Workloads -> Kinds]
    NamespaceOf,        \* [Workloads -> Namespaces]
    OwnedByDeployment,  \* ReplicaSets with a Deployment owner reference
    Autoscaled,         \* workloads that an HPA targets
    MinReplicas,        \* [Autoscaled -> Nat], the bounds the HPA was given
    MaxReplicas,
    Legacy,             \* workloads found hibernated with no owner annotation
    Namespaces,
    HPs,                \* HibernatePolicies
    HomeOf,             \* [HPs -> Namespaces]
    CHPs,               \* ClusterHibernatePolicies
    HPSpecs,            \* the specs a user may give a HibernatePolicy
    CHPSpecs,           \* ... and a ClusterHibernatePolicy
    Counts,             \* the replica counts a user may ask for
    Labels,             \* the node labels a user may select on
    HibernateLabel,     \* hibernateNodeSelectorKey
    None,               \* an absent annotation, field or object
    NightEdits,         \* whether users also edit workloads that sleep
    MaxEdits,           \* how many edits users make
    MaxFaults           \* how many calls fail and processes crash

VARIABLES
    wl,         \* versions of each workload
    hpa,        \* versions of each HPA, named by the workload it was made for
    wanted,     \* history: every spec a user gave each workload
    policy,     \* the spec of each policy, None when it does not exist
    inWindow,   \* whether an availability window of the policy covers now
    wlPolicy,   \* the clusterhibernatepolicy annotation of each workload
    nsPolicy,   \* the same annotation of each namespace
    status,     \* status.hibernatedWorkloads of each policy
    edits,      \* edits made so far, at most MaxEdits
    faults      \* faults so far, at most MaxFaults

clusterVars == <<wl, hpa, wanted, policy, inWindow, wlPolicy, nsPolicy, status,
                 edits, faults>>

Policies == HPs \cup CHPs
Kinds == {"Deployment", "StatefulSet", "ReplicaSet", "DaemonSet"}
IsDaemonSet(w) == KindOf[w] = "DaemonSet"
DaemonSets == {w \in Workloads : IsDaemonSet(w)}

(* What a user may ask of a workload: a replica count or a node selector.  *)
UserSpecs(w) == IF IsDaemonSet(w) THEN SUBSET Labels ELSE Counts

ASSUME ClusterAssumption ==
    /\ KindOf \in [Workloads -> Kinds]
    /\ NamespaceOf \in [Workloads -> Namespaces]
    /\ OwnedByDeployment \subseteq {w \in Workloads : KindOf[w] = "ReplicaSet"}
    /\ Autoscaled \subseteq Workloads \ DaemonSets
    /\ Legacy \subseteq Workloads
    /\ MinReplicas \in [Autoscaled -> Nat \ {0}]
    /\ MaxReplicas \in [Autoscaled -> Nat \ {0}]
    /\ \A w \in Autoscaled : MinReplicas[w] <= MaxReplicas[w]
    /\ HomeOf \in [HPs -> Namespaces]
    /\ \A s \in HPSpecs \cup CHPSpecs : s.cap \in Nat \cup {None} /\ s.sleep \in BOOLEAN
    /\ \A s \in HPSpecs : s.types \subseteq Kinds
    /\ \A s \in CHPSpecs : s.included \subseteq Kinds /\ s.excluded \subseteq Kinds
    /\ Counts \subseteq Nat
    /\ HibernateLabel \notin Labels
    /\ HPs \cap CHPs = {}
    /\ NightEdits \in BOOLEAN
    /\ MaxEdits \in Nat /\ MaxFaults \in Nat

(* None is the absence of a value, so it is none of the values.            *)
ASSUME NoneAssumption ==
    /\ None \notin Nat
    /\ \A S \in SUBSET (Labels \cup {HibernateLabel}) : S # None
    /\ None \notin Policies
    /\ None \notin HPSpecs \cup CHPSpecs
    /\ None \notin Workloads

-----------------------------------------------------------------------------
(* Patches *)

(* A node selector is a map and merges key by key, except that an empty one *)
(* is left out of the JSON and so deletes the whole field.                  *)
MergeSelector(live, base, mod) ==
    IF mod = base THEN live
    ELSE IF mod = {} THEN {}
    ELSE (live \ (base \ mod)) \cup (mod \ base)

MergeWorkload(w, live, base, mod) ==
    [spec |-> IF IsDaemonSet(w) THEN MergeSelector(live.spec, base.spec, mod.spec)
                                ELSE Merge(live.spec, base.spec, mod.spec),
     hib  |-> Merge(live.hib, base.hib, mod.hib),
     by   |-> Merge(live.by, base.by, mod.by),
     orig |-> Merge(live.orig, base.orig, mod.orig)]

MergeHPA(live, base, mod) ==
    [min      |-> Merge(live.min, base.min, mod.min),
     max      |-> Merge(live.max, base.max, mod.max),
     attached |-> Merge(live.attached, base.attached, mod.attached),
     omin     |-> Merge(live.omin, base.omin, mod.omin),
     omax     |-> Merge(live.omax, base.omax, mod.omax),
     otarget  |-> Merge(live.otarget, base.otarget, mod.otarget)]

PatchWorkload(w, base, mod) ==
    wl' = [wl EXCEPT ![w] = Write(@, MergeWorkload(w, Live(@), base, mod))]

PatchHPA(w, base, mod) ==
    hpa' = [hpa EXCEPT ![w] = Write(@, MergeHPA(Live(@), base, mod))]

(* The API server rejects an HPA whose bounds cross.                        *)
PatchAccepted(w, base, mod) ==
    LET v == MergeHPA(Live(hpa[w]), base, mod) IN v.min <= v.max

-----------------------------------------------------------------------------
(* Hibernation annotations of a workload.  A version has its spec (replica  *)
(* count or node selector), the marker hib, the owner by (the three         *)
(* hibernated-by annotations, which name one policy) and the stored         *)
(* original orig.                                                           *)

(* Mutant: a workload at or below the cap is set to it.                     *)
computeTargetReplicasAlways(cap, current) == cap # None

computeTargetReplicas(cap, current) == cap # None /\ current > cap

(* Mutants: the owner annotations are not looked at; a marker without them  *)
(* is taken for another policy's.                                           *)
ownedByAnyone(v, p) == TRUE
ownedByNamed(v, p) == v.by = p

ownedBy(v, p) == v.by = None \/ v.by = p

actionSet(s) == s.sleep \/ s.cap # None

parseOriginalReplicas(s) == IF s = None THEN 1 ELSE s

unmarshalNodeSelector(s) == IF s = None THEN {} ELSE s

(* What the callers write when they put a workload to sleep: the original,  *)
(* the markers of markHibernated and the lowered spec.                      *)
(* Mutant: the original is stored after the spec was overwritten.           *)
markHibernatedLate(w, v, p, cap) ==
    LET asleep == IF IsDaemonSet(w) THEN {HibernateLabel} ELSE cap
    IN  [spec |-> asleep, hib |-> TRUE, by |-> p, orig |-> asleep]

markHibernated(w, v, p, cap) ==
    [spec |-> IF IsDaemonSet(w) THEN {HibernateLabel} ELSE cap,
     hib  |-> TRUE,
     by   |-> p,
     orig |-> v.spec]

(* ... and when they wake it: the original goes back, the annotations go.   *)
clearHibernated(w, v) ==
    [spec |-> IF IsDaemonSet(w) THEN unmarshalNodeSelector(v.orig)
                                ELSE parseOriginalReplicas(v.orig),
     hib  |-> FALSE,
     by   |-> None,
     orig |-> None]

-----------------------------------------------------------------------------
(* helpers.go: suspending and restoring the HPA of a workload.  A version   *)
(* has its bounds, whether scaleTargetRef names the workload (attached) or  *)
(* the detached placeholder, the stored bounds omin and omax, and whether   *)
(* the original-hpa-target annotations are set (otarget).                   *)

findHPA(w) == w \in Autoscaled /\ Cached(hpa[w]).attached

findSuspendedHPA(w) == w \in Autoscaled /\ Cached(hpa[w]).otarget

(* Mutant: a suspended HPA is suspended again.                              *)
ToSuspendAgain(w) == findHPA(w)

(* suspendHPA patches the HPA it finds unless that one is suspended.        *)
ToSuspend(w) == findHPA(w) /\ Cached(hpa[w]).omin = None

suspendHPA(h, target) ==
    IF target = 0
    THEN [h EXCEPT !.omin = h.min, !.omax = h.max, !.otarget = TRUE, !.attached = FALSE]
    ELSE [h EXCEPT !.omin = h.min, !.omax = h.max, !.min = target, !.max = target]

(* Mutant: a detached HPA is not looked for.                                *)
ToRestoreAttached(w) == findHPA(w) /\ Cached(hpa[w]).omin # None

(* restoreHPA looks for a detached HPA when none targets the workload.      *)
ToRestore(w) == (findHPA(w) \/ findSuspendedHPA(w)) /\ Cached(hpa[w]).omin # None

(* Mutant: the target of a detached HPA is not put back.                    *)
restoreHPABounds(h) ==
    [min      |-> parseOriginalReplicas(h.omin),
     max      |-> parseOriginalReplicas(h.omax),
     attached |-> h.attached,
     omin     |-> None,
     omax     |-> None,
     otarget  |-> FALSE]

restoreHPA(h) ==
    [min      |-> parseOriginalReplicas(h.omin),
     max      |-> parseOriginalReplicas(h.omax),
     attached |-> h.attached \/ h.otarget,
     omin     |-> None,
     omax     |-> None,
     otarget  |-> FALSE]

-----------------------------------------------------------------------------
(* Initial state: objects as a user made them, policies that exist or are   *)
(* still to be created, caches in step.                                     *)

AwakeVersion(s) == [spec |-> s, hib |-> FALSE, by |-> None, orig |-> None]

LegacyVersion(w, s) ==
    [spec |-> IF IsDaemonSet(w) THEN {HibernateLabel} ELSE 0,
     hib  |-> TRUE, by |-> None, orig |-> s]

OriginalHPA(w) ==
    [min |-> MinReplicas[w], max |-> MaxReplicas[w], attached |-> TRUE,
     omin |-> None, omax |-> None, otarget |-> FALSE]

(* A legacy marker was set on a workload with at least one replica.         *)
ClusterInit ==
    /\ \E counts \in [Workloads \ DaemonSets -> Counts], selectors \in [DaemonSets -> SUBSET Labels] :
          LET first(w) == IF IsDaemonSet(w) THEN selectors[w] ELSE counts[w]
          IN  /\ \A w \in Legacy \ DaemonSets : counts[w] > 0
              /\ wl = [w \in Workloads |-> IF w \in Legacy THEN <<LegacyVersion(w, first(w))>>
                                                           ELSE <<AwakeVersion(first(w))>>]
              /\ wanted = [w \in Workloads |-> {first(w)}]
    /\ hpa = [w \in Autoscaled |-> <<OriginalHPA(w)>>]
    /\ policy \in [Policies -> HPSpecs \cup CHPSpecs \cup {None}]
    /\ \A p \in HPs : policy[p] \in HPSpecs \cup {None}
    /\ \A p \in CHPs : policy[p] \in CHPSpecs \cup {None}
    /\ inWindow \in [Policies -> BOOLEAN]
    /\ wlPolicy \in [Workloads -> CHPs \cup {None}]
    /\ nsPolicy \in [Namespaces -> CHPs \cup {None}]
    /\ status = [p \in Policies |-> {}]
    /\ edits = 0
    /\ faults = 0

-----------------------------------------------------------------------------
(* The environment *)

(* A watch event brings the cache one version forward.                      *)
WorkloadEvent(w) ==
    /\ Len(wl[w]) > 1
    /\ wl' = [wl EXCEPT ![w] = Tail(@)]
    /\ UNCHANGED <<hpa, wanted, policy, inWindow, wlPolicy, nsPolicy, status, edits, faults>>

HPAEvent(w) ==
    /\ Len(hpa[w]) > 1
    /\ hpa' = [hpa EXCEPT ![w] = Tail(@)]
    /\ UNCHANGED <<wl, wanted, policy, inWindow, wlPolicy, nsPolicy, status, edits, faults>>

(* Time passes a window boundary of policy p.                               *)
WindowBoundary(p) ==
    /\ policy[p] # None
    /\ inWindow' = [inWindow EXCEPT ![p] = ~@]
    /\ UNCHANGED <<wl, hpa, wanted, policy, wlPolicy, nsPolicy, status, edits, faults>>

Edit == edits < MaxEdits /\ edits' = edits + 1

(* A user, or the tool that applies a manifest, gives a workload another    *)
(* spec.  What is asked of a sleeping workload is not what it should wake   *)
(* up with: the stored original is.                                         *)
EditWorkload(w) ==
    /\ Edit
    /\ Live(wl[w]).hib => NightEdits
    /\ \E s \in UserSpecs(w) :
          /\ wl' = [wl EXCEPT ![w] = Write(@, [Live(@) EXCEPT !.spec = s])]
          /\ wanted' = [wanted EXCEPT ![w] = IF Live(wl[w]).hib THEN @ ELSE @ \cup {s}]
    /\ UNCHANGED <<hpa, policy, inWindow, wlPolicy, nsPolicy, status, faults>>

(* A user creates a policy, edits its spec or deletes it.                   *)
EditPolicy(p) ==
    /\ Edit
    /\ \E s \in (IF p \in HPs THEN HPSpecs ELSE CHPSpecs) \cup {None} :
          /\ policy' = [policy EXCEPT ![p] = s]
          /\ status' = IF s = None THEN [status EXCEPT ![p] = {}] ELSE status
    /\ UNCHANGED <<wl, hpa, wanted, inWindow, wlPolicy, nsPolicy, faults>>

(* A user sets or removes the opt-in annotation of a workload ...           *)
AnnotateWorkload(w) ==
    /\ Edit
    /\ \E p \in CHPs \cup {None} : wlPolicy' = [wlPolicy EXCEPT ![w] = p]
    /\ UNCHANGED <<wl, hpa, wanted, policy, inWindow, nsPolicy, status, faults>>

(* ... or of a namespace.                                                   *)
AnnotateNamespace(n) ==
    /\ Edit
    /\ \E p \in CHPs \cup {None} : nsPolicy' = [nsPolicy EXCEPT ![n] = p]
    /\ UNCHANGED <<wl, hpa, wanted, policy, inWindow, wlPolicy, status, faults>>

Environment ==
    \/ \E w \in Workloads : WorkloadEvent(w) \/ EditWorkload(w) \/ AnnotateWorkload(w)
    \/ \E w \in Autoscaled : HPAEvent(w)
    \/ \E p \in Policies : WindowBoundary(p) \/ EditPolicy(p)
    \/ \E n \in Namespaces : AnnotateNamespace(n)

(* A call fails; the callers' error paths say what happens then.            *)
Fault == faults < MaxFaults /\ faults' = faults + 1
=============================================================================
