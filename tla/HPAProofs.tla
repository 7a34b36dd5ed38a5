----------------------------- MODULE HPAProofs ------------------------------
(***************************************************************************)
(* The proofs of what holds while one worker handles the workloads and its *)
(* cache is in step, for any number of HibernatePolicies, caps, failed     *)
(* calls and crashes: an autoscaler never loses its bounds and its target, *)
(* and a sleeping workload belongs to the policy that put it to sleep.     *)
(* (With a second worker or a lagging cache neither holds: the hpa_stale   *)
(* and race_owner runs.)  The invariants have to say that what the worker  *)
(* is about to patch from still agrees with the live version.              *)
(***************************************************************************)
EXTENDS HibernationProofs

(* No ClusterHibernatePolicies, so one worker; and caches in step.          *)
OneWorker == CHPs = {} /\ MaxLag = 0

(* The worker patches from the live HPA, which needs the patch.             *)
HPAReady ==
    hp.pc = "hpaPatch" =>
        /\ hp.hbase = Live(hpa[hp.w])
        /\ hp.wake <=> hp.hbase.omin # None

HPAInv ==
    /\ chp.pc = "idle"
    /\ \A w \in Autoscaled : HPAKnowsOriginal(w, Live(hpa[w]))
    /\ HPAReady

(* suspendHPA stores the bounds of an HPA that has them.                    *)
LEMMA SuspendKnows ==
    ASSUME NEW w \in Autoscaled, NEW h \in HPAVersions, NEW target \in Nat,
           HPAKnowsOriginal(w, h), h.omin = None
    PROVE  HPAKnowsOriginal(w, suspendHPA(h, target))
  <1>1. MinReplicas[w] \in Nat /\ MinReplicas[w] # None
    BY ClusterAssumption, NoneAssumption
  <1>2. h.min = MinReplicas[w] /\ h.max = MaxReplicas[w] /\ h.attached /\ ~h.otarget
    BY DEF HPAKnowsOriginal
  <1>3. CASE target = 0
    BY <1>1, <1>2, <1>3 DEF HPAKnowsOriginal, suspendHPA, HPAVersions
  <1>4. CASE target # 0
    BY <1>1, <1>2, <1>4 DEF HPAKnowsOriginal, suspendHPA, HPAVersions
  <1> QED BY <1>3, <1>4

(* restoreHPA gives back what a suspended HPA has stored.                   *)
LEMMA RestoreKnows ==
    ASSUME NEW w \in Autoscaled, NEW h \in HPAVersions,
           HPAKnowsOriginal(w, h), h.omin # None
    PROVE  HPAKnowsOriginal(w, restoreHPA(h))
  <1>1. MaxReplicas[w] # None
    BY ClusterAssumption, NoneAssumption
  <1>2. h.omin = MinReplicas[w] /\ h.omax = MaxReplicas[w] /\ h.attached = ~h.otarget
    BY DEF HPAKnowsOriginal
  <1>3. h.attached \in BOOLEAN /\ h.otarget \in BOOLEAN
    BY DEF HPAVersions
  <1>4. h.attached \/ h.otarget
    BY <1>2, <1>3
  <1> QED BY <1>1, <1>2, <1>4 DEF HPAKnowsOriginal, restoreHPA, parseOriginalReplicas

(* A patch made from the live version gives the version that was wanted.    *)
LEMMA MergeOwnHPA ==
    ASSUME NEW h \in HPAVersions, NEW mod \in HPAVersions
    PROVE  MergeHPA(h, h, mod) = mod
  BY DEF MergeHPA, Merge, HPAVersions

(* Without a lag the cache holds the live version.                          *)
LEMMA InStep ==
    ASSUME OneWorker, Inductive, NEW w \in Autoscaled
    PROVE  /\ hpa[w] \in Seq(HPAVersions) /\ Len(hpa[w]) = 1
           /\ Cached(hpa[w]) = Live(hpa[w]) /\ Live(hpa[w]) \in HPAVersions
  <1>1. hpa[w] \in Seq(HPAVersions) /\ Len(hpa[w]) \in 1..(MaxLag + 1)
    BY DEF Inductive, ClusterInv, ClusterTypeOK
  <1>2. Len(hpa[w]) = 1
    BY <1>1 DEF OneWorker
  <1> QED BY <1>1, <1>2 DEF Cached, Live

(* Steps that patch no HPA and leave the worker away from such a patch.     *)
LEMMA HPANotTouched ==
    ASSUME HPAInv, UNCHANGED <<hpa, chp>>, hp'.pc # "hpaPatch" \/ UNCHANGED hp
    PROVE  HPAInv'
  BY DEF HPAInv, HPAReady, HPAKnowsOriginal

(* The patch of an HPA, seen by its outcome.                                *)
LEMMA HPAPatched ==
    ASSUME OneWorker, Inductive, HPAInv, hp.pc = "hpaPatch",
           PatchHPA(hp.w, hp.hbase, HPDesiredHPA)
    PROVE  \A w \in Autoscaled : HPAKnowsOriginal(w, Live(hpa'[w]))
  <1> DEFINE h == Live(hpa[hp.w])
  <1>1. /\ hp.w \in Autoscaled /\ hp.wake \in BOOLEAN /\ hp.spec \in HPSpecs /\ hp.w \in Workloads
        /\ ReadyToPatch(hp.w, hp.snap[hp.w], "hpaPatch", hp.wake, hp.spec)
    BY DEF Inductive, HPInv, HPTypeOK, HPStates
  <1>2. /\ hp.hbase = h /\ (hp.wake <=> h.omin # None)
        /\ HPAKnowsOriginal(hp.w, h) /\ h \in HPAVersions
    BY <1>1, InStep DEF HPAInv, HPAReady
  <1>3. HPDesiredHPA \in HPAVersions
    <2>1. hp.hbase \in HPAVersions /\ hp.spec \in HPSpecs \cup CHPSpecs
      BY <1>1, <1>2
    <2>2. (IF hp.wake THEN restoreHPA(hp.hbase) ELSE suspendHPA(hp.hbase, hp.spec.cap)) \in HPAVersions
      BY <1>1, <2>1, ReadyHPAPatch, Zenon
    <2> QED BY <2>2 DEF HPDesiredHPA
  <1>4. HPAKnowsOriginal(hp.w, HPDesiredHPA)
    <2>1. CASE hp.wake
      BY <1>1, <1>2, <2>1, RestoreKnows DEF HPDesiredHPA
    <2>2. CASE ~hp.wake
      <3>1. hp.spec.cap \in Nat
        BY <1>1, <2>2, ClusterAssumption DEF ReadyToPatch
      <3> QED BY <1>1, <1>2, <2>2, <3>1, SuspendKnows DEF HPDesiredHPA
    <2> QED BY <1>1, <2>1, <2>2
  <1>5. hpa' = [hpa EXCEPT ![hp.w] = Write(hpa[hp.w], HPDesiredHPA)]
    BY <1>2, <1>3, MergeOwnHPA DEF PatchHPA
  <1>6. hpa \in [Autoscaled -> Seq(HPAVersions)]
    BY DEF Inductive, ClusterInv, ClusterTypeOK
  <1>7. Live(Write(hpa[hp.w], HPDesiredHPA)) = HPDesiredHPA
    <2>1. hpa[hp.w] \in Seq(HPAVersions) /\ Len(hpa[hp.w]) = 1
      BY <1>1, InStep
    <2> QED BY <2>1, <1>3, LagAssumption DEF Live, Write
  <1> QED
    <2> TAKE w \in Autoscaled
    <2>1. CASE w = hp.w
      BY <1>1, <1>4, <1>5, <1>6, <1>7, <2>1
    <2>2. CASE w # hp.w
      BY <1>5, <1>6, <2>2 DEF HPAInv
    <2> QED BY <2>1, <2>2

-----------------------------------------------------------------------------

(* A patch of an HPA ends the worker's turn with it.                        *)
LEMMA HPLeavesHPA ==
    ASSUME Inductive
    PROVE  /\ HPHPADone.pc # "hpaPatch" /\ HPAbortType.pc # "hpaPatch"
           /\ \A w \in Workloads : HPContinue(w).pc # "hpaPatch" /\ HPCounted(w).pc # "hpaPatch"
           /\ \A w \in Workloads : HPAt("patch", w).pc # "hpaPatch" /\ HPAt("hpa", w).pc # "hpaPatch"
  <1>1. hp \in HPStates(hp.snap)
    BY DEF Inductive, HPInv, HPTypeOK
  <1> QED BY <1>1 DEF HPStates, HPHPADone, HPAbortType, HPContinue, HPCounted, HPAt

(* The HPA that is found is the live one.                                   *)
LEMMA HPFindHPAKnows ==
    ASSUME OneWorker, Inductive, HPAInv, HPFindHPA, UNCHANGED chp
    PROVE  HPAInv'
  <1> DEFINE found == IF hp.wake THEN ToRestore(hp.w) ELSE ToSuspend(hp.w)
  <1>1. UNCHANGED <<hpa, chp>>
    BY DEF HPFindHPA, clusterVars
  <1>2. CASE found /\ hp' = [hp EXCEPT !.pc = "hpaPatch", !.hbase = Cached(hpa[hp.w])]
    <2>1. hp.w \in Autoscaled /\ (hp.wake => Cached(hpa[hp.w]).omin # None)
          /\ (~hp.wake => Cached(hpa[hp.w]).omin = None)
      BY <1>2 DEF ToRestore, ToSuspend, findHPA, findSuspendedHPA
    <2>2. hp \in HPStates(hp.snap)
      BY DEF Inductive, HPInv, HPTypeOK
    <2>3. hp'.w = hp.w /\ hp'.wake = hp.wake /\ hp'.hbase = Cached(hpa[hp.w])
      BY <1>2, <2>2 DEF HPStates
    <2>4. hp'.hbase = Live(hpa'[hp'.w])
      BY <1>1, <2>1, <2>3, InStep
    <2>5. hp'.wake <=> hp'.hbase.omin # None
      BY <2>1, <2>3
    <2>6. HPAReady'
      BY <2>4, <2>5 DEF HPAReady
    <2> QED BY <1>1, <2>6 DEF HPAInv, HPAKnowsOriginal
  <1>3. CASE ~found /\ hp' = HPHPADone
    BY <1>1, <1>3, HPLeavesHPA, HPANotTouched
  <1> QED BY <1>2, <1>3 DEF HPFindHPA

(* A step that may patch the HPA.                                           *)
LEMMA HPPatchHPAKnows ==
    ASSUME OneWorker, Inductive, HPAInv, HPPatchHPA \/ HPPatchHPARejected \/ HPCallHPAFails,
           UNCHANGED chp
    PROVE  HPAInv'
  <1>1. hp'.pc # "hpaPatch"
    BY HPLeavesHPA DEF HPPatchHPA, HPPatchHPARejected, HPCallHPAFails
  <1>2. CASE UNCHANGED hpa
    BY <1>1, <1>2, HPANotTouched
  <1>3. CASE hp.pc = "hpaPatch" /\ PatchHPA(hp.w, hp.hbase, HPDesiredHPA)
    BY <1>1, <1>3, HPAPatched DEF HPAInv, HPAReady, HPAKnowsOriginal
  <1> QED BY <1>2, <1>3 DEF HPPatchHPA, HPPatchHPARejected, HPCallHPAFails, clusterVars

(* Every other step of the worker leaves the HPAs alone.                    *)
LEMMA HPOtherSteps ==
    ASSUME Inductive, HPNext, ~HPFindHPA, ~HPPatchHPA, ~HPPatchHPARejected, ~HPCallHPAFails
    PROVE  UNCHANGED hpa /\ hp'.pc # "hpaPatch"
  <1>0. hp \in HPStates(hp.snap)
    BY DEF Inductive, HPInv, HPTypeOK
  <1>1. ASSUME NEW p \in HPs, HPReconcile(p) PROVE UNCHANGED hpa /\ hp'.pc # "hpaPatch"
    BY <1>1 DEF HPReconcile, HPIdle, clusterVars
  <1>2. ASSUME NEW k \in Kinds, hibernateWorkloadType(k) \/ wakeWorkloadType(k) \/ HPListFails(k)
        PROVE  UNCHANGED hpa /\ hp'.pc # "hpaPatch"
    BY <1>0, <1>2 DEF hibernateWorkloadType, wakeWorkloadType, HPListFails, HPList, clusterVars, HPStates
  <1>3. ASSUME NEW w \in Workloads, HPWorkload(w) PROVE UNCHANGED hpa /\ hp'.pc # "hpaPatch"
    BY <1>3, HPLeavesHPA
       DEF HPWorkload, hibernateDeployments, hibernateStatefulSets, hibernateReplicaSets,
           hibernateDaemonSets, wakeDeployments, wakeStatefulSets, wakeReplicaSets, wakeDaemonSets,
           HPHibernateReplicas, HPWakeReplicas, clusterVars
  <1>4. CASE HPPatch \/ HPPatchFails
    <2>1. hp.w \in Workloads
      BY <1>4 DEF Inductive, HPInv, HPTypeOK, HPStates, HPPatch, HPPatchFails
    <2> QED BY <1>4, <2>1, HPLeavesHPA DEF HPPatch, HPPatchFails
  <1>5. CASE HPTypeDone
    BY <1>0, <1>5 DEF HPTypeDone, HPStates, clusterVars
  <1>6. CASE HPPatchStatus \/ HPPatchStatusFails
    <2>1. UNCHANGED hpa /\ hp' = HPIdle
      BY <1>6, Zenon DEF HPPatchStatus, HPPatchStatusFails
    <2> QED BY <2>1 DEF HPIdle
  <1> QED BY <1>1, <1>2, <1>3, <1>4, <1>5, <1>6 DEF HPNext, HPProgress, HPFailure

(* The other actors: there is no second worker, the cache is in step, and a *)
(* crash forgets the patch that was to be made.                             *)
LEMMA OthersKnow ==
    ASSUME OneWorker, Inductive, HPAInv,
           (CHPNext /\ UNCHANGED hp) \/ (Environment /\ UNCHANGED <<hp, chp>>) \/ Crash
    PROVE  HPAInv'
  <1>1. CASE CHPNext
    <2>1. chp.pc = "idle" /\ CHPs = {}
      BY DEF HPAInv, OneWorker
    <2>2. ~CHPProgress
      BY <2>1 DEF CHPProgress, collectNamespaces, collectWorkloads, hibernateWorkload, wakeWorkload,
                  CHPPatch, CHPFindHPA, CHPPatchHPA, CHPPatchHPARejected, CHPPatchStatus
    <2>3. ~CHPFailure
      BY <2>1 DEF CHPFailure, CHPGetFails, collectFails, CHPPatchFails, CHPCallHPAFails,
                  CHPPatchStatusFails
    <2> QED BY <1>1, <2>1, <2>2, <2>3 DEF CHPNext
  <1>2. CASE Environment /\ UNCHANGED <<hp, chp>>
    <2>1. ASSUME NEW w \in Autoscaled PROVE ~HPAEvent(w)
      <3>1. Len(hpa[w]) = 1
        BY InStep
      <3> QED BY <3>1 DEF HPAEvent
    <2>2. UNCHANGED hpa
      BY <1>2, <2>1 DEF Environment, WorkloadEvent, EditWorkload, WindowBoundary, EditPolicy,
                        AnnotateWorkload, AnnotateNamespace
    <2> QED BY <1>2, <2>2, HPANotTouched
  <1>3. CASE Crash
    <2>1. hp'.pc = "idle" /\ chp'.pc = "idle"
      BY <1>3 DEF Crash, HPIdle, CHPIdle
    <2>2. ASSUME NEW w \in Autoscaled PROVE HPAKnowsOriginal(w, Live(hpa'[w]))
      <3>1. hpa'[w] = <<Live(hpa[w])>>
        BY <1>3 DEF Crash
      <3>2. Live(hpa'[w]) = Live(hpa[w])
        BY <3>1 DEF Live
      <3> QED BY <3>2 DEF HPAInv
    <2> QED BY <2>1, <2>2 DEF HPAInv, HPAReady, HPAKnowsOriginal
  <1> QED BY <1>1, <1>2, <1>3

LEMMA NextKnows ==
    ASSUME OneWorker, Inductive, HPAInv, [Next]_vars
    PROVE  HPAInv'
  <1>1. CASE HPNext /\ UNCHANGED chp
    BY <1>1, HPFindHPAKnows, HPPatchHPAKnows, HPOtherSteps, HPANotTouched
  <1>2. CASE UNCHANGED vars
    BY <1>2, HPANotTouched DEF vars
  <1> QED BY <1>1, <1>2, OthersKnow DEF Next

(* An HPA is created with the bounds and the target it should keep.         *)
LEMMA InitKnows ==
    ASSUME Init
    PROVE  HPAInv
  <1>1. chp.pc = "idle" /\ hp.pc = "idle"
    BY DEF Init, HPIdle, CHPIdle
  <1>2. ASSUME NEW w \in Autoscaled PROVE HPAKnowsOriginal(w, Live(hpa[w]))
    <2>1. hpa[w] = <<OriginalHPA(w)>>
      BY DEF Init, ClusterInit
    <2>2. Live(hpa[w]) = OriginalHPA(w)
      BY <2>1 DEF Live
    <2> QED BY <2>2 DEF OriginalHPA, HPAKnowsOriginal
  <1> QED BY <1>1, <1>2 DEF HPAInv, HPAReady

(* While one worker handles the HPAs and its cache is in step, no HPA loses *)
(* the bounds and the target it was made with, whatever policies overlap,   *)
(* calls fail and the manager crashes (suspendHPA, restoreHPA).             *)
THEOREM HPAOriginalsAlwaysKept == OneWorker => (Spec => []HPAOriginalsKept)
  <1> SUFFICES ASSUME OneWorker PROVE Spec => []HPAOriginalsKept
    OBVIOUS
  <1>1. Init => HPAInv
    BY InitKnows
  <1>2. Inductive /\ HPAInv /\ [Next]_vars => HPAInv'
    BY NextKnows
  <1>3. Inductive /\ HPAInv => HPAOriginalsKept
    <2> SUFFICES ASSUME Inductive, HPAInv, NEW w \in Autoscaled, NEW i \in 1..Len(hpa[w])
                 PROVE  HPAKnowsOriginal(w, hpa[w][i])
      BY DEF HPAOriginalsKept
    <2>1. Len(hpa[w]) = 1
      BY InStep
    <2>2. hpa[w][i] = Live(hpa[w])
      BY <2>1 DEF Live
    <2> QED BY <2>2 DEF HPAInv
  <1> QED BY <1>1, <1>2, <1>3, AlwaysInductive, PTL DEF Spec

-----------------------------------------------------------------------------
(* Ownership, under the same premises.  What the worker read of a workload  *)
(* may be old in its spec, which users change, but the marker and the owner *)
(* are still the live ones, until the worker itself has put it to sleep.    *)

SameMark(u, v) == u.hib = v.hib /\ u.by = v.by

(* The worker has put w to sleep and is at its HPA.                         *)
PutToSleep(w) == hp.pc \in {"hpa", "hpaPatch"} /\ ~hp.wake /\ w = hp.w

OwnerInv ==
    /\ chp.pc = "idle"
    /\ \A w \in hp.todo : PutToSleep(w) \/ SameMark(hp.snap[w], Live(wl[w]))
    /\ hp.pc \in {"patch", "hpa", "hpaPatch"} /\ hp.wake => ownedBy(hp.snap[hp.w], hp.policy)

(* No step but a patch of the worker's changes a marker.                    *)
MarksKept == \A w \in Workloads : SameMark(Live(wl'[w]), Live(wl[w]))

(* Without a lag the cache holds the live version of a workload.            *)
LEMMA WorkloadInStep ==
    ASSUME OneWorker, Inductive, NEW w \in Workloads
    PROVE  /\ wl[w] \in Seq(SoundVersions(w)) /\ Len(wl[w]) = 1
           /\ Cached(wl[w]) = Live(wl[w]) /\ Live(wl[w]) \in VersionsOf(w)
  <1>1. wl[w] \in Seq(SoundVersions(w)) /\ Len(wl[w]) \in 1..(MaxLag + 1)
    BY DEF Inductive, ClusterInv, ClusterTypeOK
  <1>2. Len(wl[w]) = 1
    BY <1>1 DEF OneWorker
  <1>3. Live(wl[w]) \in SoundVersions(w)
    BY LogEnds DEF Inductive
  <1> QED BY <1>1, <1>2, <1>3 DEF Cached, Live, SoundVersions

(* What was written is what the API server holds.                           *)
LEMMA WrittenIsLive ==
    ASSUME NEW S, NEW log \in Seq(S), Len(log) \in 1..(MaxLag + 1), NEW v \in S
    PROVE  Live(Write(log, v)) = v
  BY LagAssumption DEF Live, Write

LEMMA MarksFrame ==
    ASSUME OwnerInv, HPInv, UNCHANGED <<hp, chp>>, MarksKept
    PROVE  OwnerInv'
  <1>1. hp.todo \subseteq Workloads
    BY DEF HPInv, HPTypeOK, HPStates
  <1> QED BY <1>1 DEF OwnerInv, PutToSleep, SameMark, MarksKept, ownedBy

(* The worker turns to one of the listed workloads.                         *)
LEMMA OwnerTurnsTo ==
    ASSUME OwnerInv, HPInv, hp.pc = "items", NEW w \in hp.todo, NEW pc \in {"patch", "hpa"},
           hp' = HPAt(pc, w), UNCHANGED <<wl, chp>>,
           hp.wake => ownedBy(hp.snap[w], hp.policy)
    PROVE  OwnerInv'
  <1>1. hp \in HPStates(hp.snap)
    BY DEF HPInv, HPTypeOK
  <1>2. /\ hp'.pc = pc /\ hp'.w = w /\ hp'.wake = hp.wake /\ hp'.todo = hp.todo
        /\ hp'.snap = hp.snap /\ hp'.policy = hp.policy
    BY <1>1 DEF HPStates, HPAt
  <1>3. \A u \in hp.todo : SameMark(hp.snap[u], Live(wl[u]))
    BY DEF OwnerInv, PutToSleep
  <1> QED BY <1>2, <1>3 DEF OwnerInv, SameMark, ownedBy

(* The worker leaves the workload at hand, or the type.                     *)
LEMMA OwnerMovesOn ==
    ASSUME OwnerInv, HPInv, NEW w \in Workloads,
           hp' \in {HPContinue(w), HPCounted(w), HPAbortType}, UNCHANGED chp,
           hp.pc \in {"patch", "hpa", "hpaPatch"} => w = hp.w,
           \A u \in Workloads \ {w} : SameMark(Live(wl'[u]), Live(wl[u]))
    PROVE  OwnerInv'
  <1>1. hp \in HPStates(hp.snap) /\ DOMAIN hp.snap = Workloads /\ hp.todo \subseteq Workloads
    BY DEF HPInv, HPTypeOK, HPStates
  <1>2. hp'.pc \in {"items", "types"} /\ hp'.todo \subseteq hp.todo \ {w}
    BY <1>1 DEF HPStates, HPContinue, HPCounted, HPAbortType
  <1>3. \A u \in hp'.todo : hp'.snap[u] = hp.snap[u]
    <2>1. CASE hp' \in {HPContinue(w), HPCounted(w)}
      <3>1. hp'.snap = [hp.snap EXCEPT ![w] = None]
        BY <1>1, <2>1 DEF HPStates, HPContinue, HPCounted
      <3> QED BY <1>1, <1>2, <3>1
    <2>2. CASE hp' = HPAbortType
      <3>1. hp'.todo = {}
        BY <1>1, <2>2 DEF HPStates, HPAbortType
      <3> QED BY <3>1
    <2> QED BY <2>1, <2>2
  <1>4. \A u \in hp.todo \ {w} : SameMark(hp.snap[u], Live(wl[u]))
    BY DEF OwnerInv, PutToSleep
  <1>5. \A u \in hp'.todo : SameMark(hp'.snap[u], Live(wl'[u]))
    BY <1>1, <1>2, <1>3, <1>4 DEF SameMark
  <1> QED BY <1>2, <1>5 DEF OwnerInv, PutToSleep, SameMark, ownedBy

(* The patch of the workload at hand, from what was listed: a wake-up       *)
(* clears a marker of the acting policy or of none, and what is put to      *)
(* sleep was awake.                                                         *)
LEMMA OwnPatch ==
    ASSUME OneWorker, Inductive, OwnerInv, hp.pc = "patch",
           PatchWorkload(hp.w, hp.snap[hp.w], HPDesired)
    PROVE  /\ hp.w \in Workloads
           /\ Live(wl[hp.w]).hib =>
                 ~Live(wl'[hp.w]).hib /\ Live(wl[hp.w]).by \in {None, hp.policy}
           /\ \A u \in Workloads \ {hp.w} : Live(wl'[u]) = Live(wl[u])
  <1> DEFINE w == hp.w
             base == hp.snap[w]
             new == MergeWorkload(w, Live(wl[w]), base, HPDesired)
  <1>1. /\ w \in hp.todo /\ w \in Workloads /\ hp.wake \in BOOLEAN /\ hp.policy \in HPs /\ hp.spec \in HPSpecs
        /\ ReadyToPatch(w, base, "patch", hp.wake, hp.spec)
    BY DEF Inductive, HPInv, HPTypeOK, HPStates
  <1>2. SameMark(base, Live(wl[w])) /\ (hp.wake => ownedBy(base, hp.policy))
    BY <1>1 DEF OwnerInv, PutToSleep
  <1>3. new \in SoundVersions(w)
    <2>1. hp.policy \in Policies /\ hp.spec \in HPSpecs \cup CHPSpecs /\ ClusterInv
      BY <1>1 DEF Policies, Inductive
    <2>2. MergeWorkload(w, Live(wl[w]), base,
                        IF hp.wake THEN clearHibernated(w, base)
                        ELSE markHibernated(w, base, hp.policy, hp.spec.cap)) \in SoundVersions(w)
      BY <1>1, <2>1, ReadyPatch, Zenon
    <2> QED BY <2>2 DEF HPDesired
  <1>4. wl = [u \in Workloads |-> wl[u]]
    BY DEF Inductive, ClusterInv, ClusterTypeOK
  <1>5. wl' = [wl EXCEPT ![w] = Write(wl[w], new)]
    BY DEF PatchWorkload
  <1>6. Live(wl'[w]) = new
    <2>1. wl[w] \in Seq(SoundVersions(w)) /\ Len(wl[w]) \in 1..(MaxLag + 1)
      BY <1>1 DEF Inductive, ClusterInv, ClusterTypeOK
    <2>2. Live(Write(wl[w], new)) = new
      BY <1>3, <2>1, WrittenIsLive
    <2>3. wl'[w] = Write(wl[w], new)
      BY <1>1, <1>4, <1>5
    <2> QED BY <2>2, <2>3
  <1>7. \A u \in Workloads \ {w} : Live(wl'[u]) = Live(wl[u])
    BY <1>4, <1>5
  <1>8. ASSUME Live(wl[w]).hib PROVE ~Live(wl'[w]).hib /\ Live(wl[w]).by \in {None, hp.policy}
    <2>1. base.hib /\ hp.wake
      BY <1>1, <1>2, <1>8 DEF SameMark, ReadyToPatch
    <2>2. ~new.hib
      BY <2>1 DEF MergeWorkload, Merge, HPDesired, clearHibernated
    <2>3. Live(wl[w]).by \in {None, hp.policy}
      BY <1>2, <2>1 DEF SameMark, ownedBy
    <2> QED BY <1>6, <2>2, <2>3
  <1> QED BY <1>1, <1>7, <1>8

LEMMA OwnerPatchKeeps ==
    ASSUME OneWorker, Inductive, OwnerInv, HPPatch \/ HPPatchFails, UNCHANGED chp
    PROVE  OwnerInv'
  <1>1. hp \in HPStates(hp.snap) /\ hp.w \in hp.todo /\ hp.w \in Workloads /\ hp.pc = "patch" /\ HPInv
    BY DEF Inductive, HPInv, HPTypeOK, HPStates, HPPatch, HPPatchFails
  <1>2. \A u \in Workloads \ {hp.w} : Live(wl'[u]) = Live(wl[u])
    BY OwnPatch DEF HPPatch, HPPatchFails
  <1>3. CASE hp' \in {HPContinue(hp.w), HPCounted(hp.w), HPAbortType}
    BY <1>1, <1>2, <1>3, OwnerMovesOn DEF SameMark
  <1>4. CASE ~hp.wake /\ hp' = HPAt("hpa", hp.w)
    <2>1. /\ hp'.pc = "hpa" /\ hp'.w = hp.w /\ hp'.wake = hp.wake /\ hp'.todo = hp.todo
          /\ hp'.snap = hp.snap
      BY <1>1, <1>4 DEF HPStates, HPAt
    <2>2. \A u \in hp.todo \ {hp.w} : SameMark(hp.snap[u], Live(wl[u])) /\ Live(wl'[u]) = Live(wl[u])
      BY <1>1, <1>2 DEF OwnerInv, PutToSleep, HPStates
    <2> QED BY <1>4, <2>1, <2>2 DEF OwnerInv, PutToSleep, SameMark
  <1> QED BY <1>3, <1>4 DEF HPPatch, HPPatchFails

(* One listed workload: who wakes it owns it.                               *)
LEMMA OwnerWorkloadKeeps ==
    ASSUME Inductive, OwnerInv, NEW w \in Workloads, HPWorkload(w), UNCHANGED chp
    PROVE  OwnerInv'
  <1>1. /\ hp.pc = "items" /\ w \in hp.todo /\ UNCHANGED wl
        /\ \/ hp' \in {HPContinue(w), HPCounted(w)}
           \/ /\ hp' = HPAt("patch", w) \/ hp' = HPAt("hpa", w)
              /\ hp.wake => ownedBy(hp.snap[w], hp.policy)
    BY DEF HPWorkload, hibernateDeployments, hibernateStatefulSets, hibernateReplicaSets,
           hibernateDaemonSets, wakeDeployments, wakeStatefulSets, wakeReplicaSets, wakeDaemonSets,
           HPHibernateReplicas, HPWakeReplicas, HPWakes, HPHibernateItem, HPWakeItem, clusterVars
  <1>2. HPInv
    BY DEF Inductive
  <1>3. CASE hp' \in {HPContinue(w), HPCounted(w)}
    BY <1>1, <1>2, <1>3, OwnerMovesOn DEF SameMark
  <1>4. CASE hp' = HPAt("patch", w) \/ hp' = HPAt("hpa", w)
    <2>1. CASE hp.wake => ownedBy(hp.snap[w], hp.policy)
      BY <1>1, <1>2, <1>4, <2>1, OwnerTurnsTo
    <2>2. CASE ~(hp.wake => ownedBy(hp.snap[w], hp.policy))
      BY <1>1, <1>3, <2>2
    <2> QED BY <2>1, <2>2
  <1> QED BY <1>1, <1>3, <1>4

(* The HPA of the workload at hand.                                         *)
LEMMA OwnerHPAKeeps ==
    ASSUME Inductive, OwnerInv, UNCHANGED chp,
           HPFindHPA \/ HPPatchHPA \/ HPPatchHPARejected \/ HPCallHPAFails
    PROVE  OwnerInv'
  <1>1. /\ hp \in HPStates(hp.snap) /\ hp.w \in hp.todo /\ hp.w \in Workloads /\ HPInv
        /\ hp.pc \in {"hpa", "hpaPatch"} /\ UNCHANGED wl
    BY DEF Inductive, HPInv, HPTypeOK, HPStates, HPFindHPA, HPPatchHPA, HPPatchHPARejected,
           HPCallHPAFails, clusterVars
  <1>2. CASE hp' \in {HPCounted(hp.w), HPAbortType}
    BY <1>1, <1>2, OwnerMovesOn DEF SameMark
  <1>3. CASE hp' = [hp EXCEPT !.pc = "hpaPatch", !.hbase = Cached(hpa[hp.w])]
    <2>1. /\ hp'.pc = "hpaPatch" /\ hp'.w = hp.w /\ hp'.wake = hp.wake /\ hp'.todo = hp.todo
          /\ hp'.snap = hp.snap /\ hp'.policy = hp.policy
      BY <1>1, <1>3 DEF HPStates
    <2> QED BY <1>1, <2>1 DEF OwnerInv, PutToSleep, SameMark, ownedBy
  <1>4. CASE hp.wake /\ hp' = [HPAt("patch", hp.w) EXCEPT !.hbase = None]
    <2>1. /\ hp'.pc = "patch" /\ hp'.w = hp.w /\ hp'.wake = hp.wake /\ hp'.todo = hp.todo
          /\ hp'.snap = hp.snap /\ hp'.policy = hp.policy
      BY <1>1, <1>4 DEF HPStates, HPAt
    <2> QED BY <1>1, <1>4, <2>1 DEF OwnerInv, PutToSleep, SameMark, ownedBy
  <1>5. CASE hp' = HPHPADone
    BY <1>2, <1>4, <1>5 DEF HPHPADone
  <1> QED BY <1>2, <1>3, <1>5 DEF HPFindHPA, HPPatchHPA, HPPatchHPARejected, HPCallHPAFails

(* Everything else the worker does.  A listing is taken from the cache,     *)
(* which holds the live version.                                            *)
LEMMA OwnerOtherSteps ==
    ASSUME OneWorker, Inductive, OwnerInv, UNCHANGED chp,
           \/ \E p \in HPs : HPReconcile(p)
           \/ \E k \in Kinds : hibernateWorkloadType(k) \/ wakeWorkloadType(k) \/ HPListFails(k)
           \/ HPTypeDone \/ HPPatchStatus \/ HPPatchStatusFails
    PROVE  OwnerInv'
  <1>0. hp \in HPStates(hp.snap) /\ hp.todo \subseteq Workloads
    BY DEF Inductive, HPInv, HPTypeOK, HPStates
  <1>1. ASSUME hp'.pc \notin {"patch", "hpa", "hpaPatch"}, hp'.todo = {} PROVE OwnerInv'
    BY <1>1 DEF OwnerInv
  <1>2. ASSUME UNCHANGED wl, hp.pc \in {"types", "items"}, hp'.pc \in {"types", "items"},
               hp'.todo = hp.todo, hp'.snap = hp.snap
        PROVE  OwnerInv'
    BY <1>2 DEF OwnerInv, PutToSleep, SameMark
  <1>3. ASSUME NEW p \in HPs, HPReconcile(p) PROVE OwnerInv'
    <2>1. hp'.pc = "types" /\ hp'.todo = {}
      BY <1>3 DEF HPReconcile, HPIdle
    <2> QED BY <1>1, <2>1
  <1>4. ASSUME NEW k \in Kinds, hp.pc = "types", HPList(k) PROVE OwnerInv'
    <2>1. /\ hp'.pc = "items" /\ hp'.todo = HPListing(k) /\ UNCHANGED wl
          /\ hp'.snap = [w \in Workloads |-> IF w \in HPListing(k) THEN Cached(wl[w]) ELSE None]
      BY <1>0, <1>4 DEF HPList, HPStates, clusterVars
    <2>2. \A w \in hp'.todo : w \in Workloads /\ hp'.snap[w] = Cached(wl[w])
      BY <2>1 DEF HPListing
    <2>3. \A w \in hp'.todo : SameMark(hp'.snap[w], Live(wl'[w]))
      BY <2>1, <2>2, WorkloadInStep DEF SameMark
    <2> QED BY <2>1, <2>3 DEF OwnerInv, PutToSleep, SameMark
  <1>5. ASSUME NEW k \in Kinds, hp.pc = "types", hp' = [hp EXCEPT !.types = @ \ {k}], UNCHANGED wl
        PROVE  OwnerInv'
    <2>1. hp'.pc = hp.pc /\ hp'.todo = hp.todo /\ hp'.snap = hp.snap
      BY <1>0, <1>5 DEF HPStates
    <2> QED BY <1>2, <1>5, <2>1
  <1>6. CASE \E k \in Kinds : hibernateWorkloadType(k) \/ wakeWorkloadType(k) \/ HPListFails(k)
    BY <1>4, <1>5, <1>6 DEF hibernateWorkloadType, wakeWorkloadType, HPListFails, clusterVars
  <1>7. CASE HPTypeDone
    <2>1. hp.pc = "items" /\ hp'.pc = "types" /\ hp'.todo = hp.todo /\ hp'.snap = hp.snap /\ UNCHANGED wl
      BY <1>0, <1>7 DEF HPTypeDone, HPStates, clusterVars
    <2> QED BY <1>2, <2>1
  <1>8. CASE HPPatchStatus \/ HPPatchStatusFails
    <2>1. hp' = HPIdle
      BY <1>8, Zenon DEF HPPatchStatus, HPPatchStatusFails
    <2>2. hp'.pc = "idle" /\ hp'.todo = {}
      BY <2>1 DEF HPIdle
    <2> QED BY <1>1, <2>2
  <1> QED BY <1>3, <1>6, <1>7, <1>8

(* Users, the clock and watch events leave the markers alone.               *)
LEMMA EnvironmentKeepsMarks ==
    ASSUME OneWorker, Inductive, Environment
    PROVE  MarksKept
  <1>1. ASSUME NEW w \in Workloads PROVE ~WorkloadEvent(w)
    <2>1. Len(wl[w]) = 1
      BY WorkloadInStep
    <2> QED BY <2>1 DEF WorkloadEvent
  <1>2. CASE UNCHANGED wl
    BY <1>2 DEF MarksKept, SameMark
  <1>3. ASSUME NEW w \in Workloads, EditWorkload(w) PROVE MarksKept
    <2>1. PICK s \in UserSpecs(w) : wl' = [wl EXCEPT ![w] = Write(wl[w], [Live(wl[w]) EXCEPT !.spec = s])]
      BY <1>3 DEF EditWorkload
    <2> DEFINE new == [Live(wl[w]) EXCEPT !.spec = s]
    <2>2. wl[w] \in Seq(SoundVersions(w)) /\ Len(wl[w]) = 1 /\ Live(wl[w]) \in VersionsOf(w)
      BY WorkloadInStep
    <2>3. SameMark(new, Live(wl[w]))
      BY <2>2 DEF SameMark, VersionsOf
    <2>4. Live(Write(wl[w], new)) = new
      BY <2>2, LagAssumption DEF Write, Live, OneWorker
    <2>5. wl = [u \in Workloads |-> wl[u]]
      BY DEF Inductive, ClusterInv, ClusterTypeOK
    <2>6. wl'[w] = Write(wl[w], new) /\ \A u \in Workloads \ {w} : wl'[u] = wl[u]
      BY <2>1, <2>5
    <2> QED BY <2>3, <2>4, <2>6 DEF MarksKept, SameMark
  <1>4. UNCHANGED wl \/ \E w \in Workloads : EditWorkload(w)
    BY <1>1 DEF Environment, HPAEvent, WindowBoundary, EditPolicy, AnnotateWorkload, AnnotateNamespace
  <1> QED BY <1>2, <1>3, <1>4

LEMMA CrashKeepsMarks ==
    ASSUME Crash
    PROVE  MarksKept
  BY DEF Crash, Live, MarksKept, SameMark

(* There is no second worker.                                               *)
LEMMA NoSecondWorker ==
    ASSUME OneWorker, OwnerInv
    PROVE  ~CHPNext
  <1>1. chp.pc = "idle" /\ CHPs = {}
    BY DEF OwnerInv, OneWorker
  <1>2. ~CHPProgress
    BY <1>1 DEF CHPProgress, collectNamespaces, collectWorkloads, hibernateWorkload, wakeWorkload,
                CHPPatch, CHPFindHPA, CHPPatchHPA, CHPPatchHPARejected, CHPPatchStatus
  <1>3. ~CHPFailure
    BY <1>1 DEF CHPFailure, CHPGetFails, collectFails, CHPPatchFails, CHPCallHPAFails,
                CHPPatchStatusFails
  <1> QED BY <1>1, <1>2, <1>3 DEF CHPNext

LEMMA OwnerNext ==
    ASSUME OneWorker, Inductive, OwnerInv, [Next]_vars
    PROVE  OwnerInv'
  <1>0. HPInv
    BY DEF Inductive
  <1>1. CASE HPNext /\ UNCHANGED chp
    BY <1>1, OwnerPatchKeeps, OwnerWorkloadKeeps, OwnerHPAKeeps, OwnerOtherSteps
       DEF HPNext, HPProgress, HPFailure
  <1>2. CASE Environment /\ UNCHANGED <<hp, chp>>
    BY <1>0, <1>2, EnvironmentKeepsMarks, MarksFrame
  <1>3. CASE Crash
    BY <1>3 DEF Crash, HPIdle, CHPIdle, OwnerInv
  <1>4. CASE UNCHANGED vars
    BY <1>0, <1>4, MarksFrame DEF vars, MarksKept, SameMark
  <1> QED BY <1>1, <1>2, <1>3, <1>4, NoSecondWorker DEF Next

(* Each step keeps every marker, or is a patch of the worker's.             *)
LEMMA OnlyPatchesMark ==
    ASSUME OneWorker, Inductive, OwnerInv, [Next]_vars
    PROVE  \/ MarksKept
           \/ hp.pc = "patch" /\ hp' # hp /\ PatchWorkload(hp.w, hp.snap[hp.w], HPDesired)
  <1>1. CASE HPNext
    <2>1. CASE UNCHANGED wl
      BY <2>1 DEF MarksKept, SameMark
    <2>2. CASE HPPatch \/ HPPatchFails
      <3>1. hp.w \in Workloads /\ hp.pc = "patch"
        BY <2>2 DEF Inductive, HPInv, HPTypeOK, HPStates, HPPatch, HPPatchFails
      <3>2. hp'.pc # "patch"
        BY <2>2, <3>1 DEF Inductive, HPInv, HPTypeOK, HPStates, HPPatch, HPPatchFails, HPContinue,
                          HPCounted, HPAt, HPAbortType
      <3> QED BY <2>1, <2>2, <3>1, <3>2 DEF HPPatch, HPPatchFails
    <2>3. UNCHANGED wl \/ HPPatch \/ HPPatchFails
      <3>1. ASSUME NEW w \in Workloads, HPWorkload(w) PROVE UNCHANGED wl
        BY <3>1 DEF HPWorkload, hibernateDeployments, hibernateStatefulSets, hibernateReplicaSets,
                    hibernateDaemonSets, wakeDeployments, wakeStatefulSets, wakeReplicaSets,
                    wakeDaemonSets, HPHibernateReplicas, HPWakeReplicas, clusterVars
      <3>2. ASSUME NEW k \in Kinds, hibernateWorkloadType(k) \/ wakeWorkloadType(k) \/ HPListFails(k)
            PROVE  UNCHANGED wl
        BY <3>2 DEF hibernateWorkloadType, wakeWorkloadType, HPListFails, HPList, clusterVars
      <3>3. ASSUME NEW p \in HPs, HPReconcile(p) PROVE UNCHANGED wl
        BY <3>3 DEF HPReconcile, clusterVars
      <3>4. ASSUME HPFindHPA \/ HPPatchHPA \/ HPPatchHPARejected \/ HPCallHPAFails \/ HPTypeDone
            PROVE  UNCHANGED wl
        BY <3>4 DEF HPFindHPA, HPPatchHPA, HPPatchHPARejected, HPCallHPAFails, HPTypeDone, clusterVars
      <3>5. ASSUME HPPatchStatus \/ HPPatchStatusFails PROVE UNCHANGED wl
        BY <3>5, Zenon DEF HPPatchStatus, HPPatchStatusFails
      <3> QED BY <1>1, <3>1, <3>2, <3>3, <3>4, <3>5 DEF HPNext, HPProgress, HPFailure
    <2> QED BY <2>1, <2>2, <2>3
  <1>2. CASE UNCHANGED vars
    BY <1>2 DEF vars, MarksKept, SameMark
  <1> QED BY <1>1, <1>2, EnvironmentKeepsMarks, CrashKeepsMarks, NoSecondWorker DEF Next

LEMMA OwnerInit ==
    ASSUME Init
    PROVE  OwnerInv
  BY DEF Init, HPIdle, CHPIdle, OwnerInv

(* While one worker handles the workloads and its cache is in step, only    *)
(* the policy that put a workload to sleep wakes it, or any policy where    *)
(* the marker names none (ownedBy in the wake functions), for any number of *)
(* overlapping policies, edits, failed calls and crashes.                   *)
THEOREM OnlyOwnersWake == OneWorker => (Spec => OnlyOwnerWakes)
  <1> SUFFICES ASSUME OneWorker PROVE Spec => OnlyOwnerWakes
    OBVIOUS
  <1> DEFINE Wakes == \A w \in Workloads :
                          Live(wl[w]).hib /\ ~Live(wl'[w]).hib => Live(wl[w]).by \in {None, Acting}
  <1>1. Init => OwnerInv
    BY OwnerInit
  <1>2. Inductive /\ OwnerInv /\ [Next]_vars => OwnerInv'
    BY OwnerNext
  <1>3. Inductive /\ OwnerInv /\ [Next]_vars => [Wakes]_vars
    <2> SUFFICES ASSUME Inductive, OwnerInv, [Next]_vars PROVE Wakes
      OBVIOUS
    <2>1. CASE MarksKept
      BY <2>1 DEF MarksKept, SameMark
    <2>2. CASE hp.pc = "patch" /\ hp' # hp /\ PatchWorkload(hp.w, hp.snap[hp.w], HPDesired)
      BY <2>2, OwnPatch DEF Acting
    <2> QED BY <2>1, <2>2, OnlyPatchesMark
  <1> QED BY <1>1, <1>2, <1>3, AlwaysInductive, PTL DEF Spec, OnlyOwnerWakes

(* Under the same premises no policy takes over a workload that another one *)
(* put to sleep (the hibernate functions leave a marked workload alone).    *)
THEOREM OwnersAlwaysKept == OneWorker => (Spec => OwnerKept)
  <1> SUFFICES ASSUME OneWorker PROVE Spec => OwnerKept
    OBVIOUS
  <1> DEFINE Keeps == \A w \in Workloads :
                          Live(wl[w]).hib /\ Live(wl'[w]).hib => Live(wl'[w]).by = Live(wl[w]).by
  <1>1. Init => OwnerInv
    BY OwnerInit
  <1>2. Inductive /\ OwnerInv /\ [Next]_vars => OwnerInv'
    BY OwnerNext
  <1>3. Inductive /\ OwnerInv /\ [Next]_vars => [Keeps]_vars
    <2> SUFFICES ASSUME Inductive, OwnerInv, [Next]_vars PROVE Keeps
      OBVIOUS
    <2>1. CASE MarksKept
      BY <2>1 DEF MarksKept, SameMark
    <2>2. CASE hp.pc = "patch" /\ hp' # hp /\ PatchWorkload(hp.w, hp.snap[hp.w], HPDesired)
      BY <2>2, OwnPatch
    <2> QED BY <2>1, <2>2, OnlyPatchesMark
  <1> QED BY <1>1, <1>2, <1>3, AlwaysInductive, PTL DEF Spec, OwnerKept
=============================================================================
