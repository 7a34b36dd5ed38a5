------------------------- MODULE HibernationProofs -------------------------
(***************************************************************************)
(* Proofs that the hibernation controllers never lose the original of a    *)
(* workload, for any number of workloads, policies and namespaces, any     *)
(* caps, any staleness of the caches and any number of faults.             *)
(***************************************************************************)
EXTENDS Hibernation, TLAPS

-----------------------------------------------------------------------------
(* Sequences of versions *)

(* A log of members of S is a log of members of any larger set (wl, hpa).   *)
LEMMA SeqMonotone ==
    ASSUME NEW S, NEW T, S \subseteq T, NEW s \in Seq(S)
    PROVE  s \in Seq(T)
  OBVIOUS

(* The cached and the live version of a log are members of S.               *)
LEMMA Ends ==
    ASSUME NEW S, NEW log \in Seq(S), Len(log) >= 1
    PROVE  Cached(log) \in S /\ Live(log) \in S
  BY DEF Cached, Live

(* A patch keeps a log a log of members of S, at most MaxLag behind.        *)
LEMMA WriteKeeps ==
    ASSUME NEW S, NEW log \in Seq(S), Len(log) \in 1..(MaxLag + 1), NEW v \in S
    PROVE  Write(log, v) \in Seq(S) /\ Len(Write(log, v)) \in 1..(MaxLag + 1)
  BY LagAssumption DEF Write

(* A watch event keeps a log that is more than one version long.            *)
LEMMA TailKeeps ==
    ASSUME NEW S, NEW log \in Seq(S), Len(log) \in 1..(MaxLag + 1), Len(log) > 1
    PROVE  Tail(log) \in Seq(S) /\ Len(Tail(log)) \in 1..(MaxLag + 1)
  BY LagAssumption

(* So does the fresh list after a restart.                                  *)
LEMMA FreshKeeps ==
    ASSUME NEW S, NEW v \in S
    PROVE  <<v>> \in Seq(S) /\ Len(<<v>>) \in 1..(MaxLag + 1)
  BY LagAssumption

-----------------------------------------------------------------------------
(* Patches of a workload *)

(* A hibernation patch made from a sound awake version gives a sound version*)
(* whatever the API server holds by then (markHibernated, MergeFrom).       *)
LEMMA HibernatePatch ==
    ASSUME NEW w \in Workloads, NEW base \in SoundVersions(w), NEW live \in VersionsOf(w),
           NEW p \in Policies, NEW cap,
           ~base.hib,
           ~IsDaemonSet(w) => cap \in Nat /\ base.spec > cap
    PROVE  MergeWorkload(w, live, base, markHibernated(w, base, p, cap)) \in SoundVersions(w)
  <1> DEFINE mod == markHibernated(w, base, p, cap)
             new == MergeWorkload(w, live, base, mod)
  <1>1. /\ base \in VersionsOf(w)
        /\ NightEdits \/ Sound(w, base)
    BY DEF SoundVersions
  <1>2. CASE IsDaemonSet(w)
    <2>1. new.spec = MergeSelector(live.spec, base.spec, {HibernateLabel})
      BY <1>2 DEF MergeWorkload, markHibernated
    <2>2. new.spec \in Selectors
      BY <2>1, <1>1, <1>2 DEF MergeSelector, Selectors, VersionsOf, SpecsOf
    <2>3. new.hib = TRUE /\ new.by \in Policies \cup {None}
      BY <1>1 DEF MergeWorkload, markHibernated, Merge, VersionsOf
    <2>4. new.orig = Merge(live.orig, base.orig, base.spec)
      BY DEF MergeWorkload, markHibernated
    <2>5. new \in VersionsOf(w)
      BY <2>2, <2>3, <2>4, <1>1, <1>2 DEF VersionsOf, SpecsOf, Merge, MergeWorkload
    <2>6. ASSUME ~NightEdits PROVE Sound(w, new)
      <3>1. base.orig = None /\ base.spec \subseteq Labels
        BY <1>1, <2>6, <1>2 DEF Sound, KnowsOriginal
      <3>2. new.orig = base.spec
        BY <2>4, <3>1, NoneAssumption DEF Merge
      <3>3. HibernateLabel \in new.spec
        BY <2>1, <3>1, ClusterAssumption DEF MergeSelector
      <3>4. new.orig # None
        BY <3>2, <3>1, NoneAssumption
      <3> QED BY <3>1, <3>2, <3>3, <3>4, <2>3, <1>2 DEF Sound, KnowsOriginal
    <2> QED BY <2>5, <2>6 DEF SoundVersions
  <1>3. CASE ~IsDaemonSet(w)
    <2>1. /\ base.spec \in Nat /\ cap \in Nat /\ base.spec > cap
          /\ live.orig \in Nat \cup {None} /\ base.orig \in Nat \cup {None}
      BY <1>1, <1>3 DEF VersionsOf, SpecsOf
    <2>2. new.spec = cap /\ new.hib = TRUE /\ new.by \in Policies \cup {None}
      <3>1. new.spec = Merge(live.spec, base.spec, cap)
        BY <1>3 DEF MergeWorkload, markHibernated
      <3>2. new.hib = TRUE /\ new.by \in Policies \cup {None}
        BY <1>1 DEF MergeWorkload, markHibernated, Merge, VersionsOf
      <3> QED BY <3>1, <3>2, <2>1 DEF Merge
    <2>3. new.orig = Merge(live.orig, base.orig, base.spec)
      BY DEF MergeWorkload, markHibernated
    <2>4. new \in VersionsOf(w)
      BY <2>1, <2>2, <2>3, <1>3 DEF VersionsOf, SpecsOf, Merge, MergeWorkload
    <2>5. ASSUME ~NightEdits PROVE Sound(w, new)
      <3>1. base.orig = None /\ base.spec \in wanted[w]
        BY <1>1, <2>5, <1>3 DEF Sound, KnowsOriginal
      <3>2. new.orig = base.spec
        BY <2>3, <2>1, <3>1, NoneAssumption DEF Merge
      <3> QED BY <3>1, <3>2, <2>1, <2>2, <1>3, NoneAssumption DEF Sound, KnowsOriginal
    <2> QED BY <2>4, <2>5 DEF SoundVersions
  <1> QED BY <1>2, <1>3

(* A wake-up patch made from a sound sleeping version gives a sound awake   *)
(* version whatever the API server holds by then (clearHibernated).         *)
LEMMA WakePatch ==
    ASSUME NEW w \in Workloads, NEW base \in SoundVersions(w), NEW live \in VersionsOf(w),
           base.hib
    PROVE  MergeWorkload(w, live, base, clearHibernated(w, base)) \in SoundVersions(w)
  <1> DEFINE mod == clearHibernated(w, base)
             new == MergeWorkload(w, live, base, mod)
  <1>1. /\ base \in VersionsOf(w)
        /\ NightEdits \/ Sound(w, base)
    BY DEF SoundVersions
  <1>2. /\ new.hib = FALSE /\ new.by \in Policies \cup {None}
        /\ new.orig = Merge(live.orig, base.orig, None)
    BY <1>1 DEF MergeWorkload, clearHibernated, Merge, VersionsOf
  <1>3. ~NightEdits => new.orig = None
    BY <1>1, <1>2 DEF Merge, Sound
  <1>4. CASE IsDaemonSet(w)
    <2>1. new.spec = MergeSelector(live.spec, base.spec, unmarshalNodeSelector(base.orig))
      BY <1>4 DEF MergeWorkload, clearHibernated
    <2>2. unmarshalNodeSelector(base.orig) \in Selectors
      BY <1>1, <1>4 DEF unmarshalNodeSelector, VersionsOf, SpecsOf, Selectors
    <2>3. new.spec \in Selectors
      BY <2>1, <2>2, <1>1, <1>4 DEF MergeSelector, Selectors, VersionsOf, SpecsOf
    <2>4. new \in VersionsOf(w)
      BY <2>3, <1>1, <1>2, <1>4 DEF VersionsOf, SpecsOf, Merge, MergeWorkload
    <2>5. ASSUME ~NightEdits PROVE Sound(w, new)
      <3>1. base.orig # None /\ base.orig \subseteq Labels /\ HibernateLabel \in base.spec
        BY <1>1, <2>5, <1>4 DEF Sound, KnowsOriginal
      <3>2. unmarshalNodeSelector(base.orig) = base.orig
        BY <3>1 DEF unmarshalNodeSelector
      <3>3. live.spec \subseteq Labels \cup {HibernateLabel}
        BY <1>4 DEF VersionsOf, SpecsOf, Selectors
      <3>4. new.spec \subseteq Labels
        BY <2>1, <3>1, <3>2, <3>3, ClusterAssumption DEF MergeSelector
      <3> QED BY <3>4, <1>2, <1>3, <2>5, <1>4 DEF Sound, KnowsOriginal
    <2> QED BY <2>4, <2>5 DEF SoundVersions
  <1>5. CASE ~IsDaemonSet(w)
    <2>1. new.spec = Merge(live.spec, base.spec, parseOriginalReplicas(base.orig))
      BY <1>5 DEF MergeWorkload, clearHibernated
    <2>2. /\ base.spec \in Nat /\ live.spec \in Nat
          /\ live.orig \in Nat \cup {None} /\ base.orig \in Nat \cup {None}
      BY <1>1, <1>5 DEF VersionsOf, SpecsOf
    <2>3. new \in VersionsOf(w)
      <3>1. new.spec \in Nat
        BY <2>1, <2>2 DEF Merge, parseOriginalReplicas
      <3>2. new.orig \in Nat \cup {None}
        BY <2>2, <1>2 DEF Merge
      <3> QED BY <3>1, <3>2, <1>2, <1>5 DEF VersionsOf, SpecsOf, MergeWorkload
    <2>4. ASSUME ~NightEdits PROVE Sound(w, new)
      <3>1. base.orig # None /\ base.orig \in wanted[w] /\ base.spec < base.orig
        BY <1>1, <2>4, <1>5 DEF Sound, KnowsOriginal
      <3>2. new.spec = base.orig
        BY <2>1, <2>2, <3>1 DEF Merge, parseOriginalReplicas
      <3> QED BY <3>1, <3>2, <1>2, <1>3, <2>4, <1>5 DEF Sound, KnowsOriginal
    <2> QED BY <2>3, <2>4 DEF SoundVersions
  <1> QED BY <1>4, <1>5

-----------------------------------------------------------------------------
(* Patches of an HPA *)

(* suspendHPA and restoreHPA give an HPA version, whatever they merge with. *)
LEMMA HPAPatchTyped ==
    ASSUME NEW live \in HPAVersions, NEW base \in HPAVersions, NEW mod \in HPAVersions
    PROVE  MergeHPA(live, base, mod) \in HPAVersions
  BY DEF MergeHPA, Merge, HPAVersions

(* What suspendHPA asks for is a version of an HPA ...                      *)
LEMMA SuspendTyped ==
    ASSUME NEW h \in HPAVersions, NEW target \in Nat
    PROVE  suspendHPA(h, target) \in HPAVersions
  BY DEF suspendHPA, HPAVersions

(* ... and so is what restoreHPA asks for.                                  *)
LEMMA RestoreTyped ==
    ASSUME NEW h \in HPAVersions
    PROVE  restoreHPA(h) \in HPAVersions
  <1>1. /\ parseOriginalReplicas(h.omin) \in Nat
        /\ parseOriginalReplicas(h.omax) \in Nat
    BY DEF parseOriginalReplicas, HPAVersions
  <1>2. (h.attached \/ h.otarget) \in BOOLEAN
    OBVIOUS
  <1> QED BY <1>1, <1>2 DEF restoreHPA, HPAVersions

-----------------------------------------------------------------------------
(* What each variable that a part of the invariant reads may do to it *)

(* A step that touches no API object keeps the invariant of the cluster.    *)
LEMMA ClusterFrame ==
    ASSUME ClusterInv, UNCHANGED clusterVars
    PROVE  ClusterInv'
  BY DEF ClusterInv, ClusterTypeOK, clusterVars, SoundVersions, Sound, KnowsOriginal

(* Nor does a call that failed before it reached the API server.            *)
LEMMA FaultFrame ==
    ASSUME ClusterInv, Fault,
           UNCHANGED <<wl, hpa, wanted, policy, inWindow, wlPolicy, nsPolicy, status, edits>>
    PROVE  ClusterInv'
  <1>1. faults' \in 0..MaxFaults
    BY ClusterAssumption DEF ClusterInv, ClusterTypeOK, Fault
  <1> QED BY <1>1 DEF ClusterInv, ClusterTypeOK, SoundVersions, Sound, KnowsOriginal

(* A worker that does not move keeps its invariant while wanted stands.     *)
LEMMA HPFrame ==
    ASSUME HPInv, UNCHANGED <<hp, wanted>>
    PROVE  HPInv'
  BY DEF HPInv, HPTypeOK, ReadyToPatch, SoundVersions, Sound, KnowsOriginal

(* So does the other one.                                                   *)
LEMMA CHPFrame ==
    ASSUME CHPInv, UNCHANGED <<chp, wanted>>
    PROVE  CHPInv'
  BY DEF CHPInv, CHPTypeOK, ReadyToPatch, SoundVersions, Sound, KnowsOriginal

(* What the cache and the API server hold is sound.                         *)
LEMMA LogEnds ==
    ASSUME ClusterInv
    PROVE  /\ \A w \in Workloads : Cached(wl[w]) \in SoundVersions(w) /\ Live(wl[w]) \in SoundVersions(w)
           /\ \A w \in Autoscaled : Cached(hpa[w]) \in HPAVersions /\ Live(hpa[w]) \in HPAVersions
  <1>1. \A w \in Workloads : wl[w] \in Seq(SoundVersions(w)) /\ Len(wl[w]) \in 1..(MaxLag + 1)
    BY DEF ClusterInv, ClusterTypeOK
  <1>2. \A w \in Autoscaled : hpa[w] \in Seq(HPAVersions) /\ Len(hpa[w]) \in 1..(MaxLag + 1)
    BY DEF ClusterInv, ClusterTypeOK
  <1>3. \A n \in 1..(MaxLag + 1) : n >= 1
    BY ClusterAssumption
  <1> QED BY <1>1, <1>2, <1>3, Ends

(* A workload patch with a sound outcome keeps the invariant of the cluster.*)
LEMMA WorkloadPatchKeeps ==
    ASSUME ClusterInv, NEW w \in Workloads, NEW base, NEW mod,
           MergeWorkload(w, Live(wl[w]), base, mod) \in SoundVersions(w),
           PatchWorkload(w, base, mod),
           UNCHANGED <<hpa, wanted, policy, inWindow, wlPolicy, nsPolicy, status, edits>>,
           faults' \in 0..MaxFaults
    PROVE  ClusterInv'
  <1> DEFINE new == MergeWorkload(w, Live(wl[w]), base, mod)
  <1>1. wl = [x \in Workloads |-> wl[x]]
    BY DEF ClusterInv, ClusterTypeOK
  <1>2. wl' = [wl EXCEPT ![w] = Write(wl[w], new)]
    BY DEF PatchWorkload
  <1>3. \A x \in Workloads : wl[x] \in Seq(SoundVersions(x)) /\ Len(wl[x]) \in 1..(MaxLag + 1)
    BY DEF ClusterInv, ClusterTypeOK
  <1>4. Write(wl[w], new) \in Seq(SoundVersions(w)) /\ Len(Write(wl[w], new)) \in 1..(MaxLag + 1)
    BY <1>3, WriteKeeps
  <1>5. \A x \in Workloads : wl'[x] \in Seq(SoundVersions(x)) /\ Len(wl'[x]) \in 1..(MaxLag + 1)
    BY <1>1, <1>2, <1>3, <1>4
  <1>6. wl' = [x \in Workloads |-> wl'[x]]
    BY <1>1, <1>2
  <1>7. \A x \in Workloads : wl'[x] \in Seq(VersionsOf(x))
    BY <1>5, SeqMonotone DEF SoundVersions
  <1>8. \A x \in Workloads : SoundVersions(x)' = SoundVersions(x)
    BY DEF SoundVersions, Sound, KnowsOriginal
  <1> QED BY <1>5, <1>6, <1>7, <1>8 DEF ClusterInv, ClusterTypeOK

(* A patch of an HPA keeps it too.                                          *)
LEMMA HPAPatchKeeps ==
    ASSUME ClusterInv, NEW w \in Autoscaled, NEW base \in HPAVersions, NEW mod \in HPAVersions,
           PatchHPA(w, base, mod),
           UNCHANGED <<wl, wanted, policy, inWindow, wlPolicy, nsPolicy, status, edits>>,
           faults' \in 0..MaxFaults
    PROVE  ClusterInv'
  <1> DEFINE new == MergeHPA(Live(hpa[w]), base, mod)
  <1>1. hpa \in [Autoscaled -> Seq(HPAVersions)] /\ \A x \in Autoscaled : Len(hpa[x]) \in 1..(MaxLag + 1)
    BY DEF ClusterInv, ClusterTypeOK
  <1>2. Live(hpa[w]) \in HPAVersions
    BY <1>1, Ends
  <1>3. new \in HPAVersions
    BY <1>2, HPAPatchTyped
  <1>4. Write(hpa[w], new) \in Seq(HPAVersions) /\ Len(Write(hpa[w], new)) \in 1..(MaxLag + 1)
    BY <1>1, <1>3, WriteKeeps
  <1>5. hpa' = [hpa EXCEPT ![w] = Write(hpa[w], new)]
    BY DEF PatchHPA
  <1>6. hpa' \in [Autoscaled -> Seq(HPAVersions)] /\ \A x \in Autoscaled : Len(hpa'[x]) \in 1..(MaxLag + 1)
    BY <1>1, <1>4, <1>5
  <1> QED BY <1>6 DEF ClusterInv, ClusterTypeOK, SoundVersions, Sound, KnowsOriginal

(* What a controller asks of an HPA is a version of an HPA.                 *)
LEMMA ReadyHPAPatch ==
    ASSUME NEW w \in Workloads, NEW base, NEW h \in HPAVersions, NEW wake \in BOOLEAN,
           NEW spec \in HPSpecs \cup CHPSpecs, ReadyToPatch(w, base, "hpaPatch", wake, spec)
    PROVE  (IF wake THEN restoreHPA(h) ELSE suspendHPA(h, spec.cap)) \in HPAVersions
  <1>1. ~wake => spec.cap \in Nat
    BY ClusterAssumption DEF ReadyToPatch
  <1> QED BY <1>1, SuspendTyped, RestoreTyped

(* The patch that a controller is ready for has a sound outcome.            *)
LEMMA ReadyPatch ==
    ASSUME ClusterInv, NEW w \in Workloads, NEW base, NEW wake \in BOOLEAN, NEW p \in Policies,
           NEW spec \in HPSpecs \cup CHPSpecs, ReadyToPatch(w, base, "patch", wake, spec)
    PROVE  MergeWorkload(w, Live(wl[w]), base,
                         IF wake THEN clearHibernated(w, base)
                                 ELSE markHibernated(w, base, p, spec.cap)) \in SoundVersions(w)
  <1>1. Live(wl[w]) \in VersionsOf(w)
    BY LogEnds DEF SoundVersions
  <1>2. base \in SoundVersions(w)
    BY DEF ReadyToPatch
  <1>3. CASE wake
    BY <1>1, <1>2, <1>3, WakePatch DEF ReadyToPatch
  <1>4. CASE ~wake
    <2>1. ~base.hib /\ (~IsDaemonSet(w) => spec.cap \in Nat /\ base.spec > spec.cap)
      BY <1>4, ClusterAssumption DEF ReadyToPatch
    <2> QED BY <1>1, <1>2, <1>4, <2>1, HibernatePatch
  <1> QED BY <1>3, <1>4

-----------------------------------------------------------------------------
(* The HibernatePolicy controller *)

(* Which versions are sound depends on nothing but what users asked for.    *)
LEMMA SoundFrame ==
    ASSUME wanted' = wanted, NEW w
    PROVE  SoundVersions(w)' = SoundVersions(w) /\ SoundVersions(w) \subseteq VersionsOf(w)
  BY DEF SoundVersions, Sound, KnowsOriginal

(* HPInv holds while the worker has no workload at hand and its listing is  *)
(* sound.                                                                   *)
LEMMA HPAtRest ==
    ASSUME wanted' = wanted, hp' \in HPStates(hp'.snap),
           hp'.pc \notin {"patch", "hpa", "hpaPatch"},
           hp'.pc # "idle" => hp'.policy # None /\ hp'.spec # None,
           DOMAIN hp'.snap = Workloads,
           \A x \in hp'.todo : hp'.snap[x] \in SoundVersions(x)
    PROVE  HPInv'
  <1>1. \A x \in hp'.todo : hp'.snap[x] \in SoundVersions(x)' /\ hp'.snap[x] \in VersionsOf(x)
    BY SoundFrame
  <1>2. HPTypeOK'
    BY <1>1 DEF HPTypeOK, HPStates
  <1> QED BY <1>1, <1>2 DEF HPInv

(* Leaving a workload, counting it or giving up the type keeps HPInv.       *)
LEMMA HPMovesOn ==
    ASSUME HPInv, hp.pc # "idle", NEW w \in Workloads, wanted' = wanted,
           hp' \in {HPContinue(w), HPCounted(w), HPAbortType}
    PROVE  HPInv'
  <1>1. /\ hp \in HPStates(hp.snap) /\ hp.policy # None /\ hp.spec # None
        /\ DOMAIN hp.snap = Workloads
        /\ \A x \in hp.todo : hp.snap[x] \in SoundVersions(x)
    BY DEF HPInv, HPTypeOK
  <1>2. hp' \in HPStates(hp'.snap)
    <2>1. CASE hp' = HPContinue(w)
      BY <1>1, <2>1 DEF HPContinue, HPStates
    <2>2. CASE hp' = HPCounted(w)
      BY <1>1, <2>2 DEF HPCounted, HPStates
    <2>3. CASE hp' = HPAbortType
      BY <1>1, <2>3 DEF HPAbortType, HPStates
    <2> QED BY <2>1, <2>2, <2>3
  <1>3. hp'.pc \in {"items", "types"} /\ hp'.policy = hp.policy /\ hp'.spec = hp.spec
    BY <1>1 DEF HPContinue, HPCounted, HPAbortType, HPStates
  <1>4. CASE hp' \in {HPContinue(w), HPCounted(w)}
    <2>1. hp'.todo = hp.todo \ {w} /\ hp'.snap = [hp.snap EXCEPT ![w] = None]
      BY <1>1, <1>4 DEF HPContinue, HPCounted, HPStates
    <2>2. DOMAIN hp'.snap = Workloads /\ \A x \in hp'.todo : hp'.snap[x] \in SoundVersions(x)
      BY <2>1, <1>1
    <2> QED BY <1>1, <1>2, <1>3, <2>2, HPAtRest
  <1>5. CASE hp' = HPAbortType
    <2>1. hp'.todo = {} /\ DOMAIN hp'.snap = Workloads
      BY <1>1, <1>5 DEF HPAbortType, HPStates
    <2> QED BY <1>1, <1>2, <1>3, <2>1, HPAtRest
  <1> QED BY <1>4, <1>5

(* So does turning to the patch or the HPA of a workload it is ready for.   *)
LEMMA HPTurnsTo ==
    ASSUME HPInv, hp.pc # "idle", NEW w \in hp.todo, wanted' = wanted,
           NEW pc \in {"patch", "hpa"}, hp' = HPAt(pc, w),
           ReadyToPatch(w, hp.snap[w], pc, hp.wake, hp.spec)
    PROVE  HPInv'
  <1>1. /\ hp \in HPStates(hp.snap) /\ hp.policy # None /\ hp.spec # None
        /\ DOMAIN hp.snap = Workloads /\ w \in Workloads
        /\ \A x \in hp.todo : hp.snap[x] \in SoundVersions(x)
    BY DEF HPInv, HPTypeOK, HPStates
  <1>2. /\ hp'.pc = pc /\ hp'.policy = hp.policy /\ hp'.spec = hp.spec /\ hp'.wake = hp.wake
        /\ hp'.todo = hp.todo /\ hp'.snap = hp.snap /\ hp'.w = w
    BY <1>1 DEF HPAt, HPStates
  <1>3. hp' \in HPStates(hp.snap)
    BY <1>1 DEF HPAt, HPStates
  <1>4. \A x : SoundVersions(x)' = SoundVersions(x) /\ SoundVersions(x) \subseteq VersionsOf(x)
    BY SoundFrame
  <1>5. HPTypeOK'
    BY <1>1, <1>2, <1>3, <1>4 DEF HPTypeOK
  <1>6. ReadyToPatch(w, hp.snap[w], pc, hp.wake, hp.spec)'
    BY <1>2, <1>4 DEF ReadyToPatch
  <1> QED BY <1>1, <1>2, <1>4, <1>5, <1>6 DEF HPInv

(* The start of a reconcile keeps HPInv: a policy that exists has a spec.   *)
LEMMA HPReconcileKeeps ==
    ASSUME Inductive, NEW p \in HPs, HPReconcile(p)
    PROVE  HPInv'
  <1>1. policy[p] \in HPSpecs /\ policy[p].types \subseteq Kinds /\ inWindow[p] \in BOOLEAN
    BY ClusterAssumption DEF Inductive, ClusterInv, ClusterTypeOK, HPReconcile, Policies
  <1>2. /\ hp'.pc = "types" /\ hp'.policy = p /\ hp'.spec = policy[p] /\ hp'.todo = {}
        /\ DOMAIN hp'.snap = Workloads
    BY DEF HPReconcile, HPIdle
  <1>3. hp' \in HPStates(hp'.snap)
    BY <1>1 DEF HPReconcile, HPIdle, HPStates
  <1>4. p # None /\ policy[p] # None /\ wanted' = wanted
    BY <1>1, NoneAssumption DEF Policies, HPReconcile, clusterVars
  <1> QED BY <1>2, <1>3, <1>4, HPAtRest

(* So does a listing: the cache holds sound versions only.                  *)
LEMMA HPListKeeps ==
    ASSUME Inductive, hp.pc = "types", NEW k \in Kinds, HPList(k)
    PROVE  HPInv'
  <1>1. \A w \in Workloads : Cached(wl[w]) \in SoundVersions(w)
    BY LogEnds DEF Inductive
  <1>2. HPListing(k) \subseteq Workloads /\ wanted' = wanted
    BY DEF HPListing, HPList, clusterVars
  <1>3. /\ hp \in HPStates(hp.snap) /\ hp.policy # None /\ hp.spec # None
    BY DEF Inductive, HPInv, HPTypeOK
  <1>4. /\ hp'.pc = "items" /\ hp'.policy = hp.policy /\ hp'.spec = hp.spec
        /\ hp'.todo = HPListing(k)
        /\ hp'.snap = [w \in Workloads |-> IF w \in HPListing(k) THEN Cached(wl[w]) ELSE None]
    BY <1>3 DEF HPList, HPStates
  <1>5. hp' \in HPStates(hp'.snap)
    BY <1>2, <1>3 DEF HPList, HPStates
  <1>6. DOMAIN hp'.snap = Workloads /\ \A w \in hp'.todo : hp'.snap[w] \in SoundVersions(w)
    BY <1>1, <1>2, <1>4
  <1> QED BY <1>2, <1>3, <1>4, <1>5, <1>6, HPAtRest

(* So do the switch on the action and a listing that fails.                 *)
LEMMA HPTypeKeeps ==
    ASSUME Inductive, NEW k \in Kinds,
           hibernateWorkloadType(k) \/ wakeWorkloadType(k) \/ HPListFails(k)
    PROVE  HPInv'
  <1>1. ASSUME hp.pc = "types", hp' = [hp EXCEPT !.types = @ \ {k}], wanted' = wanted
        PROVE  HPInv'
    BY <1>1 DEF Inductive, HPInv, HPTypeOK, HPStates, SoundVersions, Sound, KnowsOriginal
  <1> QED BY <1>1, HPListKeeps DEF hibernateWorkloadType, wakeWorkloadType, HPListFails, clusterVars

(* What is decided on a listed workload keeps HPInv: a patch or the HPA     *)
(* comes next only for a version that it was decided on.                    *)
LEMMA HPWorkloadKeeps ==
    ASSUME Inductive, NEW w \in Workloads, HPWorkload(w)
    PROVE  HPInv'
  <1> USE DEF Inductive
  <1> DEFINE v == hp.snap[w]
  <1>1. hp.pc = "items" /\ w \in hp.todo /\ wanted' = wanted
    BY DEF HPWorkload, HPHibernateItem, HPWakeItem, hibernateDeployments, hibernateStatefulSets,
           hibernateReplicaSets, hibernateDaemonSets, wakeDeployments, wakeStatefulSets,
           wakeReplicaSets, wakeDaemonSets, HPHibernateReplicas, HPWakeReplicas, clusterVars
  <1>2. v \in SoundVersions(w) /\ hp.pc # "idle"
    BY <1>1 DEF HPInv
  <1>3. CASE hp' \in {HPContinue(w), HPCounted(w)}
    BY <1>1, <1>2, <1>3, HPMovesOn
  <1>4. CASE hibernateDeployments(w) \/ hibernateStatefulSets(w) \/ hibernateReplicaSets(w)
    <2>1. ~hp.wake /\ ~IsDaemonSet(w) /\ HPHibernateReplicas(w)
      BY <1>4 DEF hibernateDeployments, hibernateStatefulSets, hibernateReplicaSets,
                  HPHibernateItem, IsDaemonSet
    <2>2. CASE v.hib /\ hp.spec.cap # None /\ hp' = HPAt("hpa", w)
      <3>1. ReadyToPatch(w, v, "hpa", hp.wake, hp.spec)
        BY <2>1, <2>2, <1>2 DEF ReadyToPatch
      <3> QED BY <3>1, <2>2, <1>1, <1>2, HPTurnsTo
    <2>3. CASE ~v.hib /\ computeTargetReplicas(hp.spec.cap, v.spec) /\ hp' = HPAt("patch", w)
      <3>1. ReadyToPatch(w, v, "patch", hp.wake, hp.spec)
        BY <2>1, <2>3, <1>2 DEF ReadyToPatch, computeTargetReplicas
      <3> QED BY <3>1, <2>3, <1>1, <1>2, HPTurnsTo
    <2> QED BY <2>1, <2>2, <2>3, <1>3 DEF HPHibernateReplicas
  <1>5. CASE hibernateDaemonSets(w)
    <2>1. CASE ~v.hib /\ hp' = HPAt("patch", w)
      <3>1. ReadyToPatch(w, v, "patch", hp.wake, hp.spec)
        BY <1>5, <2>1, <1>2 DEF ReadyToPatch, hibernateDaemonSets, HPHibernateItem, IsDaemonSet
      <3> QED BY <3>1, <2>1, <1>1, <1>2, HPTurnsTo
    <2> QED BY <1>5, <2>1, <1>3 DEF hibernateDaemonSets
  <1>6. CASE wakeDeployments(w) \/ wakeStatefulSets(w) \/ wakeReplicaSets(w)
    <2>1. hp.wake /\ ~IsDaemonSet(w) /\ HPWakeReplicas(w)
      BY <1>6 DEF wakeDeployments, wakeStatefulSets, wakeReplicaSets, HPWakeItem, IsDaemonSet
    <2>2. CASE HPWakes(w) /\ hp' = HPAt("hpa", w)
      <3>1. ReadyToPatch(w, v, "hpa", hp.wake, hp.spec)
        BY <2>1, <2>2, <1>2 DEF ReadyToPatch, HPWakes
      <3> QED BY <3>1, <2>2, <1>1, <1>2, HPTurnsTo
    <2> QED BY <2>1, <2>2, <1>3 DEF HPWakeReplicas
  <1>7. CASE wakeDaemonSets(w)
    <2>1. CASE HPWakes(w) /\ hp' = HPAt("patch", w)
      <3>1. ReadyToPatch(w, v, "patch", hp.wake, hp.spec)
        BY <1>7, <2>1, <1>2 DEF ReadyToPatch, HPWakes, wakeDaemonSets, HPWakeItem
      <3> QED BY <3>1, <2>1, <1>1, <1>2, HPTurnsTo
    <2> QED BY <1>7, <2>1, <1>3 DEF wakeDaemonSets
  <1> QED BY <1>4, <1>5, <1>6, <1>7 DEF HPWorkload

(* A workload patch keeps the cluster's part of the invariant ...           *)
LEMMA HPPatchKeepsCluster ==
    ASSUME Inductive, hp.pc = "patch", PatchWorkload(hp.w, hp.snap[hp.w], HPDesired),
           UNCHANGED <<hpa, wanted, policy, inWindow, wlPolicy, nsPolicy, status, edits>>,
           faults' \in 0..MaxFaults
    PROVE  ClusterInv'
  <1>1. /\ hp.w \in Workloads /\ hp.wake \in BOOLEAN /\ hp.policy \in Policies
        /\ hp.spec \in HPSpecs
        /\ ReadyToPatch(hp.w, hp.snap[hp.w], "patch", hp.wake, hp.spec)
    BY DEF Inductive, HPInv, HPTypeOK, HPStates, Policies
  <1>2. MergeWorkload(hp.w, Live(wl[hp.w]), hp.snap[hp.w], HPDesired) \in SoundVersions(hp.w)
    BY <1>1, ReadyPatch DEF HPDesired, Inductive
  <1> QED BY <1>1, <1>2, WorkloadPatchKeeps DEF Inductive

(* ... and the controller's, whether the call succeeds or fails.            *)
LEMMA HPPatchKeeps ==
    ASSUME Inductive, HPPatch \/ HPPatchFails
    PROVE  ClusterInv' /\ HPInv'
  <1> USE DEF Inductive
  <1>1. /\ hp.pc = "patch" /\ hp.w \in hp.todo /\ hp.w \in Workloads /\ wanted' = wanted
        /\ ReadyToPatch(hp.w, hp.snap[hp.w], "patch", hp.wake, hp.spec)
    BY DEF HPInv, HPTypeOK, HPStates, HPPatch, HPPatchFails
  <1>2. faults' \in 0..MaxFaults
    BY ClusterAssumption DEF ClusterInv, ClusterTypeOK, HPPatch, HPPatchFails, Fault
  <1>3. CASE HPPatch
    <2>1. ClusterInv'
      BY <1>1, <1>2, <1>3, HPPatchKeepsCluster DEF HPPatch
    <2>2. CASE hp' \in {HPContinue(hp.w), HPCounted(hp.w)}
      BY <1>1, <2>1, <2>2, HPMovesOn
    <2>3. CASE ~hp.wake /\ ~IsDaemonSet(hp.w) /\ hp' = HPAt("hpa", hp.w)
      <3>1. ReadyToPatch(hp.w, hp.snap[hp.w], "hpa", hp.wake, hp.spec)
        BY <1>1, <2>3 DEF ReadyToPatch
      <3> QED BY <1>1, <2>1, <2>3, <3>1, HPTurnsTo
    <2> QED BY <1>3, <2>2, <2>3 DEF HPPatch
  <1>4. CASE HPPatchFails
    <2>0. /\ Fault /\ hp' = HPAbortType
          /\ UNCHANGED <<hpa, wanted, policy, inWindow, wlPolicy, nsPolicy, status, edits>>
          /\ UNCHANGED wl \/ PatchWorkload(hp.w, hp.snap[hp.w], HPDesired)
      BY <1>4 DEF HPPatchFails
    <2>1. ASSUME UNCHANGED wl PROVE ClusterInv'
      BY <2>0, <2>1, FaultFrame
    <2>2. ASSUME PatchWorkload(hp.w, hp.snap[hp.w], HPDesired) PROVE ClusterInv'
      BY <1>1, <1>2, <2>0, <2>2, HPPatchKeepsCluster
    <2>3. HPInv'
      BY <1>1, <2>0, HPMovesOn
    <2> QED BY <2>0, <2>1, <2>2, <2>3
  <1> QED BY <1>3, <1>4

(* Leaving the HPA of the workload at hand keeps HPInv ...                  *)
LEMMA HPHPADoneKeeps ==
    ASSUME HPInv, hp.pc \in {"hpa", "hpaPatch"}, wanted' = wanted, hp' = HPHPADone
    PROVE  HPInv'
  <1>1. /\ hp.w \in hp.todo /\ hp.w \in Workloads
        /\ ReadyToPatch(hp.w, hp.snap[hp.w], hp.pc, hp.wake, hp.spec)
    BY DEF HPInv, HPTypeOK, HPStates
  <1>2. CASE ~hp.wake
    BY <1>1, <1>2, HPMovesOn DEF HPHPADone
  <1>3. CASE hp.wake
    <2>1. ReadyToPatch(hp.w, hp.snap[hp.w], "patch", hp.wake, hp.spec)
      BY <1>1, <1>3 DEF ReadyToPatch
    <2>2. hp' = [[hp EXCEPT !.pc = "patch", !.w = hp.w] EXCEPT !.hbase = None]
      BY <1>3 DEF HPHPADone, HPAt
    <2>3. hp' \in HPStates(hp.snap)
      BY <1>1, <2>2 DEF HPInv, HPTypeOK, HPStates
    <2>4. /\ hp'.pc = "patch" /\ hp'.policy = hp.policy /\ hp'.spec = hp.spec
          /\ hp'.wake = hp.wake /\ hp'.todo = hp.todo /\ hp'.snap = hp.snap /\ hp'.w = hp.w
      BY <1>1, <2>2 DEF HPInv, HPTypeOK, HPStates
    <2>5. /\ ReadyToPatch(hp.w, hp.snap[hp.w], "patch", hp.wake, hp.spec)'
          /\ \A x \in hp.todo : hp.snap[x] \in SoundVersions(x)'
      BY <1>1, <2>1, <2>4, SoundFrame DEF HPInv, ReadyToPatch
    <2> QED BY <1>1, <2>3, <2>4, <2>5 DEF HPInv, HPTypeOK
  <1> QED BY <1>2, <1>3

(* ... and so does looking for it.                                          *)
LEMMA HPFindHPAKeeps ==
    ASSUME Inductive, HPFindHPA
    PROVE  HPInv'
  <1> USE DEF Inductive
  <1>1. /\ hp.pc = "hpa" /\ hp.w \in hp.todo /\ hp.w \in Workloads /\ wanted' = wanted
        /\ ReadyToPatch(hp.w, hp.snap[hp.w], "hpa", hp.wake, hp.spec)
    BY DEF HPInv, HPTypeOK, HPStates, HPFindHPA, clusterVars
  <1>2. CASE hp' = HPHPADone
    BY <1>1, <1>2, HPHPADoneKeeps
  <1>3. CASE hp.w \in Autoscaled /\ hp' = [hp EXCEPT !.pc = "hpaPatch", !.hbase = Cached(hpa[hp.w])]
    <2>1. Cached(hpa[hp.w]) \in HPAVersions
      BY <1>3, LogEnds
    <2>2. ReadyToPatch(hp.w, hp.snap[hp.w], "hpaPatch", hp.wake, hp.spec)
      BY <1>1 DEF ReadyToPatch
    <2> QED BY <1>1, <1>3, <2>1, <2>2 DEF HPInv, HPTypeOK, HPStates, ReadyToPatch, SoundVersions, Sound, KnowsOriginal
  <1> QED BY <1>2, <1>3 DEF HPFindHPA, ToRestore, ToSuspend, findHPA, findSuspendedHPA

(* A call for the HPA keeps the invariant when it is accepted, rejected or  *)
(* fails.                                                                   *)
LEMMA HPPatchHPAKeeps ==
    ASSUME Inductive, HPPatchHPA \/ HPPatchHPARejected \/ HPCallHPAFails
    PROVE  ClusterInv' /\ HPInv'
  <1> USE DEF Inductive
  <1>1. /\ hp.pc \in {"hpa", "hpaPatch"} /\ hp.w \in Workloads /\ wanted' = wanted
        /\ hp.wake \in BOOLEAN /\ hp.spec \in HPSpecs \cup CHPSpecs
        /\ ReadyToPatch(hp.w, hp.snap[hp.w], hp.pc, hp.wake, hp.spec)
        /\ hp.pc = "hpaPatch" => hp.w \in Autoscaled /\ hp.hbase \in HPAVersions
    BY DEF HPInv, HPTypeOK, HPStates, HPPatchHPA, HPPatchHPARejected, HPCallHPAFails, clusterVars
  <1>2. faults' \in 0..MaxFaults
    BY ClusterAssumption DEF ClusterInv, ClusterTypeOK, HPPatchHPA, HPPatchHPARejected,
       HPCallHPAFails, Fault, clusterVars
  <1>3. hp.pc = "hpaPatch" => HPDesiredHPA \in HPAVersions
    BY <1>1, ReadyHPAPatch DEF HPDesiredHPA
  <1>4. CASE HPPatchHPA
    <2>1. /\ PatchHPA(hp.w, hp.hbase, HPDesiredHPA) /\ hp' = HPHPADone /\ hp.pc = "hpaPatch"
          /\ UNCHANGED <<wl, wanted, policy, inWindow, wlPolicy, nsPolicy, status, edits>>
      BY <1>4 DEF HPPatchHPA
    <2>2. ClusterInv'
      BY <1>1, <1>2, <1>3, <2>1, HPAPatchKeeps
    <2> QED BY <1>1, <2>1, <2>2, HPHPADoneKeeps
  <1>5. CASE HPPatchHPARejected
    <2>1. hp' = HPAbortType /\ UNCHANGED clusterVars
      BY <1>5 DEF HPPatchHPARejected
    <2>2. ClusterInv'
      BY <2>1, ClusterFrame
    <2> QED BY <1>1, <2>1, <2>2, HPMovesOn
  <1>6. CASE HPCallHPAFails
    <2>1. /\ Fault /\ hp' = HPAbortType
          /\ UNCHANGED <<wl, wanted, policy, inWindow, wlPolicy, nsPolicy, status, edits>>
          /\ UNCHANGED hpa \/ (hp.pc = "hpaPatch" /\ PatchHPA(hp.w, hp.hbase, HPDesiredHPA))
      BY <1>6 DEF HPCallHPAFails
    <2>2. ASSUME UNCHANGED hpa PROVE ClusterInv'
      BY <2>1, <2>2, FaultFrame
    <2>3. ASSUME hp.pc = "hpaPatch", PatchHPA(hp.w, hp.hbase, HPDesiredHPA) PROVE ClusterInv'
      <3>1. hp.w \in Autoscaled /\ hp.hbase \in HPAVersions /\ HPDesiredHPA \in HPAVersions
        BY <1>1, <1>3, <2>3
      <3> QED BY <1>2, <2>1, <2>3, <3>1, HPAPatchKeeps
    <2>4. HPInv'
      BY <1>1, <2>1, HPMovesOn
    <2> QED BY <2>1, <2>2, <2>3, <2>4
  <1> QED BY <1>4, <1>5, <1>6

(* An idle worker keeps HPInv: nothing is listed and nothing at hand.       *)
LEMMA HPIdleKeeps ==
    ASSUME hp' = HPIdle
    PROVE  HPInv'
  BY DEF HPIdle, HPInv, HPTypeOK, HPStates

(* The end of a type and the end of the reconcile keep the invariant.       *)
LEMMA HPEndKeeps ==
    ASSUME Inductive, HPTypeDone \/ HPPatchStatus \/ HPPatchStatusFails
    PROVE  ClusterInv' /\ HPInv'
  <1> USE DEF Inductive
  <1>1. CASE HPTypeDone
    <2>1. ClusterInv' /\ wanted' = wanted
      BY <1>1, ClusterFrame DEF HPTypeDone, clusterVars
    <2>2. hp' \in HPStates(hp.snap)
      BY <1>1 DEF HPTypeDone, HPInv, HPTypeOK, HPStates
    <2>3. /\ hp'.pc = "types" /\ hp'.policy = hp.policy /\ hp'.spec = hp.spec
          /\ hp'.todo = {} /\ hp'.snap = hp.snap
          /\ hp.policy # None /\ hp.spec # None /\ DOMAIN hp.snap = Workloads
      BY <1>1 DEF HPTypeDone, HPInv, HPTypeOK, HPStates
    <2> QED BY <2>1, <2>2, <2>3, HPAtRest
  <1>2. CASE HPPatchStatus
    <2>1. hp.policy \in Policies /\ hp.names \subseteq Workloads
      BY <1>2 DEF HPPatchStatus, HPInv, HPTypeOK, HPStates, Policies
    <2>2. status' \in [Policies -> SUBSET Workloads]
      BY <1>2, <2>1 DEF HPPatchStatus, ClusterInv, ClusterTypeOK
    <2>3. UNCHANGED <<wl, hpa, wanted, policy, inWindow, wlPolicy, nsPolicy, edits, faults>> /\ hp' = HPIdle
      BY <1>2 DEF HPPatchStatus
    <2>4. ClusterInv'
      BY <2>2, <2>3 DEF ClusterInv, ClusterTypeOK, SoundVersions, Sound, KnowsOriginal
    <2> QED BY <2>3, <2>4, HPIdleKeeps
  <1>3. CASE HPPatchStatusFails
    BY <1>3, FaultFrame, HPIdleKeeps DEF HPPatchStatusFails
  <1> QED BY <1>1, <1>2, <1>3

(* No step of the HibernatePolicy controller breaks the invariant.          *)
LEMMA HPNextKeeps ==
    ASSUME Inductive, HPNext, UNCHANGED chp
    PROVE  Inductive'
  <1> USE DEF Inductive
  <1>1. ClusterInv' /\ HPInv'
    <2>1. ASSUME NEW p \in HPs, HPReconcile(p) PROVE ClusterInv' /\ HPInv'
      BY <2>1, HPReconcileKeeps, ClusterFrame DEF HPReconcile
    <2>2. ASSUME NEW k \in Kinds, hibernateWorkloadType(k) \/ wakeWorkloadType(k)
          PROVE  ClusterInv' /\ HPInv'
      BY <2>2, HPTypeKeeps, ClusterFrame DEF hibernateWorkloadType, wakeWorkloadType, HPList
    <2>3. ASSUME NEW k \in Kinds, HPListFails(k) PROVE ClusterInv' /\ HPInv'
      BY <2>3, HPTypeKeeps, FaultFrame DEF HPListFails
    <2>4. ASSUME NEW w \in Workloads, HPWorkload(w) PROVE ClusterInv' /\ HPInv'
      <3>1. UNCHANGED clusterVars
        BY <2>4 DEF HPWorkload, hibernateDeployments, hibernateStatefulSets,
           hibernateReplicaSets, hibernateDaemonSets, wakeDeployments, wakeStatefulSets,
           wakeReplicaSets, wakeDaemonSets, HPHibernateReplicas, HPWakeReplicas
      <3> QED BY <2>4, <3>1, HPWorkloadKeeps, ClusterFrame
    <2>5. ASSUME HPFindHPA PROVE ClusterInv' /\ HPInv'
      BY <2>5, HPFindHPAKeeps, ClusterFrame DEF HPFindHPA
    <2> QED BY <2>1, <2>2, <2>3, <2>4, <2>5, HPPatchKeeps, HPPatchHPAKeeps, HPEndKeeps
            DEF HPNext, HPProgress, HPFailure
  <1>2. wanted' = wanted
    BY DEF HPNext, HPProgress, HPFailure, HPReconcile, hibernateWorkloadType, wakeWorkloadType,
       HPList, HPListFails, HPWorkload, hibernateDeployments, hibernateStatefulSets,
       hibernateReplicaSets, hibernateDaemonSets, wakeDeployments, wakeStatefulSets,
       wakeReplicaSets, wakeDaemonSets, HPHibernateReplicas, HPWakeReplicas, HPPatch,
       HPPatchFails, HPFindHPA, HPPatchHPA, HPPatchHPARejected, HPCallHPAFails, HPTypeDone,
       HPPatchStatus, HPPatchStatusFails, clusterVars
  <1> QED BY <1>1, <1>2, CHPFrame

-----------------------------------------------------------------------------
(* The ClusterHibernatePolicy controller *)

(* CHPInv holds while the worker has no workload at hand.                   *)
LEMMA CHPAtRest ==
    ASSUME chp' \in CHPStates(chp'.base),
           chp'.pc \notin {"patch", "hpa", "hpaPatch"},
           chp'.pc # "idle" => chp'.policy # None /\ chp'.spec # None
    PROVE  CHPInv'
  BY DEF CHPInv, CHPTypeOK, CHPStates

(* It also holds for a workload at hand that the worker is ready for.       *)
LEMMA CHPAtHand ==
    ASSUME wanted' = wanted, chp' \in CHPStates(chp'.base),
           chp'.policy # None, chp'.spec # None, chp'.w \in chp'.refs,
           ReadyToPatch(chp'.w, chp'.base, chp'.pc, chp'.wake, chp'.spec),
           chp'.pc = "hpaPatch" => chp'.w \in Autoscaled /\ chp'.hbase \in HPAVersions
    PROVE  CHPInv'
  <1>1. \A x : SoundVersions(x)' = SoundVersions(x) /\ SoundVersions(x) \subseteq VersionsOf(x)
    BY SoundFrame
  <1>2. CHPTypeOK'
    BY <1>1 DEF CHPTypeOK, CHPStates, ReadyToPatch
  <1>3. ReadyToPatch(chp.w, chp.base, chp.pc, chp.wake, chp.spec)'
    BY <1>1 DEF ReadyToPatch
  <1> QED BY <1>2, <1>3 DEF CHPInv

(* Leaving a workload or counting it keeps CHPInv.                          *)
LEMMA CHPMovesOn ==
    ASSUME CHPInv, chp.pc # "idle", NEW w \in Workloads,
           chp' \in {CHPContinue(w), CHPCounted(w)}
    PROVE  CHPInv'
  <1>1. chp \in CHPStates(chp.base) /\ chp.policy # None /\ chp.spec # None
    BY DEF CHPInv, CHPTypeOK
  <1>2. chp' \in CHPStates(chp'.base)
    <2>1. CASE chp' = CHPContinue(w)
      BY <1>1, <2>1 DEF CHPContinue, CHPStates
    <2>2. CASE chp' = CHPCounted(w)
      BY <1>1, <2>2 DEF CHPCounted, CHPStates
    <2> QED BY <2>1, <2>2
  <1>3. chp'.pc = "items" /\ chp'.policy = chp.policy /\ chp'.spec = chp.spec
    BY <1>1 DEF CHPContinue, CHPCounted, CHPStates
  <1> QED BY <1>1, <1>2, <1>3, CHPAtRest

(* So does turning to a workload that it is ready for.                      *)
LEMMA CHPTurnsTo ==
    ASSUME CHPInv, chp.pc # "idle", NEW w \in chp.refs, NEW v, wanted' = wanted,
           NEW pc \in {"patch", "hpa"}, chp' = CHPAt(pc, w, v),
           ReadyToPatch(w, v, pc, chp.wake, chp.spec)
    PROVE  CHPInv'
  <1>1. chp \in CHPStates(chp.base) /\ chp.policy # None /\ chp.spec # None
    BY DEF CHPInv, CHPTypeOK
  <1>2. /\ chp'.pc = pc /\ chp'.policy = chp.policy /\ chp'.spec = chp.spec
        /\ chp'.wake = chp.wake /\ chp'.refs = chp.refs /\ chp'.w = w /\ chp'.base = v
    BY <1>1 DEF CHPAt, CHPStates
  <1>3. chp' \in CHPStates(v)
    BY <1>1 DEF CHPAt, CHPStates
  <1> QED BY <1>1, <1>2, <1>3, CHPAtHand

(* An idle worker keeps CHPInv.                                             *)
LEMMA CHPIdleKeeps ==
    ASSUME chp' = CHPIdle
    PROVE  CHPInv'
  BY DEF CHPIdle, CHPInv, CHPTypeOK, CHPStates

(* So does the start of a reconcile, up to the refs it collects.            *)
LEMMA CHPCollectKeeps ==
    ASSUME Inductive,
           (\E p \in CHPs : CHPReconcile(p)) \/ collectNamespaces \/ collectWorkloads \/ collectFails
    PROVE  ClusterInv' /\ CHPInv'
  <1> USE DEF Inductive
  <1>1. ASSUME NEW p \in CHPs, CHPReconcile(p) PROVE ClusterInv' /\ CHPInv'
    <2>1. policy[p] \in CHPSpecs /\ inWindow[p] \in BOOLEAN /\ p # None /\ policy[p] # None
      BY <1>1, NoneAssumption DEF ClusterInv, ClusterTypeOK, CHPReconcile, Policies
    <2>2. chp'.pc = "namespaces" /\ chp'.policy = p /\ chp'.spec = policy[p]
      BY <1>1 DEF CHPReconcile, CHPIdle
    <2>3. chp' \in CHPStates(chp'.base)
      BY <1>1, <2>1 DEF CHPReconcile, CHPIdle, CHPStates
    <2> QED BY <1>1, <2>1, <2>2, <2>3, CHPAtRest, ClusterFrame DEF CHPReconcile
  <1>2. CASE collectNamespaces \/ collectWorkloads
    <2>1. chp \in CHPStates(chp.base) /\ chp.policy # None /\ chp.spec # None
      BY <1>2 DEF CHPInv, CHPTypeOK, collectNamespaces, collectWorkloads
    <2>2. chp' \in CHPStates(chp'.base)
      BY <1>2, <2>1 DEF collectNamespaces, collectWorkloads, CHPStates, allWorkloadsInNamespace,
                        annotatedWorkloads
    <2>3. chp'.pc \in {"workloads", "items"} /\ chp'.policy = chp.policy /\ chp'.spec = chp.spec
      BY <1>2, <2>1 DEF collectNamespaces, collectWorkloads, CHPStates
    <2> QED BY <1>2, <2>1, <2>2, <2>3, CHPAtRest, ClusterFrame DEF collectNamespaces, collectWorkloads
  <1>3. CASE collectFails
    BY <1>3, CHPIdleKeeps, FaultFrame DEF collectFails
  <1> QED BY <1>1, <1>2, <1>3

(* What is decided on a workload after the Get keeps CHPInv.                *)
LEMMA CHPWorkloadKeeps ==
    ASSUME Inductive, NEW w \in Workloads, hibernateWorkload(w) \/ wakeWorkload(w) \/ CHPGetFails(w)
    PROVE  CHPInv'
  <1> USE DEF Inductive
  <1> DEFINE v == Cached(wl[w])
  <1>1. chp.pc = "items" /\ w \in chp.refs /\ wanted' = wanted
    BY DEF hibernateWorkload, wakeWorkload, CHPGetFails, clusterVars
  <1>2. v \in SoundVersions(w)
    BY LogEnds
  <1>3. CASE chp' \in {CHPContinue(w), CHPCounted(w)}
    BY <1>1, <1>3, CHPMovesOn
  <1>4. CASE hibernateWorkload(w)
    <2>1. CASE ~IsDaemonSet(w) /\ chp.spec.cap # None /\ chp' = CHPAt("hpa", w, v)
      <3>1. ReadyToPatch(w, v, "hpa", chp.wake, chp.spec)
        BY <1>2, <1>4, <2>1 DEF ReadyToPatch, hibernateWorkload
      <3> QED BY <1>1, <2>1, <3>1, CHPTurnsTo
    <2>2. CASE /\ ~v.hib /\ chp' = CHPAt("patch", w, v)
               /\ ~IsDaemonSet(w) => computeTargetReplicas(chp.spec.cap, v.spec)
      <3>1. ReadyToPatch(w, v, "patch", chp.wake, chp.spec)
        BY <1>2, <1>4, <2>2 DEF ReadyToPatch, hibernateWorkload, computeTargetReplicas
      <3> QED BY <1>1, <2>2, <3>1, CHPTurnsTo
    <2> QED BY <1>3, <1>4, <2>1, <2>2 DEF hibernateWorkload
  <1>5. CASE wakeWorkload(w)
    <2>1. CASE v.hib /\ chp' = CHPAt(IF IsDaemonSet(w) THEN "patch" ELSE "hpa", w, v)
      <3>1. ReadyToPatch(w, v, IF IsDaemonSet(w) THEN "patch" ELSE "hpa", chp.wake, chp.spec)
        BY <1>2, <1>5, <2>1 DEF ReadyToPatch, wakeWorkload
      <3> QED BY <1>1, <2>1, <3>1, CHPTurnsTo
    <2> QED BY <1>3, <1>5, <2>1 DEF wakeWorkload
  <1> QED BY <1>3, <1>4, <1>5 DEF CHPGetFails

(* A workload patch keeps the cluster's part of the invariant ...           *)
LEMMA CHPPatchKeepsCluster ==
    ASSUME Inductive, chp.pc = "patch", PatchWorkload(chp.w, chp.base, CHPDesired),
           UNCHANGED <<hpa, wanted, policy, inWindow, wlPolicy, nsPolicy, status, edits>>,
           faults' \in 0..MaxFaults
    PROVE  ClusterInv'
  <1>1. /\ chp.w \in Workloads /\ chp.wake \in BOOLEAN /\ chp.policy \in Policies
        /\ chp.spec \in CHPSpecs
        /\ ReadyToPatch(chp.w, chp.base, "patch", chp.wake, chp.spec)
    BY DEF Inductive, CHPInv, CHPTypeOK, CHPStates, Policies
  <1>2. MergeWorkload(chp.w, Live(wl[chp.w]), chp.base, CHPDesired) \in SoundVersions(chp.w)
    BY <1>1, ReadyPatch DEF CHPDesired, Inductive
  <1> QED BY <1>1, <1>2, WorkloadPatchKeeps DEF Inductive

(* ... and the controller's, whether the call succeeds or fails.            *)
LEMMA CHPPatchKeeps ==
    ASSUME Inductive, CHPPatch \/ CHPPatchFails
    PROVE  ClusterInv' /\ CHPInv'
  <1> USE DEF Inductive
  <1>1. /\ chp.pc = "patch" /\ chp.w \in chp.refs /\ chp.w \in Workloads /\ wanted' = wanted
        /\ ReadyToPatch(chp.w, chp.base, "patch", chp.wake, chp.spec)
    BY DEF CHPInv, CHPTypeOK, CHPStates, CHPPatch, CHPPatchFails
  <1>2. faults' \in 0..MaxFaults
    BY ClusterAssumption DEF ClusterInv, ClusterTypeOK, CHPPatch, CHPPatchFails, Fault
  <1>3. CASE CHPPatch
    <2>1. ClusterInv'
      BY <1>1, <1>2, <1>3, CHPPatchKeepsCluster DEF CHPPatch
    <2>2. CASE chp' \in {CHPContinue(chp.w), CHPCounted(chp.w)}
      BY <1>1, <2>1, <2>2, CHPMovesOn
    <2>3. CASE ~chp.wake /\ ~IsDaemonSet(chp.w) /\ chp' = CHPAt("hpa", chp.w, chp.base)
      <3>1. ReadyToPatch(chp.w, chp.base, "hpa", chp.wake, chp.spec)
        BY <1>1, <2>3 DEF ReadyToPatch
      <3> QED BY <1>1, <2>1, <2>3, <3>1, CHPTurnsTo
    <2> QED BY <1>3, <2>2, <2>3 DEF CHPPatch
  <1>4. CASE CHPPatchFails
    <2>0. /\ Fault /\ chp' = CHPContinue(chp.w)
          /\ UNCHANGED <<hpa, wanted, policy, inWindow, wlPolicy, nsPolicy, status, edits>>
          /\ UNCHANGED wl \/ PatchWorkload(chp.w, chp.base, CHPDesired)
      BY <1>4 DEF CHPPatchFails
    <2>1. ASSUME UNCHANGED wl PROVE ClusterInv'
      BY <2>0, <2>1, FaultFrame
    <2>2. ASSUME PatchWorkload(chp.w, chp.base, CHPDesired) PROVE ClusterInv'
      BY <1>1, <1>2, <2>0, <2>2, CHPPatchKeepsCluster
    <2>3. CHPInv'
      BY <1>1, <2>0, CHPMovesOn
    <2> QED BY <2>0, <2>1, <2>2, <2>3
  <1> QED BY <1>3, <1>4

(* Leaving the HPA of the workload at hand keeps CHPInv ...                 *)
LEMMA CHPHPADoneKeeps ==
    ASSUME CHPInv, chp.pc \in {"hpa", "hpaPatch"}, wanted' = wanted, chp' = CHPHPADone
    PROVE  CHPInv'
  <1>1. /\ chp \in CHPStates(chp.base) /\ chp.policy # None /\ chp.spec # None
        /\ chp.w \in chp.refs /\ chp.w \in Workloads
        /\ ReadyToPatch(chp.w, chp.base, chp.pc, chp.wake, chp.spec)
    BY DEF CHPInv, CHPTypeOK, CHPStates
  <1>2. CASE ~chp.wake
    BY <1>1, <1>2, CHPMovesOn DEF CHPHPADone
  <1>3. CASE chp.wake
    <2>1. ReadyToPatch(chp.w, chp.base, "patch", chp.wake, chp.spec)
      BY <1>1, <1>3 DEF ReadyToPatch
    <2>2. chp' = [chp EXCEPT !.pc = "patch", !.hbase = None]
      BY <1>3 DEF CHPHPADone
    <2>3. chp' \in CHPStates(chp.base)
      BY <1>1, <2>2 DEF CHPStates
    <2>4. /\ chp'.pc = "patch" /\ chp'.policy = chp.policy /\ chp'.spec = chp.spec
          /\ chp'.wake = chp.wake /\ chp'.refs = chp.refs /\ chp'.w = chp.w
          /\ chp'.base = chp.base
      BY <1>1, <2>2 DEF CHPStates
    <2> QED BY <1>1, <2>1, <2>3, <2>4, CHPAtHand
  <1> QED BY <1>2, <1>3

(* ... and so does looking for it.                                          *)
LEMMA CHPFindHPAKeeps ==
    ASSUME Inductive, CHPFindHPA
    PROVE  CHPInv'
  <1> USE DEF Inductive
  <1>1. /\ chp \in CHPStates(chp.base) /\ chp.policy # None /\ chp.spec # None
        /\ chp.pc = "hpa" /\ chp.w \in chp.refs /\ wanted' = wanted
        /\ ReadyToPatch(chp.w, chp.base, "hpa", chp.wake, chp.spec)
    BY DEF CHPInv, CHPTypeOK, CHPFindHPA, clusterVars
  <1>2. CASE chp' = CHPHPADone
    BY <1>1, <1>2, CHPHPADoneKeeps
  <1>3. CASE chp.w \in Autoscaled /\ chp' = [chp EXCEPT !.pc = "hpaPatch", !.hbase = Cached(hpa[chp.w])]
    <2>1. Cached(hpa[chp.w]) \in HPAVersions
      BY <1>3, LogEnds
    <2>2. ReadyToPatch(chp.w, chp.base, "hpaPatch", chp.wake, chp.spec)
      BY <1>1 DEF ReadyToPatch
    <2>3. chp' \in CHPStates(chp.base)
      BY <1>1, <1>3, <2>1 DEF CHPStates
    <2>4. /\ chp'.pc = "hpaPatch" /\ chp'.policy = chp.policy /\ chp'.spec = chp.spec
          /\ chp'.wake = chp.wake /\ chp'.refs = chp.refs /\ chp'.w = chp.w
          /\ chp'.base = chp.base /\ chp'.hbase = Cached(hpa[chp.w])
      BY <1>1, <1>3 DEF CHPStates
    <2> QED BY <1>1, <1>3, <2>1, <2>2, <2>3, <2>4, CHPAtHand
  <1> QED BY <1>2, <1>3 DEF CHPFindHPA, ToRestore, ToSuspend, findHPA, findSuspendedHPA

(* A call for the HPA keeps the invariant when it is accepted, rejected or  *)
(* fails.                                                                   *)
LEMMA CHPPatchHPAKeeps ==
    ASSUME Inductive, CHPPatchHPA \/ CHPPatchHPARejected \/ CHPCallHPAFails
    PROVE  ClusterInv' /\ CHPInv'
  <1> USE DEF Inductive
  <1>1. /\ chp.pc \in {"hpa", "hpaPatch"} /\ chp.w \in Workloads /\ wanted' = wanted
        /\ chp.wake \in BOOLEAN /\ chp.spec \in HPSpecs \cup CHPSpecs
        /\ ReadyToPatch(chp.w, chp.base, chp.pc, chp.wake, chp.spec)
        /\ chp.pc = "hpaPatch" => chp.w \in Autoscaled /\ chp.hbase \in HPAVersions
    BY DEF CHPInv, CHPTypeOK, CHPStates, CHPPatchHPA, CHPPatchHPARejected, CHPCallHPAFails, clusterVars
  <1>2. faults' \in 0..MaxFaults
    BY ClusterAssumption DEF ClusterInv, ClusterTypeOK, CHPPatchHPA, CHPPatchHPARejected,
       CHPCallHPAFails, Fault, clusterVars
  <1>3. chp.pc = "hpaPatch" => CHPDesiredHPA \in HPAVersions
    BY <1>1, ReadyHPAPatch DEF CHPDesiredHPA
  <1>4. CASE CHPPatchHPA
    <2>1. /\ PatchHPA(chp.w, chp.hbase, CHPDesiredHPA) /\ chp' = CHPHPADone /\ chp.pc = "hpaPatch"
          /\ UNCHANGED <<wl, wanted, policy, inWindow, wlPolicy, nsPolicy, status, edits>>
      BY <1>4 DEF CHPPatchHPA
    <2>2. ClusterInv'
      BY <1>1, <1>2, <1>3, <2>1, HPAPatchKeeps
    <2> QED BY <1>1, <2>1, <2>2, CHPHPADoneKeeps
  <1>5. CASE CHPPatchHPARejected
    <2>1. chp' = CHPContinue(chp.w) /\ UNCHANGED clusterVars
      BY <1>5 DEF CHPPatchHPARejected
    <2>2. ClusterInv'
      BY <2>1, ClusterFrame
    <2> QED BY <1>1, <2>1, <2>2, CHPMovesOn
  <1>6. CASE CHPCallHPAFails
    <2>1. /\ Fault /\ chp' = CHPContinue(chp.w)
          /\ UNCHANGED <<wl, wanted, policy, inWindow, wlPolicy, nsPolicy, status, edits>>
          /\ UNCHANGED hpa \/ (chp.pc = "hpaPatch" /\ PatchHPA(chp.w, chp.hbase, CHPDesiredHPA))
      BY <1>6 DEF CHPCallHPAFails
    <2>2. ASSUME UNCHANGED hpa PROVE ClusterInv'
      BY <2>1, <2>2, FaultFrame
    <2>3. ASSUME chp.pc = "hpaPatch", PatchHPA(chp.w, chp.hbase, CHPDesiredHPA) PROVE ClusterInv'
      <3>1. chp.w \in Autoscaled /\ chp.hbase \in HPAVersions /\ CHPDesiredHPA \in HPAVersions
        BY <1>1, <1>3, <2>3
      <3> QED BY <1>2, <2>1, <2>3, <3>1, HPAPatchKeeps
    <2>4. CHPInv'
      BY <1>1, <2>1, CHPMovesOn
    <2> QED BY <2>1, <2>2, <2>3, <2>4
  <1> QED BY <1>4, <1>5, <1>6

(* The end of the reconcile keeps the invariant.                            *)
LEMMA CHPEndKeeps ==
    ASSUME Inductive, CHPPatchStatus \/ CHPPatchStatusFails
    PROVE  ClusterInv' /\ CHPInv'
  <1> USE DEF Inductive
  <1>1. CASE CHPPatchStatus
    <2>1. chp.policy \in Policies /\ chp.names \subseteq Workloads
      BY <1>1 DEF CHPPatchStatus, CHPInv, CHPTypeOK, CHPStates, Policies
    <2>2. status' \in [Policies -> SUBSET Workloads]
      BY <1>1, <2>1 DEF CHPPatchStatus, ClusterInv, ClusterTypeOK
    <2>3. UNCHANGED <<wl, hpa, wanted, policy, inWindow, wlPolicy, nsPolicy, edits, faults>> /\ chp' = CHPIdle
      BY <1>1 DEF CHPPatchStatus
    <2>4. ClusterInv'
      BY <2>2, <2>3 DEF ClusterInv, ClusterTypeOK, SoundVersions, Sound, KnowsOriginal
    <2> QED BY <2>3, <2>4, CHPIdleKeeps
  <1>2. CASE CHPPatchStatusFails
    BY <1>2, FaultFrame, CHPIdleKeeps DEF CHPPatchStatusFails
  <1> QED BY <1>1, <1>2

(* No step of the ClusterHibernatePolicy controller breaks the invariant.   *)
LEMMA CHPNextKeeps ==
    ASSUME Inductive, CHPNext, UNCHANGED hp
    PROVE  Inductive'
  <1> USE DEF Inductive
  <1>1. ClusterInv' /\ CHPInv'
    <2>1. ASSUME NEW w \in Workloads, hibernateWorkload(w) \/ wakeWorkload(w)
          PROVE  ClusterInv' /\ CHPInv'
      BY <2>1, CHPWorkloadKeeps, ClusterFrame DEF hibernateWorkload, wakeWorkload
    <2>2. ASSUME NEW w \in Workloads, CHPGetFails(w) PROVE ClusterInv' /\ CHPInv'
      BY <2>2, CHPWorkloadKeeps, FaultFrame DEF CHPGetFails
    <2>3. ASSUME CHPFindHPA PROVE ClusterInv' /\ CHPInv'
      BY <2>3, CHPFindHPAKeeps, ClusterFrame DEF CHPFindHPA
    <2> QED BY <2>1, <2>2, <2>3, CHPCollectKeeps, CHPPatchKeeps, CHPPatchHPAKeeps, CHPEndKeeps
            DEF CHPNext, CHPProgress, CHPFailure
  <1>2. wanted' = wanted
    BY DEF CHPNext, CHPProgress, CHPFailure, CHPReconcile, collectNamespaces, collectWorkloads,
       collectFails, hibernateWorkload, wakeWorkload, CHPGetFails, CHPPatch, CHPPatchFails,
       CHPFindHPA, CHPPatchHPA, CHPPatchHPARejected, CHPCallHPAFails, CHPPatchStatus,
       CHPPatchStatusFails, clusterVars
  <1> QED BY <1>1, <1>2, HPFrame

-----------------------------------------------------------------------------
(* Users, watch events and crashes *)

(* A version stays sound when users ask for more.                           *)
LEMMA SoundGrows ==
    ASSUME NEW w, wanted[w] \subseteq wanted'[w]
    PROVE  SoundVersions(w) \subseteq SoundVersions(w)'
  BY DEF SoundVersions, Sound, KnowsOriginal

(* So both workers keep their invariants when users ask for more.           *)
LEMMA WorkersGrow ==
    ASSUME HPInv, CHPInv, UNCHANGED <<hp, chp>>,
           \A w \in Workloads : wanted[w] \subseteq wanted'[w]
    PROVE  HPInv' /\ CHPInv'
  <1>1. \A w \in Workloads : SoundVersions(w) \subseteq SoundVersions(w)'
    BY SoundGrows
  <1>2. hp.todo \subseteq Workloads /\ chp.refs \subseteq Workloads
    BY DEF HPInv, HPTypeOK, HPStates, CHPInv, CHPTypeOK, CHPStates
  <1>3. HPTypeOK' /\ CHPTypeOK'
    BY DEF HPInv, HPTypeOK, CHPInv, CHPTypeOK
  <1>4. HPInv'
    BY <1>1, <1>2, <1>3 DEF HPInv, HPTypeOK, ReadyToPatch
  <1>5. CHPInv'
    BY <1>1, <1>2, <1>3 DEF CHPInv, CHPTypeOK, ReadyToPatch
  <1> QED BY <1>4, <1>5

(* A watch event keeps the invariant: it only shortens a log.               *)
LEMMA EventKeeps ==
    ASSUME ClusterInv,
           (\E w \in Workloads : WorkloadEvent(w)) \/ (\E w \in Autoscaled : HPAEvent(w))
    PROVE  ClusterInv'
  <1>1. ASSUME NEW w \in Workloads, WorkloadEvent(w) PROVE ClusterInv'
    <2>1. /\ wl = [x \in Workloads |-> wl[x]] /\ Len(wl[w]) > 1
          /\ \A x \in Workloads : wl[x] \in Seq(SoundVersions(x)) /\ Len(wl[x]) \in 1..(MaxLag + 1)
      BY <1>1 DEF WorkloadEvent, ClusterInv, ClusterTypeOK
    <2>2. Tail(wl[w]) \in Seq(SoundVersions(w)) /\ Len(Tail(wl[w])) \in 1..(MaxLag + 1)
      BY <2>1, TailKeeps
    <2>3. /\ wl' = [wl EXCEPT ![w] = Tail(wl[w])]
          /\ UNCHANGED <<hpa, wanted, policy, inWindow, wlPolicy, nsPolicy, status, edits, faults>>
      BY <1>1 DEF WorkloadEvent
    <2>4. /\ wl' = [x \in Workloads |-> wl'[x]]
          /\ \A x \in Workloads : wl'[x] \in Seq(SoundVersions(x)) /\ Len(wl'[x]) \in 1..(MaxLag + 1)
      BY <2>1, <2>2, <2>3
    <2>5. \A x \in Workloads : wl'[x] \in Seq(VersionsOf(x)) /\ SoundVersions(x)' = SoundVersions(x)
      BY <2>3, <2>4, SeqMonotone, SoundFrame
    <2> QED BY <2>3, <2>4, <2>5 DEF ClusterInv, ClusterTypeOK
  <1>2. ASSUME NEW w \in Autoscaled, HPAEvent(w) PROVE ClusterInv'
    <2>1. /\ hpa \in [Autoscaled -> Seq(HPAVersions)] /\ Len(hpa[w]) > 1
          /\ \A x \in Autoscaled : Len(hpa[x]) \in 1..(MaxLag + 1)
      BY <1>2 DEF HPAEvent, ClusterInv, ClusterTypeOK
    <2>2. Tail(hpa[w]) \in Seq(HPAVersions) /\ Len(Tail(hpa[w])) \in 1..(MaxLag + 1)
      BY <2>1, TailKeeps
    <2>3. /\ hpa' = [hpa EXCEPT ![w] = Tail(hpa[w])]
          /\ UNCHANGED <<wl, wanted, policy, inWindow, wlPolicy, nsPolicy, status, edits, faults>>
      BY <1>2 DEF HPAEvent
    <2>4. /\ hpa' \in [Autoscaled -> Seq(HPAVersions)]
          /\ \A x \in Autoscaled : Len(hpa'[x]) \in 1..(MaxLag + 1)
      BY <2>1, <2>2, <2>3
    <2> QED BY <2>3, <2>4 DEF ClusterInv, ClusterTypeOK, SoundVersions, Sound, KnowsOriginal
  <1> QED BY <1>1, <1>2

(* So does an edit of a workload: what is asked of an awake one is wanted.  *)
LEMMA EditWorkloadKeeps ==
    ASSUME ClusterInv, NEW w \in Workloads, EditWorkload(w)
    PROVE  ClusterInv' /\ \A x \in Workloads : wanted[x] \subseteq wanted'[x]
  <1> DEFINE old == Live(wl[w])
  <1>1. PICK s \in UserSpecs(w) :
          /\ wl' = [wl EXCEPT ![w] = Write(wl[w], [old EXCEPT !.spec = s])]
          /\ wanted' = [wanted EXCEPT ![w] = IF old.hib THEN wanted[w] ELSE wanted[w] \cup {s}]
    BY DEF EditWorkload
  <1> DEFINE new == [old EXCEPT !.spec = s]
  <1>2. /\ wl = [x \in Workloads |-> wl[x]]
        /\ wanted = [x \in Workloads |-> wanted[x]]
        /\ \A x \in Workloads : wl[x] \in Seq(SoundVersions(x)) /\ Len(wl[x]) \in 1..(MaxLag + 1)
        /\ \A x \in Workloads : wanted[x] \subseteq UserSpecs(x)
    BY DEF ClusterInv, ClusterTypeOK
  <1>3. /\ wanted' = [x \in Workloads |-> wanted'[x]]
        /\ \A x \in Workloads : wanted[x] \subseteq wanted'[x] /\ wanted'[x] \subseteq UserSpecs(x)
        /\ ~old.hib => s \in wanted'[w]
    BY <1>1, <1>2
  <1>4. \A x \in Workloads : SoundVersions(x) \subseteq SoundVersions(x)'
    BY <1>3, SoundGrows
  <1>5. old \in SoundVersions(w)
    BY LogEnds
  <1>6. UserSpecs(w) \subseteq SpecsOf(w)
    BY ClusterAssumption DEF UserSpecs, SpecsOf, Selectors
  <1>7. new \in VersionsOf(w)
    BY <1>5, <1>6 DEF SoundVersions, VersionsOf
  <1>8. new.hib = old.hib /\ new.orig = old.orig /\ new.spec = s
    BY <1>5 DEF SoundVersions, VersionsOf
  <1>9. new \in SoundVersions(w)'
    <2>1. CASE NightEdits
      BY <1>7, <2>1 DEF SoundVersions
    <2>2. CASE ~NightEdits
      <3>1. ~old.hib
        BY <2>2 DEF EditWorkload
      <3>2. old.orig = None
        BY <1>5, <2>2, <3>1 DEF SoundVersions, Sound
      <3>3. IsDaemonSet(w) => s \subseteq Labels
        BY DEF UserSpecs
      <3>4. ASSUME NEW v, v = new PROVE Sound(w, v)'
        BY <3>4, <1>3, <1>8, <3>1, <3>2, <3>3 DEF Sound, KnowsOriginal
      <3> QED BY <1>7, <3>4 DEF SoundVersions
    <2> QED BY <2>1, <2>2
  <1>10. wl[w] \in Seq(SoundVersions(w)')
    BY <1>2, <1>4, SeqMonotone
  <1>11. Write(wl[w], new) \in Seq(SoundVersions(w)') /\ Len(Write(wl[w], new)) \in 1..(MaxLag + 1)
    BY <1>2, <1>9, <1>10, WriteKeeps
  <1>12. \A x \in Workloads : wl[x] \in Seq(SoundVersions(x)')
    BY <1>2, <1>4, SeqMonotone
  <1>13. /\ wl' = [x \in Workloads |-> wl'[x]]
         /\ \A x \in Workloads : wl'[x] \in Seq(SoundVersions(x)') /\ Len(wl'[x]) \in 1..(MaxLag + 1)
    BY <1>1, <1>2, <1>11, <1>12
  <1>14. \A x \in Workloads : SoundVersions(x)' \subseteq VersionsOf(x)
    BY DEF SoundVersions
  <1>15. \A x \in Workloads : wl'[x] \in Seq(VersionsOf(x))
    BY <1>13, <1>14, SeqMonotone
  <1>16. /\ UNCHANGED <<hpa, policy, inWindow, wlPolicy, nsPolicy, status, faults>>
         /\ edits' \in 0..MaxEdits
    BY ClusterAssumption DEF EditWorkload, Edit, ClusterInv, ClusterTypeOK
  <1> QED BY <1>3, <1>13, <1>15, <1>16 DEF ClusterInv, ClusterTypeOK

(* So do the other edits and the clock: they touch no workload.             *)
LEMMA OtherEditsKeep ==
    ASSUME ClusterInv,
           \/ \E w \in Workloads : AnnotateWorkload(w)
           \/ \E p \in Policies : WindowBoundary(p) \/ EditPolicy(p)
           \/ \E n \in Namespaces : AnnotateNamespace(n)
    PROVE  ClusterInv' /\ wanted' = wanted
  <1>1. UNCHANGED <<wl, hpa, wanted, faults>>
    BY DEF AnnotateWorkload, WindowBoundary, EditPolicy, AnnotateNamespace
  <1>2. edits' \in 0..MaxEdits
    BY ClusterAssumption DEF AnnotateWorkload, WindowBoundary, EditPolicy, AnnotateNamespace, Edit,
       ClusterInv, ClusterTypeOK
  <1>3. /\ wlPolicy' \in [Workloads -> CHPs \cup {None}]
        /\ nsPolicy' \in [Namespaces -> CHPs \cup {None}]
        /\ inWindow' \in [Policies -> BOOLEAN]
    BY DEF AnnotateWorkload, WindowBoundary, EditPolicy, AnnotateNamespace, ClusterInv, ClusterTypeOK
  <1>4. /\ policy' \in [Policies -> HPSpecs \cup CHPSpecs \cup {None}]
        /\ \A p \in HPs : policy'[p] \in HPSpecs \cup {None}
        /\ \A p \in CHPs : policy'[p] \in CHPSpecs \cup {None}
        /\ status' \in [Policies -> SUBSET Workloads]
    <2>1. CASE UNCHANGED <<policy, status>>
      BY <2>1 DEF ClusterInv, ClusterTypeOK
    <2>2. ASSUME NEW p \in Policies, EditPolicy(p) PROVE <1>4!1 /\ <1>4!2 /\ <1>4!3 /\ <1>4!4
      BY <2>2, ClusterAssumption DEF EditPolicy, ClusterInv, ClusterTypeOK, Policies
    <2> QED BY <2>1, <2>2 DEF AnnotateWorkload, WindowBoundary, AnnotateNamespace
  <1> QED BY <1>1, <1>2, <1>3, <1>4 DEF ClusterInv, ClusterTypeOK, SoundVersions, Sound, KnowsOriginal

(* So does a crash: what the API server holds is sound.                     *)
LEMMA CrashKeeps ==
    ASSUME Inductive, Crash
    PROVE  Inductive'
  <1> USE DEF Inductive
  <1>1. HPInv' /\ CHPInv'
    BY HPIdleKeeps, CHPIdleKeeps DEF Crash
  <1>2. /\ wl' = [w \in Workloads |-> <<Live(wl[w])>>]
        /\ hpa' = [w \in Autoscaled |-> <<Live(hpa[w])>>]
        /\ UNCHANGED <<wanted, policy, inWindow, wlPolicy, nsPolicy, status, edits>>
    BY DEF Crash
  <1>3. faults' \in 0..MaxFaults
    BY ClusterAssumption DEF Crash, Fault, ClusterInv, ClusterTypeOK
  <1>4. \A w \in Workloads : wl'[w] \in Seq(SoundVersions(w)) /\ Len(wl'[w]) \in 1..(MaxLag + 1)
    BY <1>2, LogEnds, FreshKeeps
  <1>5. \A w \in Workloads : wl'[w] \in Seq(VersionsOf(w)) /\ SoundVersions(w)' = SoundVersions(w)
    BY <1>2, <1>4, SeqMonotone, SoundFrame
  <1>6. /\ \A w \in Autoscaled : hpa'[w] \in Seq(HPAVersions)
        /\ \A w \in Autoscaled : Len(hpa'[w]) \in 1..(MaxLag + 1)
    BY <1>2, LogEnds, FreshKeeps
  <1>7. hpa' \in [Autoscaled -> Seq(HPAVersions)] /\ wl' = [w \in Workloads |-> wl'[w]]
    BY <1>2, <1>6
  <1>8. ClusterInv'
    BY <1>2, <1>3, <1>4, <1>5, <1>6, <1>7 DEF ClusterInv, ClusterTypeOK
  <1> QED BY <1>1, <1>8

-----------------------------------------------------------------------------
(* The invariant *)

(* Objects as a user made them, and workloads that an older release put to  *)
(* sleep, are sound.                                                        *)
LEMMA InitInductive ==
    ASSUME Init
    PROVE  Inductive
  <1>1. HPInv /\ CHPInv
    BY DEF Init, HPIdle, HPInv, HPTypeOK, HPStates, CHPIdle, CHPInv, CHPTypeOK, CHPStates
  <1>2. PICK counts \in [Workloads \ DaemonSets -> Counts], selectors \in [DaemonSets -> SUBSET Labels] :
          LET first(w) == IF IsDaemonSet(w) THEN selectors[w] ELSE counts[w]
          IN  /\ \A w \in Legacy \ DaemonSets : counts[w] > 0
              /\ wl = [w \in Workloads |-> IF w \in Legacy THEN <<LegacyVersion(w, first(w))>>
                                                           ELSE <<AwakeVersion(first(w))>>]
              /\ wanted = [w \in Workloads |-> {first(w)}]
    BY DEF Init, ClusterInit
  <1> DEFINE first(w) == IF IsDaemonSet(w) THEN selectors[w] ELSE counts[w]
             only(w) == IF w \in Legacy THEN LegacyVersion(w, first(w)) ELSE AwakeVersion(first(w))
  <1>3. ASSUME NEW w \in Workloads
        PROVE  /\ wanted[w] = {first(w)} /\ wl[w] = <<only(w)>>
               /\ first(w) \in UserSpecs(w) /\ first(w) \in SpecsOf(w) /\ first(w) # None
    <2>1. wanted[w] = {first(w)} /\ wl[w] = <<only(w)>>
      BY <1>2
    <2>2. CASE IsDaemonSet(w)
      <3>1. first(w) \in SUBSET Labels
        BY <2>2 DEF DaemonSets
      <3> QED BY <2>1, <2>2, <3>1, NoneAssumption DEF UserSpecs, SpecsOf, Selectors
    <2>3. CASE ~IsDaemonSet(w)
      <3>1. first(w) \in Counts
        BY <2>3 DEF DaemonSets
      <3>2. first(w) \in Nat /\ first(w) # None
        BY <3>1, ClusterAssumption, NoneAssumption
      <3> QED BY <2>1, <2>3, <3>1, <3>2 DEF UserSpecs, SpecsOf
    <2> QED BY <2>2, <2>3
  <1>4. ASSUME NEW w \in Workloads PROVE only(w) \in SoundVersions(w)
    <2>1. CASE w \in Legacy
      <3>1. /\ ~IsDaemonSet(w) => 0 < first(w)
        BY <1>2, <2>1, ClusterAssumption DEF DaemonSets
      <3>2. only(w) \in VersionsOf(w)
        BY <1>3, <2>1 DEF LegacyVersion, VersionsOf, SpecsOf, Selectors
      <3>3. Sound(w, only(w))
        BY <1>3, <2>1, <3>1 DEF LegacyVersion, Sound, KnowsOriginal, UserSpecs
      <3> QED BY <3>2, <3>3 DEF SoundVersions
    <2>2. CASE w \notin Legacy
      <3>1. only(w) \in VersionsOf(w)
        BY <1>3, <2>2 DEF AwakeVersion, VersionsOf
      <3>2. Sound(w, only(w))
        BY <1>3, <2>2 DEF AwakeVersion, Sound, KnowsOriginal, UserSpecs
      <3> QED BY <3>1, <3>2 DEF SoundVersions
    <2> QED BY <2>1, <2>2
  <1>5. \A w \in Workloads : wl[w] \in Seq(SoundVersions(w)) /\ Len(wl[w]) \in 1..(MaxLag + 1)
    <2> TAKE w \in Workloads
    <2>1. wl[w] = <<only(w)>> /\ only(w) \in SoundVersions(w)
      BY <1>3, <1>4
    <2> HIDE DEF only
    <2> QED BY <2>1, FreshKeeps
  <1>6. \A w \in Workloads : wl[w] \in Seq(VersionsOf(w))
    BY <1>5, SeqMonotone DEF SoundVersions
  <1>7. wl = [w \in Workloads |-> wl[w]] /\ wanted = [w \in Workloads |-> wanted[w]]
    <2>1. wl = [w \in Workloads |-> <<only(w)>>] /\ wanted = [w \in Workloads |-> {first(w)}]
      BY <1>2
    <2> HIDE DEF first, only
    <2> QED BY <2>1
  <1>8. \A w \in Workloads : wanted[w] \subseteq UserSpecs(w)
    BY <1>3
  <1>9. ASSUME NEW w \in Autoscaled PROVE OriginalHPA(w) \in HPAVersions
    BY ClusterAssumption DEF OriginalHPA, HPAVersions
  <1>10. hpa = [w \in Autoscaled |-> <<OriginalHPA(w)>>]
    BY DEF Init, ClusterInit
  <1>11. /\ \A w \in Autoscaled : hpa[w] \in Seq(HPAVersions) /\ Len(hpa[w]) \in 1..(MaxLag + 1)
         /\ hpa \in [Autoscaled -> Seq(HPAVersions)]
    BY <1>9, <1>10, FreshKeeps
  <1>12. /\ policy \in [Policies -> HPSpecs \cup CHPSpecs \cup {None}]
         /\ \A p \in HPs : policy[p] \in HPSpecs \cup {None}
         /\ \A p \in CHPs : policy[p] \in CHPSpecs \cup {None}
         /\ inWindow \in [Policies -> BOOLEAN]
         /\ wlPolicy \in [Workloads -> CHPs \cup {None}]
         /\ nsPolicy \in [Namespaces -> CHPs \cup {None}]
         /\ status \in [Policies -> SUBSET Workloads]
         /\ edits \in 0..MaxEdits
         /\ faults \in 0..MaxFaults
    BY ClusterAssumption DEF Init, ClusterInit
  <1>13. ClusterInv
    BY <1>5, <1>6, <1>7, <1>8, <1>11, <1>12 DEF ClusterInv, ClusterTypeOK
  <1> QED BY <1>1, <1>13 DEF Inductive

(* Every step of both controllers, of users, of the caches and of a crash   *)
(* keeps the invariant.                                                     *)
LEMMA NextInductive ==
    ASSUME Inductive, [Next]_vars
    PROVE  Inductive'
  <1> USE DEF Inductive
  <1>1. CASE HPNext /\ UNCHANGED chp
    BY <1>1, HPNextKeeps
  <1>2. CASE CHPNext /\ UNCHANGED hp
    BY <1>2, CHPNextKeeps
  <1>3. CASE Environment /\ UNCHANGED <<hp, chp>>
    <2>1. CASE (\E w \in Workloads : WorkloadEvent(w)) \/ (\E w \in Autoscaled : HPAEvent(w))
      <3>1. ClusterInv'
        BY <2>1, EventKeeps
      <3>2. wanted' = wanted
        BY <2>1 DEF WorkloadEvent, HPAEvent
      <3> QED BY <1>3, <3>1, <3>2, HPFrame, CHPFrame
    <2>2. ASSUME NEW w \in Workloads, EditWorkload(w) PROVE Inductive'
      BY <1>3, <2>2, EditWorkloadKeeps, WorkersGrow
    <2>3. CASE \/ \E w \in Workloads : AnnotateWorkload(w)
               \/ \E p \in Policies : WindowBoundary(p) \/ EditPolicy(p)
               \/ \E n \in Namespaces : AnnotateNamespace(n)
      BY <1>3, <2>3, OtherEditsKeep, HPFrame, CHPFrame
    <2> QED BY <1>3, <2>1, <2>2, <2>3 DEF Environment
  <1>4. CASE Crash
    BY <1>4, CrashKeeps
  <1>5. CASE UNCHANGED vars
    BY <1>5, ClusterFrame, HPFrame, CHPFrame DEF vars, clusterVars
  <1> QED BY <1>1, <1>2, <1>3, <1>4, <1>5 DEF Next

(* Inductive holds in every reachable state of Spec.                        *)
THEOREM AlwaysInductive == Spec => []Inductive
  <1>1. Init => Inductive
    BY InitInductive
  <1>2. Inductive /\ [Next]_vars => Inductive'
    BY NextInductive
  <1> QED BY <1>1, <1>2, PTL DEF Spec

(* Type correctness: each variable keeps its type, and a version about to   *)
(* be patched from is one of the workload at hand.                          *)
THEOREM TypeCorrect == Spec => []TypeOK
  <1>1. Inductive => TypeOK
    BY DEF Inductive, ClusterInv, HPInv, CHPInv, TypeOK
  <1> QED BY <1>1, AlwaysInductive, PTL

(* As long as users leave sleeping workloads alone, no interleaving of the  *)
(* two controllers, no stale cache, no failed call and no crash loses the   *)
(* original replica count or node selector of a workload.                   *)
THEOREM OriginalsAlwaysKept == ~NightEdits => (Spec => []OriginalsKept)
  <1> SUFFICES ASSUME ~NightEdits PROVE Spec => []OriginalsKept
    OBVIOUS
  <1>1. Inductive => OriginalsKept
    <2> SUFFICES ASSUME Inductive, NEW w \in Workloads, NEW i \in 1..Len(wl[w])
                 PROVE  KnowsOriginal(w, wl[w][i])
      BY DEF OriginalsKept
    <2>1. wl[w] \in Seq(SoundVersions(w))
      BY DEF Inductive, ClusterInv
    <2>2. wl[w][i] \in SoundVersions(w)
      BY <2>1
    <2> QED BY <2>2 DEF SoundVersions, Sound
  <1> QED BY <1>1, AlwaysInductive, PTL
=============================================================================
