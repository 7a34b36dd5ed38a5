-------------------------- MODULE RefinementProofs --------------------------
(***************************************************************************)
(* The proof that the hibernation controllers implement SleepAndWake.  A   *)
(* step changes what the API server holds of one workload at most, and     *)
(* what it then holds is sound (HibernationProofs): that is all a step of  *)
(* SleepAndWake asks for.                                                  *)
(***************************************************************************)
EXTENDS HibernationProofs

(* What the API server holds after a write is what was written ...          *)
LEMMA LiveWrite ==
    ASSUME NEW S, NEW log \in Seq(S), Len(log) >= 1, NEW v \in S
    PROVE  Live(Write(log, v)) = v
  BY LagAssumption DEF Live, Write

(* ... and a watch event does not change it.                                *)
LEMMA LiveTail ==
    ASSUME NEW S, NEW log \in Seq(S), Len(log) > 1
    PROVE  Live(Tail(log)) = Live(log)
  BY DEF Live

(* A step that leaves every live version alone, or one that rewrites the    *)
(* log of w alone.                                                          *)
Idles == wanted' = wanted /\ \A w \in Workloads : Live(wl'[w]) = Live(wl[w])
Rewrites(w) == wanted' = wanted /\ \A x \in Workloads \ {w} : wl'[x] = wl[x]

(* The HibernatePolicy controller rewrites one workload at a time.          *)
LEMMA HPOneAtATime ==
    ASSUME Inductive, HPNext
    PROVE  Idles \/ \E w \in Workloads : Rewrites(w)
  <1>1. CASE HPPatch \/ HPPatchFails
    <2>1. hp.w \in Workloads /\ wl = [w \in Workloads |-> wl[w]]
      BY <1>1 DEF Inductive, ClusterInv, ClusterTypeOK, HPInv, HPTypeOK, HPStates, HPPatch, HPPatchFails
    <2>2. UNCHANGED wl \/ PatchWorkload(hp.w, hp.snap[hp.w], HPDesired)
      BY <1>1 DEF HPPatch, HPPatchFails
    <2>3. wanted' = wanted
      BY <1>1 DEF HPPatch, HPPatchFails
    <2>4. Rewrites(hp.w)
      BY <2>1, <2>2, <2>3 DEF Rewrites, PatchWorkload
    <2> QED BY <2>1, <2>4
  <1>2. CASE ~(HPPatch \/ HPPatchFails)
    <2>1. UNCHANGED <<wl, wanted>>
      <3>1. ASSUME NEW p \in HPs, HPReconcile(p) PROVE UNCHANGED <<wl, wanted>>
        BY <3>1 DEF HPReconcile, clusterVars
      <3>2. ASSUME NEW k \in Kinds, hibernateWorkloadType(k) \/ wakeWorkloadType(k) \/ HPListFails(k)
            PROVE  UNCHANGED <<wl, wanted>>
        BY <3>2 DEF hibernateWorkloadType, wakeWorkloadType, HPList, HPListFails, clusterVars
      <3>3. ASSUME NEW w \in Workloads, HPWorkload(w) PROVE UNCHANGED <<wl, wanted>>
        BY <3>3 DEF HPWorkload, hibernateDeployments, hibernateStatefulSets, hibernateReplicaSets,
                    hibernateDaemonSets, wakeDeployments, wakeStatefulSets, wakeReplicaSets,
                    wakeDaemonSets, HPHibernateReplicas, HPWakeReplicas, clusterVars
      <3>4. ASSUME HPFindHPA \/ HPPatchHPA \/ HPPatchHPARejected \/ HPCallHPAFails
            PROVE  UNCHANGED <<wl, wanted>>
        BY <3>4 DEF HPFindHPA, HPPatchHPA, HPPatchHPARejected, HPCallHPAFails, clusterVars
      <3>5. ASSUME HPTypeDone \/ HPPatchStatus \/ HPPatchStatusFails PROVE UNCHANGED <<wl, wanted>>
        BY <3>5 DEF HPTypeDone, HPPatchStatus, HPPatchStatusFails, clusterVars
      <3> QED BY <1>2, <3>1, <3>2, <3>3, <3>4, <3>5 DEF HPNext, HPProgress, HPFailure
    <2> QED BY <2>1 DEF Idles
  <1> QED BY <1>1, <1>2

(* So does the ClusterHibernatePolicy controller.                           *)
LEMMA CHPOneAtATime ==
    ASSUME Inductive, CHPNext
    PROVE  Idles \/ \E w \in Workloads : Rewrites(w)
  <1>1. CASE CHPPatch \/ CHPPatchFails
    <2>1. chp.w \in Workloads /\ wl = [w \in Workloads |-> wl[w]]
      BY <1>1 DEF Inductive, ClusterInv, ClusterTypeOK, CHPInv, CHPTypeOK, CHPStates, CHPPatch, CHPPatchFails
    <2>2. UNCHANGED wl \/ PatchWorkload(chp.w, chp.base, CHPDesired)
      BY <1>1 DEF CHPPatch, CHPPatchFails
    <2>3. wanted' = wanted
      BY <1>1 DEF CHPPatch, CHPPatchFails
    <2>4. Rewrites(chp.w)
      BY <2>1, <2>2, <2>3 DEF Rewrites, PatchWorkload
    <2> QED BY <2>1, <2>4
  <1>2. CASE ~(CHPPatch \/ CHPPatchFails)
    <2>1. UNCHANGED <<wl, wanted>>
      <3>1. ASSUME NEW p \in CHPs, CHPReconcile(p) PROVE UNCHANGED <<wl, wanted>>
        BY <3>1 DEF CHPReconcile, clusterVars
      <3>2. ASSUME NEW w \in Workloads, hibernateWorkload(w) \/ wakeWorkload(w) \/ CHPGetFails(w)
            PROVE  UNCHANGED <<wl, wanted>>
        BY <3>2 DEF hibernateWorkload, wakeWorkload, CHPGetFails, clusterVars
      <3>3. ASSUME collectNamespaces \/ collectWorkloads \/ collectFails PROVE UNCHANGED <<wl, wanted>>
        BY <3>3 DEF collectNamespaces, collectWorkloads, collectFails, clusterVars
      <3>4. ASSUME CHPFindHPA \/ CHPPatchHPA \/ CHPPatchHPARejected \/ CHPCallHPAFails
            PROVE  UNCHANGED <<wl, wanted>>
        BY <3>4 DEF CHPFindHPA, CHPPatchHPA, CHPPatchHPARejected, CHPCallHPAFails, clusterVars
      <3>5. ASSUME CHPPatchStatus \/ CHPPatchStatusFails PROVE UNCHANGED <<wl, wanted>>
        BY <3>5 DEF CHPPatchStatus, CHPPatchStatusFails
      <3> QED BY <1>2, <3>1, <3>2, <3>3, <3>4, <3>5 DEF CHPNext, CHPProgress, CHPFailure
    <2> QED BY <2>1 DEF Idles
  <1> QED BY <1>1, <1>2

(* Events and restarts change the caches, other users' edits no workload.   *)
LEMMA OthersIdle ==
    ASSUME Inductive,
           \/ \E w \in Workloads : WorkloadEvent(w) \/ AnnotateWorkload(w)
           \/ \E w \in Autoscaled : HPAEvent(w)
           \/ \E p \in Policies : WindowBoundary(p) \/ EditPolicy(p)
           \/ \E n \in Namespaces : AnnotateNamespace(n)
           \/ Crash
    PROVE  Idles
  <1>1. /\ wl = [x \in Workloads |-> wl[x]]
        /\ \A x \in Workloads : wl[x] \in Seq(VersionsOf(x))
    BY DEF Inductive, ClusterInv, ClusterTypeOK
  <1>2. ASSUME NEW w \in Workloads, WorkloadEvent(w) PROVE Idles
    <2>1. wl' = [wl EXCEPT ![w] = Tail(wl[w])] /\ wanted' = wanted /\ Len(wl[w]) > 1
      BY <1>2 DEF WorkloadEvent
    <2>2. Live(Tail(wl[w])) = Live(wl[w])
      BY <1>1, <2>1, LiveTail
    <2>3. \A x \in Workloads : wl'[x] = IF x = w THEN Tail(wl[w]) ELSE wl[x]
      BY <1>1, <2>1
    <2> QED BY <2>1, <2>2, <2>3 DEF Idles
  <1>3. CASE Crash
    <2>1. wl' = [w \in Workloads |-> <<Live(wl[w])>>] /\ wanted' = wanted
      BY <1>3 DEF Crash
    <2>2. \A v : Live(<<v>>) = v
      BY DEF Live
    <2> QED BY <2>1, <2>2 DEF Idles
  <1>4. ASSUME NEW w \in Workloads, AnnotateWorkload(w) PROVE Idles
    BY <1>4 DEF AnnotateWorkload, Idles
  <1>5. ASSUME NEW w \in Autoscaled, HPAEvent(w) PROVE Idles
    BY <1>5 DEF HPAEvent, Idles
  <1>6. ASSUME NEW p \in Policies, WindowBoundary(p) \/ EditPolicy(p) PROVE Idles
    BY <1>6 DEF WindowBoundary, EditPolicy, Idles
  <1>7. ASSUME NEW n \in Namespaces, AnnotateNamespace(n) PROVE Idles
    BY <1>7 DEF AnnotateNamespace, Idles
  <1> QED BY <1>2, <1>3, <1>4, <1>5, <1>6, <1>7

-----------------------------------------------------------------------------
(* Steps of SleepAndWake *)

(* What the API server holds of a workload with replicas fits its state,    *)
(* and keeps a count that users asked for ...                               *)
LiveFits(w) ==
    /\ wanted[w] \subseteq Counts
    /\ Asleep[w] \in BOOLEAN
    /\ Runs[w] \in Nat
    /\ Kept[w] \in wanted[w] /\ Kept[w] \in Nat
    /\ IF Asleep[w] THEN Runs[w] < Kept[w] ELSE Runs[w] = Kept[w]

LivesFit == ~NightEdits => \A w \in Scalable : LiveFits(w)

(* ... which follows from the invariant (SoundVersions) ...                 *)
LEMMA AllFit == Inductive => LivesFit
  <1> SUFFICES ASSUME ~NightEdits, Inductive, NEW w \in Scalable PROVE LiveFits(w)
    BY DEF LivesFit
  <1>1. w \in Workloads /\ ~IsDaemonSet(w)
    BY DEF Scalable, DaemonSets
  <1>2. Live(wl[w]) \in VersionsOf(w) /\ Sound(w, Live(wl[w]))
    BY <1>1, LogEnds DEF Inductive, SoundVersions
  <1>3. wanted[w] \subseteq Counts
    BY <1>1 DEF Inductive, ClusterInv, ClusterTypeOK, UserSpecs
  <1>4. Asleep[w] \in BOOLEAN /\ Runs[w] \in Nat
    BY <1>1, <1>2 DEF VersionsOf, SpecsOf, Asleep, Runs
  <1>5. Kept[w] \in wanted[w] /\ Kept[w] \in Nat
    BY <1>1, <1>2, <1>3, ClusterAssumption DEF Kept, Sound, KnowsOriginal
  <1>6. IF Asleep[w] THEN Runs[w] < Kept[w] ELSE Runs[w] = Kept[w]
    BY <1>1, <1>2 DEF Kept, Asleep, Runs, Sound
  <1> QED BY <1>3, <1>4, <1>5, <1>6 DEF LiveFits

(* ... before a step and after it.                                          *)
LEMMA AllFitNext == Inductive' => LivesFit'
  BY AllFit, PTL

(* A step that leaves the live versions alone is a stutter.                 *)
LEMMA IdleStutters ==
    ASSUME Idles
    PROVE  UNCHANGED SW!vars
  BY DEF Idles, SW!vars, Scalable, Asked, Asleep, Runs, Kept

(* Rewriting one workload, whatever the patch carried, puts it to sleep,    *)
(* wakes it or sets it again.                                               *)
LEMMA RewriteActs ==
    ASSUME ~NightEdits, Inductive, Inductive', NEW w \in Workloads, Rewrites(w)
    PROVE  [SW!Next]_SW!vars
  <1>1. CASE w \in DaemonSets
    BY <1>1 DEF Rewrites, SW!vars, Scalable, Asked, Asleep, Runs, Kept
  <1>2. CASE w \in Scalable
    <2> DEFINE s == Live(wl'[w]).hib
               n == Live(wl'[w]).spec
               k == Kept'[w]
    <2>1. /\ k \in wanted'[w] /\ k \in Nat /\ n \in Nat /\ s \in BOOLEAN
          /\ IF s THEN n < k ELSE n = k
      <3>1. LiveFits(w)'
        BY <1>2, AllFitNext DEF LivesFit
      <3> QED BY <1>2, <3>1 DEF LiveFits, Scalable, Asleep, Runs
    <2>2. wanted'[w] = Asked[w]
      BY <1>2 DEF Rewrites, Asked
    <2>3. /\ Asleep' = [Asleep EXCEPT ![w] = s]
          /\ Runs' = [Runs EXCEPT ![w] = n]
          /\ Kept' = [Kept EXCEPT ![w] = k]
      BY <1>2 DEF Rewrites, Scalable, Asleep, Runs, Kept
    <2>4. Asked' = Asked
      BY DEF Rewrites, Scalable, Asked
    <2>5. SW!Becomes(w, s, n, k)
      BY <2>1, <2>3 DEF SW!Becomes, SW!Fits
    <2>6. n \in 0 .. k
      BY <2>1
    <2>7. SW!Act(w, s)
      BY <2>1, <2>2, <2>4, <2>5, <2>6 DEF SW!Act
    <2>8. Asleep[w] \in BOOLEAN
      BY <1>2, AllFit DEF LivesFit, LiveFits
    <2>9. SW!Sleep(w) \/ SW!Wake(w) \/ SW!Again(w)
      BY <2>1, <2>7, <2>8 DEF SW!Sleep, SW!Wake, SW!Again
    <2> QED BY <1>2, <2>9 DEF SW!Next
  <1> QED BY <1>1, <1>2 DEF Scalable

(* An edit of a workload that is awake asks for a count; that of a DaemonSet*)
(* is no step of SleepAndWake.                                              *)
LEMMA EditAsks ==
    ASSUME ~NightEdits, Inductive, NEW w \in Workloads, EditWorkload(w)
    PROVE  [SW!Next]_SW!vars
  <1>1. PICK r \in UserSpecs(w) :
          /\ wl' = [wl EXCEPT ![w] = Write(wl[w], [Live(wl[w]) EXCEPT !.spec = r])]
          /\ wanted' = [wanted EXCEPT ![w] = IF Live(wl[w]).hib THEN wanted[w]
                                             ELSE wanted[w] \cup {r}]
    BY DEF EditWorkload
  <1>2. ~Live(wl[w]).hib
    BY DEF EditWorkload
  <1>3. /\ wl = [x \in Workloads |-> wl[x]] /\ wanted = [x \in Workloads |-> wanted[x]]
        /\ wl[w] \in Seq(VersionsOf(w)) /\ Len(wl[w]) >= 1
    BY LagAssumption DEF Inductive, ClusterInv, ClusterTypeOK
  <1>4. CASE w \in DaemonSets
    BY <1>1, <1>3, <1>4 DEF SW!vars, Scalable, Asked, Asleep, Runs, Kept
  <1>5. CASE w \in Scalable
    <2> DEFINE v == [Live(wl[w]) EXCEPT !.spec = r]
    <2>1. r \in Counts /\ r \in Nat
      BY <1>5, ClusterAssumption DEF UserSpecs, Scalable, DaemonSets
    <2>2. Live(wl[w]) \in VersionsOf(w)
      BY <1>3, Ends
    <2>3. v \in VersionsOf(w) /\ ~v.hib /\ v.spec = r
      BY <1>2, <1>5, <2>1, <2>2 DEF VersionsOf, SpecsOf, Scalable, DaemonSets
    <2>4. Live(wl'[w]) = v
      <3>1. wl'[w] = Write(wl[w], v)
        BY <1>1, <1>3
      <3> HIDE DEF v
      <3> QED BY <1>3, <2>3, <3>1, LiveWrite
    <2>5. \A x \in Workloads \ {w} : wl'[x] = wl[x] /\ wanted'[x] = wanted[x]
      BY <1>1, <1>3
    <2>6. wanted'[w] = wanted[w] \cup {r}
      BY <1>1, <1>2, <1>3
    <2>7. /\ Asleep' = [Asleep EXCEPT ![w] = FALSE]
          /\ Runs' = [Runs EXCEPT ![w] = r]
          /\ Kept' = [Kept EXCEPT ![w] = r]
      <3> HIDE DEF v
      <3>1. Live(wl'[w]).hib = FALSE /\ Live(wl'[w]).spec = r
        BY <2>3, <2>4, <2>2 DEF VersionsOf
      <3> QED BY <1>5, <2>5, <3>1 DEF Scalable, Asleep, Runs, Kept
    <2>8. Asked' = [Asked EXCEPT ![w] = Asked[w] \cup {r}]
      BY <1>5, <2>5, <2>6 DEF Scalable, Asked
    <2>9. ~Asleep[w]
      BY <1>2, <1>5 DEF Asleep
    <2>10. SW!Ask(w)
      BY <2>1, <2>7, <2>8, <2>9 DEF SW!Ask, SW!Becomes, SW!Fits
    <2> QED BY <1>5, <2>10 DEF SW!Next
  <1> QED BY <1>4, <1>5 DEF Scalable

(* Every step of the controllers, the users, the caches and a crash is a    *)
(* step of SleepAndWake or a stutter.                                       *)
LEMMA NextRefines ==
    ASSUME ~NightEdits, Inductive, Inductive', [Next]_vars
    PROVE  [SW!Next]_SW!vars
  <1>1. ASSUME NEW w \in Workloads, EditWorkload(w) PROVE [SW!Next]_SW!vars
    BY <1>1, EditAsks
  <1>2. CASE Idles
    BY <1>2, IdleStutters
  <1>3. ASSUME NEW w \in Workloads, Rewrites(w) PROVE [SW!Next]_SW!vars
    BY <1>3, RewriteActs
  <1>4. CASE HPNext \/ CHPNext
    BY <1>2, <1>3, <1>4, HPOneAtATime, CHPOneAtATime
  <1>5. CASE Environment \/ Crash
    BY <1>1, <1>2, <1>5, OthersIdle DEF Environment
  <1>6. CASE UNCHANGED vars
    BY <1>2, <1>6 DEF vars, Idles
  <1> QED BY <1>4, <1>5, <1>6 DEF Next

(* Workloads as users made them, and those an older release put to sleep,   *)
(* are initial objects of SleepAndWake.                                     *)
LEMMA InitRefines ==
    ASSUME Init
    PROVE  SW!Init
  <1>1. PICK counts \in [Workloads \ DaemonSets -> Counts], selectors \in [DaemonSets -> SUBSET Labels] :
          LET first(w) == IF IsDaemonSet(w) THEN selectors[w] ELSE counts[w]
          IN  /\ \A w \in Legacy \ DaemonSets : counts[w] > 0
              /\ wl = [w \in Workloads |-> IF w \in Legacy THEN <<LegacyVersion(w, first(w))>>
                                                           ELSE <<AwakeVersion(first(w))>>]
              /\ wanted = [w \in Workloads |-> {first(w)}]
    BY DEF Init, ClusterInit
  <1>2. ASSUME NEW w \in Scalable
        PROVE  /\ wanted[w] = {counts[w]} /\ counts[w] \in Counts /\ counts[w] \in Nat
               /\ Live(wl[w]) = IF w \in Legacy THEN LegacyVersion(w, counts[w])
                                                 ELSE AwakeVersion(counts[w])
               /\ w \in Legacy => counts[w] > 0
               /\ ~IsDaemonSet(w)
    <2>1. w \in Workloads /\ ~IsDaemonSet(w)
      BY DEF Scalable, DaemonSets
    <2>2. wanted[w] = {counts[w]} /\ (w \in Legacy => counts[w] > 0)
      BY <1>1, <2>1 DEF DaemonSets
    <2>3. counts[w] \in Counts /\ counts[w] \in Nat
      BY ClusterAssumption DEF Scalable
    <2>4. wl[w] = IF w \in Legacy THEN <<LegacyVersion(w, counts[w])>>
                                   ELSE <<AwakeVersion(counts[w])>>
      BY <1>1, <2>1
    <2>5. \A v : Live(<<v>>) = v
      BY DEF Live
    <2> QED BY <2>1, <2>2, <2>3, <2>4, <2>5
  <1>3. ASSUME NEW w \in Scalable
        PROVE  /\ Asked[w] = {counts[w]} /\ Kept[w] = counts[w]
               /\ Asleep[w] \in BOOLEAN /\ Runs[w] \in Nat
               /\ IF Asleep[w] THEN Runs[w] < Kept[w] ELSE Runs[w] = Kept[w]
    <2>1. Asked[w] = {counts[w]}
      BY <1>2 DEF Asked
    <2>2. CASE w \in Legacy
      <3>1. Live(wl[w]).hib = TRUE /\ Live(wl[w]).spec = 0 /\ Live(wl[w]).orig = counts[w]
        <4>1. Live(wl[w]) = LegacyVersion(w, counts[w]) /\ ~IsDaemonSet(w)
          BY <1>2, <2>2
        <4> QED BY <4>1 DEF LegacyVersion
      <3>2. Asleep[w] = TRUE /\ Runs[w] = 0 /\ Kept[w] = counts[w]
        BY <3>1 DEF Kept, Asleep, Runs
      <3>3. counts[w] \in Nat /\ counts[w] > 0
        BY <1>2, <2>2
      <3>4. IF Asleep[w] THEN Runs[w] < Kept[w] ELSE Runs[w] = Kept[w]
        <4>1. Runs[w] < Kept[w]
          BY <3>2, <3>3
        <4>2. Asleep[w]
          BY <3>2
        <4> QED BY <4>1, <4>2
      <3>5. Runs[w] \in Nat
        BY <3>2
      <3>6. Asleep[w] \in BOOLEAN
        BY <3>2, Zenon
      <3> QED BY <2>1, <3>2, <3>4, <3>5, <3>6
    <2>3. CASE w \notin Legacy
      <3>1. Live(wl[w]).hib = FALSE /\ Live(wl[w]).spec = counts[w]
        <4>1. Live(wl[w]) = AwakeVersion(counts[w])
          BY <1>2, <2>3
        <4> QED BY <4>1 DEF AwakeVersion
      <3>2. Asleep[w] = FALSE /\ Runs[w] = counts[w] /\ Kept[w] = counts[w]
        BY <3>1 DEF Kept, Asleep, Runs
      <3> QED BY <1>2, <2>1, <2>3, <3>2
    <2> QED BY <2>2, <2>3
  <1>4. counts \in [Scalable -> Counts]
    BY DEF Scalable
  <1>5. /\ Kept = counts /\ Asked = [w \in Scalable |-> {counts[w]}]
        /\ Asleep \in [Scalable -> BOOLEAN] /\ Runs \in [Scalable -> Nat]
    <2>1. /\ Kept = [w \in Scalable |-> Kept[w]] /\ Asked = [w \in Scalable |-> Asked[w]]
          /\ Asleep = [w \in Scalable |-> Asleep[w]] /\ Runs = [w \in Scalable |-> Runs[w]]
      BY DEF Kept, Asked, Asleep, Runs
    <2> QED BY <1>3, <1>4, <2>1
  <1> QED BY <1>3, <1>4, <1>5 DEF SW!Init, SW!Fits

(* For any number of workloads and policies, any caps, any staleness of the *)
(* caches and any number of faults, the two controllers implement           *)
(* SleepAndWake as long as users leave sleeping workloads alone.            *)
THEOREM Refinement == ~NightEdits => (Spec => ImplementsSleepAndWake)
  <1> SUFFICES ASSUME ~NightEdits PROVE Spec => ImplementsSleepAndWake
    OBVIOUS
  <1>1. Init => SW!Init
    BY InitRefines
  <1>2. Inductive /\ Inductive' /\ [Next]_vars => [SW!Next]_SW!vars
    BY NextRefines
  <1> QED BY <1>1, <1>2, AlwaysInductive, PTL DEF Spec, ImplementsSleepAndWake, SW!Spec
=============================================================================
