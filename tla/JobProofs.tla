------------------------------ MODULE JobProofs -----------------------------
(***************************************************************************)
(* Proofs about the EnergyAwareCronJob controller, for any schedule, specs, *)
(* price feeds, history limits and interleaving.                           *)
(***************************************************************************)
EXTENDS EnergyAwareCronJob, SelectionProofs, FiniteSetTheorems

USE EACJAssumption, LagAssumption

-----------------------------------------------------------------------------
(* The parts of the state.                                                 *)

(* A write appends the version, and the cache keeps up.                    *)
LEMMA StoreKeeps ==
    ASSUME lag \in 0 .. MaxLag, NEW V, NEW log \in Seq(V), Len(log) \in 1 .. (lag + 1),
           NEW v \in V
    PROVE  /\ Store(log, v) \in Seq(V)
           /\ Len(Store(log, v)) \in 1 .. (lag + 1)
           /\ Live(Store(log, v)) = v
  <1> DEFINE stored == Write(log, v)
  <1>1. stored \in Seq(V) /\ Len(stored) \in 1 .. (lag + 2) /\ Live(stored) = v
    <2>1. CASE v = Live(log)
      BY <2>1 DEF Write, Live
    <2>2. CASE v # Live(log) /\ Len(log) <= MaxLag
      BY <2>2 DEF Write, Live
    <2>3. CASE v # Live(log) /\ ~(Len(log) <= MaxLag)
      BY <2>3 DEF Write, Live
    <2> QED BY <2>1, <2>2, <2>3
  <1>2. CASE Len(stored) > lag + 1
    BY <1>1, <1>2 DEF Store, Live
  <1>3. CASE ~(Len(stored) > lag + 1)
    BY <1>1, <1>3 DEF Store
  <1> QED BY <1>2, <1>3

LEMMA VersionsRead ==
    ASSUME NEW V, NEW log \in Seq(V), Len(log) >= 1
    PROVE  Live(log) \in V /\ Cached(log) \in V
  BY DEF Live, Cached

(* What a pass has read of the object and of the prices.                   *)
LEMMA Reads ==
    ASSUME TypeOK
    PROVE  /\ Live(eacj) \in ObjectVersions /\ Cached(eacj) \in ObjectVersions
           /\ Live(jobs) \in JobVersions /\ Cached(jobs) \in JobVersions
  BY VersionsRead DEF TypeOK

LEMMA SelectedTyped ==
    ASSUME TypeOK, At("sync"), Optimal
    PROVE  /\ SelectedPoint \in PricePoints
           /\ Occurrence <= SelectedPoint.at
  <1>1. WindowPrices \in Seq(PricePoints)
        /\ \A k \in DOMAIN WindowPrices : Occurrence <= WindowPrices[k].at
    BY FilterInWindow DEF TypeOK, Optimal, WindowPrices
  <1>2. PICK i \in DOMAIN WindowPrices : SelectedPoint = WindowPrices[i]
    BY <1>1, SelectsAPoint DEF SelectedPoint, Optimal
  <1> QED BY <1>1, <1>2

-----------------------------------------------------------------------------
(* Type correctness.                                                       *)

LEMMA LeaveTyped ==
    ASSUME TypeOK, run.pc \in {"sync", "dispatch"}, NEW v \in ObjectVersions, Leave(v),
           UNCHANGED <<now, eacj, jobs, prices, made, edits, faults, lag>>
    PROVE  TypeOK'
  BY DEF TypeOK, Leave

LEMMA DispatchTyped ==
    ASSUME TypeOK, At("sync"), NEW t \in 0 .. now, Dispatch(t),
           UNCHANGED <<now, eacj, jobs, prices, made, edits, faults, lag>>
    PROVE  TypeOK'
  <1>1. t \in Stamps /\ now \in Nat
    BY DEF TypeOK, Stamps, Times
  <1>2. run' = [run EXCEPT !.pc = "dispatch", !.at = t]
    BY DEF Dispatch
  <1>3. run.base \in ObjectVersions /\ run.list \in JobVersions
    BY DEF TypeOK, At
  <1> QED BY <1>1, <1>2, <1>3 DEF TypeOK

LEMMA DeleteTyped ==
    ASSUME TypeOK, run.pc \in {"sync", "dispatch"}, NEW t \in Times, DeleteJob(t),
           UNCHANGED lag
    PROVE  TypeOK'
  <1>1. NoJob \in [state : {"none", "active", "complete", "failed"}, start : Times]
    BY DEF NoJob, Times
  <1>2. [Live(jobs) EXCEPT ![t] = NoJob] \in JobVersions
    BY <1>1, Reads DEF JobVersions
  <1>3. jobs' \in Seq(JobVersions) /\ Len(jobs') \in 1 .. (lag + 1)
    BY <1>2, StoreKeeps DEF TypeOK, DeleteJob
  <1>4. run.list \in JobVersions
    BY DEF TypeOK
  <1>5. run' = [run EXCEPT !.list = [run.list EXCEPT ![t] = NoJob]]
    BY DEF DeleteJob
  <1>6. [run.list EXCEPT ![t] = NoJob] \in JobVersions
    BY <1>1, <1>4 DEF JobVersions
  <1> QED BY <1>3, <1>5, <1>6 DEF TypeOK, DeleteJob

LEMMA DecideTyped ==
    ASSUME TypeOK, UNCHANGED lag,
           \/ Suspended \/ FireStored \/ WaitStored \/ FailMissed \/ NotYet \/ ForbidSkip
           \/ FireNow \/ NoSource \/ NoPrices \/ NothingFits \/ FirePast \/ Persist
    PROVE  TypeOK'
  <1>1. /\ run.pc = "sync" /\ run.base \in ObjectVersions /\ now \in Nat
        /\ UNCHANGED <<now, eacj, jobs, prices, made, edits, faults>>
    BY DEF TypeOK, Suspended, FireStored, WaitStored, FailMissed, NotYet, ForbidSkip,
           FireNow, NoSource, NoPrices, NothingFits, FirePast, Persist, Deciding, At, Times
  <1>2. CASE \/ WaitStored \/ FailMissed \/ NotYet \/ NoSource \/ NoPrices \/ NothingFits
    BY <1>1, <1>2, LeaveTyped
       DEF WaitStored, FailMissed, NotYet, NoSource, NoPrices, NothingFits
  <1>3. CASE Suspended
    <2>1. [run.base EXCEPT !.next = None] \in ObjectVersions
      BY <1>1 DEF ObjectVersions, Stamps
    <2> QED BY <1>1, <1>3, <2>1, LeaveTyped DEF Suspended
  <1>4. CASE ForbidSkip
    <2>1. [run.base EXCEPT !.last = now] \in ObjectVersions
      BY <1>1 DEF ObjectVersions
    <2> QED BY <1>1, <1>4, <2>1, LeaveTyped DEF ForbidSkip
  <1>5. CASE Persist
    <2>1. SelectedPoint.at \in Nat
      BY <1>1, <1>5, SelectedTyped DEF Persist, At, PricePoints
    <2>2. [run.base EXCEPT !.next = SelectedPoint.at] \in ObjectVersions
      BY <1>1, <2>1 DEF ObjectVersions, Stamps
    <2> QED BY <1>1, <1>5, <2>2, LeaveTyped DEF Persist
  <1>6. CASE FireNow \/ FirePast
    <2>1. now \in 0 .. now
      BY <1>1
    <2> QED BY <1>1, <1>6, <2>1, DispatchTyped DEF FireNow, FirePast, At
  <1>7. CASE FireStored
    <2>1. run.base.next \in 0 .. now
      BY <1>1, <1>7 DEF FireStored, Stored, ObjectVersions, Stamps
    <2> QED BY <1>1, <1>7, <2>1, DispatchTyped DEF FireStored, At
  <1> QED BY <1>2, <1>3, <1>4, <1>5, <1>6, <1>7

LEMMA CreateTyped ==
    ASSUME TypeOK, CreateJob, UNCHANGED lag
    PROVE  TypeOK'
  <1>1. /\ run.pc = "dispatch" /\ run.base \in ObjectVersions /\ now \in Nat
        /\ run.at \in 0 .. now /\ run.at \in Times
    BY DEF TypeOK, CreateJob, At, Times
  <1>2. Dispatched(run.base, run.at) \in ObjectVersions
    <2>1. run.at \in Nat
      BY <1>1
    <2> QED BY <1>1, <2>1 DEF Dispatched, ObjectVersions, Stamps
  <1>3. jobs' \in Seq(JobVersions) /\ Len(jobs') \in 1 .. (lag + 1)
    <2>1. buildJob \in [state : {"none", "active", "complete", "failed"}, start : Times]
      BY DEF buildJob, TypeOK
    <2>2. [Live(jobs) EXCEPT ![run.at] = buildJob] \in JobVersions
      BY <2>1, Reads DEF JobVersions
    <2>3. CASE Live(jobs)[run.at].state = "none"
      BY <2>2, <2>3, StoreKeeps DEF CreateJob, TypeOK
    <2>4. CASE Live(jobs)[run.at].state # "none"
      BY <2>4 DEF CreateJob, TypeOK
    <2> QED BY <2>3, <2>4
  <1>4. made' \in [Times -> 0 .. 2]
    <2>1. made[run.at] \in 0 .. 2
      BY <1>1 DEF TypeOK
    <2>2. CASE Live(jobs)[run.at].state = "none"
      <3>1. made' = [made EXCEPT ![run.at] = IF made[run.at] < 2 THEN made[run.at] + 1 ELSE made[run.at]]
        BY <2>2 DEF CreateJob
      <3> QED BY <1>1, <2>1, <3>1 DEF TypeOK
    <2>3. CASE Live(jobs)[run.at].state # "none"
      BY <2>3 DEF CreateJob, TypeOK
    <2> QED BY <2>2, <2>3
  <1>5. run' = [run EXCEPT !.pc = "patch", !.mod = Dispatched(run.base, run.at)]
        /\ UNCHANGED <<now, eacj, prices, edits, faults>>
    BY DEF CreateJob, Leave
  <1> QED BY <1>1, <1>2, <1>3, <1>4, <1>5 DEF TypeOK

LEMMA PatchTyped ==
    ASSUME TypeOK, PatchStatus, UNCHANGED lag
    PROVE  TypeOK'
  <1>1. /\ run.base \in ObjectVersions /\ run.mod \in ObjectVersions
        /\ Live(eacj) \in ObjectVersions
    BY Reads DEF TypeOK, PatchStatus, At
  <1> DEFINE live == Live(eacj)
             v == [live EXCEPT !.last = Merge(live.last, run.base.last, run.mod.last),
                               !.next = Merge(live.next, run.base.next, run.mod.next)]
  <1>2. v \in ObjectVersions
    BY <1>1 DEF ObjectVersions, Merge
  <1>3. eacj' = Store(eacj, v) /\ run' = Idle /\ UNCHANGED <<now, jobs, prices, made, edits, faults>>
    BY DEF PatchStatus
  <1>4. eacj' \in Seq(ObjectVersions) /\ Len(eacj') \in 1 .. (lag + 1)
    <2> HIDE DEF v
    <2> QED BY <1>2, <1>3, StoreKeeps DEF TypeOK
  <1> QED BY <1>3, <1>4 DEF TypeOK, Idle, Stamps

LEMMA PassTyped ==
    ASSUME TypeOK, PassStep, UNCHANGED lag
    PROVE  TypeOK'
  <1>1. CASE Reconcile
    <2>1. /\ run' = [pc |-> "list", base |-> Cached(eacj), list |-> None, at |-> None, mod |-> None]
          /\ UNCHANGED <<now, eacj, jobs, prices, made, edits, faults>>
      BY <1>1 DEF Reconcile, Idle
    <2>2. Cached(eacj) \in ObjectVersions
      BY Reads
    <2> QED BY <2>1, <2>2 DEF TypeOK, Stamps
  <1>2. CASE ListJobs
    <2>1. /\ run' = [run EXCEPT !.pc = "sync", !.list = Cached(jobs)]
          /\ UNCHANGED <<now, eacj, jobs, prices, made, edits, faults>>
          /\ run.pc = "list"
      BY <1>2 DEF ListJobs, At
    <2>2. Cached(jobs) \in JobVersions
      BY Reads
    <2> QED BY <2>1, <2>2 DEF TypeOK
  <1>3. CASE PruneSuccessful \/ PruneFailed \/ ReplaceActive
    BY <1>3, DeleteTyped DEF PruneSuccessful, PruneFailed, ReplaceActive, Oldest, JobsIn, At
  <1>4. CASE CreateJob
    BY <1>4, CreateTyped
  <1>5. CASE PatchStatus
    BY <1>5, PatchTyped
  <1> QED BY <1>1, <1>2, <1>3, <1>4, <1>5, DecideTyped DEF PassStep

LEMMA EventsTyped ==
    ASSUME TypeOK, UNCHANGED lag,
           Abort \/ Tick \/ JobFinishes \/ Refresh \/ Edit \/ ObjectEvent \/ JobEvent
    PROVE  TypeOK'
  <1>1. CASE Abort
    BY <1>1 DEF Abort, TypeOK, Idle, Stamps
  <1>2. CASE Tick
    <2>1. now' \in Times /\ \A t \in 0 .. now : t \in 0 .. now'
      BY <1>2 DEF Tick, TypeOK, Times
    <2> QED BY <1>2, <2>1 DEF Tick, TypeOK
  <1>3. CASE JobFinishes
    <2>1. PICK t \in JobsIn(Live(jobs), "active"), s \in {"complete", "failed"} :
             jobs' = Store(jobs, [Live(jobs) EXCEPT ![t].state = s])
      BY <1>3 DEF JobFinishes
    <2> DEFINE v == [Live(jobs) EXCEPT ![t] = [Live(jobs)[t] EXCEPT !.state = s]]
    <2>2. v \in JobVersions
      BY Reads DEF JobVersions, JobsIn
    <2>3. jobs' = Store(jobs, v)
      BY <2>1
    <2>4. jobs' \in Seq(JobVersions) /\ Len(jobs') \in 1 .. (lag + 1)
      <3> HIDE DEF v
      <3> QED BY <2>2, <2>3, StoreKeeps DEF TypeOK
    <2> QED BY <1>3, <2>4 DEF JobFinishes, TypeOK
  <1>4. CASE Refresh
    <2>1. PICK feed \in Feeds :
             prices' = [i \in DOMAIN feed |->
                           [feed[i] EXCEPT !.at = feed[i].at + (now \div Day) * Day]]
      BY <1>4 DEF Refresh
    <2> DEFINE midnight == (now \div Day) * Day
    <2>2. midnight \in Nat
      <3>1. now \in Nat /\ Day \in Nat \ {0}
        BY DEF TypeOK, Times
      <3>2. now \div Day \in Nat
        BY <3>1
      <3>3. \A a, b \in Nat : a * b \in Nat
        OBVIOUS
      <3> QED BY <3>1, <3>2, <3>3
    <2> HIDE DEF midnight
    <2>3. prices' \in Seq(PricePoints)
      <3>1. feed \in Seq(PricePoints)
        OBVIOUS
      <3>2. prices' = [i \in 1 .. Len(feed) |-> [feed[i] EXCEPT !.at = feed[i].at + midnight]]
        BY <2>1, <3>1 DEF midnight
      <3>3. ASSUME NEW i \in 1 .. Len(feed)
            PROVE  [feed[i] EXCEPT !.at = feed[i].at + midnight] \in PricePoints
        <4>1. feed[i] \in PricePoints
          BY <3>1
        <4>2. ASSUME NEW p \in PricePoints, NEW a \in Nat
              PROVE  [p EXCEPT !.at = a] \in PricePoints
          BY DEF PricePoints
        <4>3. feed[i].at + midnight \in Nat
          BY <2>2, <4>1 DEF PricePoints
        <4> QED BY <4>1, <4>2, <4>3
      <3>4. Len(feed) \in Nat
        BY <3>1
      <3> QED BY <3>2, <3>3, <3>4
    <2> QED BY <1>4, <2>3 DEF Refresh, TypeOK
  <1>5. CASE Edit
    <2>1. PICK s \in Specs : eacj' = Store(eacj, [Live(eacj) EXCEPT !.spec = s])
      BY <1>5 DEF Edit
    <2>2. [Live(eacj) EXCEPT !.spec = s] \in ObjectVersions
      BY Reads DEF ObjectVersions
    <2>3. eacj' \in Seq(ObjectVersions) /\ Len(eacj') \in 1 .. (lag + 1)
      BY <2>1, <2>2, StoreKeeps DEF TypeOK
    <2>4. edits' \in 0 .. MaxEdits /\ UNCHANGED <<now, jobs, prices, run, made, faults>>
      BY <1>5 DEF Edit, TypeOK
    <2> QED BY <2>3, <2>4 DEF TypeOK
  <1>6. CASE ObjectEvent
    BY <1>6 DEF ObjectEvent, TypeOK
  <1>7. CASE JobEvent
    BY <1>7 DEF JobEvent, TypeOK
  <1> QED BY <1>1, <1>2, <1>3, <1>4, <1>5, <1>6, <1>7

LEMMA InitTyped ==
    ASSUME Init
    PROVE  TypeOK
  <1>1. now \in Times /\ lag \in 0 .. MaxLag
    BY DEF Init
  <1>2. PICK s \in Specs : eacj = <<[spec |-> s, last |-> now, next |-> None]>>
    BY DEF Init
  <1>3. [spec |-> s, last |-> now, next |-> None] \in ObjectVersions
    BY <1>1 DEF ObjectVersions, Stamps, Times
  <1>4. eacj \in Seq(ObjectVersions) /\ Len(eacj) = 1
    BY <1>2, <1>3
  <1>5. [t \in Times |-> NoJob] \in JobVersions
    BY DEF JobVersions, NoJob, Times
  <1>6. jobs \in Seq(JobVersions) /\ Len(jobs) = 1
    BY <1>5 DEF Init
  <1> QED BY <1>1, <1>4, <1>6 DEF Init, TypeOK, Idle, Stamps

(* The controller keeps its types, and a pass its local variables: a pass   *)
(* that dispatches has listed the Jobs and its time has come, one that      *)
(* patches has a status to write (Reconcile, dispatchJob).                  *)
THEOREM TypesKept == Spec => []TypeOK
  <1>1. Init => TypeOK
    BY InitTyped
  <1>2. TypeOK /\ [Next /\ UNCHANGED lag]_<<vars, lag>> => TypeOK'
    <2> SUFFICES ASSUME TypeOK, [Next /\ UNCHANGED lag]_<<vars, lag>> PROVE TypeOK'
      OBVIOUS
    <2>1. CASE Next /\ UNCHANGED lag
      BY <2>1, PassTyped, EventsTyped DEF Next
    <2>2. CASE UNCHANGED <<vars, lag>>
      BY <2>2 DEF vars, TypeOK
    <2> QED BY <2>1, <2>2
  <1> QED BY <1>1, <1>2, PTL DEF Spec

-----------------------------------------------------------------------------
(* One Job for each occurrence.                                            *)

(* An occurrence of the schedule lies between the times s and t.           *)
Follows(s, t) == \E f \in Fires : s < f /\ f <= t

(* The lastScheduleTime that is stored once the pass has ended.            *)
Recorded == IF run.pc = "patch" THEN run.mod.last ELSE Live(eacj).last

(* Every stored, chosen or dispatched time comes after an occurrence that   *)
(* comes after lastScheduleTime, and every Job's time is recorded there.    *)
OnceInv ==
    /\ Live(eacj).last <= now
    /\ Live(eacj).next # None => Follows(Live(eacj).last, Live(eacj).next)
    /\ run.pc # "idle" => /\ run.base.last = Live(eacj).last
                          /\ run.base.next = Live(eacj).next
    /\ run.pc = "dispatch" => Follows(run.base.last, run.at)
    /\ run.pc = "patch" =>
          /\ run.base.last <= run.mod.last /\ run.mod.last <= now
          /\ run.mod.next # None => Follows(run.mod.last, run.mod.next)
    /\ \A t \in Times : made[t] # 0 => made[t] = 1 /\ t <= Recorded
    /\ \A t, u \in Times : made[t] # 0 /\ made[u] # 0 /\ t < u => Follows(t, u)

(* A cache that may not be behind holds what the API server holds.         *)
LEMMA CacheInStep ==
    ASSUME TypeOK, lag = 0
    PROVE  /\ Cached(eacj) = Live(eacj) /\ Len(eacj) = 1
           /\ Cached(jobs) = Live(jobs) /\ Len(jobs) = 1
  <1>1. ASSUME NEW V, NEW log \in Seq(V), Len(log) = 1 PROVE Head(log) = log[1]
    BY <1>1
  <1>2. Len(eacj) = 1 /\ Len(jobs) = 1
    BY DEF TypeOK
  <1> QED BY <1>1, <1>2 DEF TypeOK, Cached, Live

(* nextScheduleTime finds an occurrence after the last one.                *)
LEMMA OccurrenceComes ==
    ASSUME TypeOK, At("sync"), run.base.last <= now
    PROVE  Occurrence \in Fires /\ Occurrence \in Nat /\ run.base.last < Occurrence
  <1> DEFINE T == {f \in Fires : f > run.base.last} \ Missed(run.base, now)
  <1>1. run.base \in ObjectVersions /\ now \in Nat /\ now <= MaxTime
    BY DEF TypeOK, At, Times
  <1>2. PICK f \in Fires : f > MaxTime
    OBVIOUS
  <1>3. f \in T
    <2>1. run.base.last \in Nat /\ run.base.spec.deadline \in Nat \cup {None} /\ f \in Nat
      BY <1>1 DEF ObjectVersions
    <2> QED BY <1>1, <1>2, <2>1 DEF Missed
  <1>4. T \subseteq Nat /\ T # {}
    BY <1>3
  <1>5. Min(T) \in T
    <2> HIDE DEF T
    <2> QED BY <1>4, LeastNumber DEF Min
  <1>6. Occurrence = Min(T)
    BY DEF Occurrence, nextScheduleTime
  <1> QED BY <1>4, <1>5, <1>6

LEMMA LeaveOnce ==
    ASSUME TypeOK, OnceInv, At("sync"), NEW v \in ObjectVersions, Leave(v),
           UNCHANGED <<now, eacj, made>>,
           run.base.last <= v.last, v.last <= now, v.next # None => Follows(v.last, v.next)
    PROVE  OnceInv'
  <1>1. /\ run'.pc = "patch" /\ run'.mod = v /\ run'.base = run.base
        /\ run.pc = "sync"
    BY DEF Leave, TypeOK, At
  <1>2. /\ run.base.last = Live(eacj).last /\ run.base.next = Live(eacj).next
        /\ Live(eacj).last \in Nat /\ v.last \in Nat
    BY <1>1, Reads DEF OnceInv, ObjectVersions
  <1>3. \A t \in Times : made[t] # 0 => made[t] = 1 /\ t <= v.last
    BY <1>1, <1>2 DEF OnceInv, Recorded, Times
  <1>4. Recorded' = v.last
    BY <1>1 DEF Recorded
  <1> QED BY <1>1, <1>2, <1>3, <1>4 DEF OnceInv, Follows

LEMMA DispatchOnce ==
    ASSUME TypeOK, OnceInv, At("sync"), NEW t, Dispatch(t), UNCHANGED <<now, eacj, made>>,
           Follows(run.base.last, t)
    PROVE  OnceInv'
  <1>1. /\ run'.pc = "dispatch" /\ run'.at = t /\ run'.base = run.base
        /\ run.pc = "sync"
    BY DEF Dispatch, TypeOK, At
  <1>2. Recorded' = Recorded
    BY <1>1 DEF Recorded
  <1> QED BY <1>1, <1>2 DEF OnceInv, Follows

LEMMA DecideOnce ==
    ASSUME TypeOK, OnceInv, UNCHANGED lag,
           \/ Suspended \/ FireStored \/ WaitStored \/ FailMissed \/ NotYet \/ ForbidSkip
           \/ FireNow \/ NoSource \/ NoPrices \/ NothingFits \/ FirePast \/ Persist
    PROVE  OnceInv'
  <1>1. /\ At("sync") /\ run.pc = "sync" /\ run.base \in ObjectVersions /\ now \in Nat
        /\ UNCHANGED <<now, eacj, made>>
    BY DEF TypeOK, Suspended, FireStored, WaitStored, FailMissed, NotYet, ForbidSkip,
           FireNow, NoSource, NoPrices, NothingFits, FirePast, Persist, Deciding, At, Times
  <1>2. /\ run.base.last \in Nat /\ run.base.last <= now
        /\ run.base.next # None => Follows(run.base.last, run.base.next)
    BY <1>1 DEF OnceInv, ObjectVersions
  <1>3. Occurrence \in Fires /\ Occurrence \in Nat /\ run.base.last < Occurrence
    BY <1>1, <1>2, OccurrenceComes
  <1>4. CASE \/ WaitStored \/ FailMissed \/ NotYet \/ NoSource \/ NoPrices \/ NothingFits
    <2>1. Leave(run.base)
      BY <1>4 DEF WaitStored, FailMissed, NotYet, NoSource, NoPrices, NothingFits
    <2> QED BY <1>1, <1>2, <2>1, LeaveOnce
  <1>5. CASE Suspended
    <2> DEFINE v == [run.base EXCEPT !.next = None]
    <2>1. v \in ObjectVersions /\ v.last = run.base.last /\ v.next = None
      BY <1>1 DEF ObjectVersions, Stamps
    <2>2. Leave(v)
      BY <1>5 DEF Suspended
    <2> HIDE DEF v
    <2> QED BY <1>1, <1>2, <2>1, <2>2, LeaveOnce
  <1>6. CASE ForbidSkip
    <2> DEFINE v == [run.base EXCEPT !.last = now]
    <2>1. v \in ObjectVersions /\ v.last = now /\ v.next = run.base.next
      BY <1>1 DEF ObjectVersions
    <2>2. Leave(v) /\ run.base.next = None
      BY <1>6 DEF ForbidSkip, Due, Unscheduled
    <2> HIDE DEF v
    <2> QED BY <1>1, <1>2, <2>1, <2>2, LeaveOnce
  <1>7. CASE Persist
    <2> DEFINE v == [run.base EXCEPT !.next = SelectedPoint.at]
    <2>1. SelectedPoint.at \in Nat /\ Occurrence <= SelectedPoint.at
      BY <1>1, <1>7, SelectedTyped DEF Persist, PricePoints
    <2>2. v \in ObjectVersions /\ v.last = run.base.last /\ v.next = SelectedPoint.at
      BY <1>1, <2>1 DEF ObjectVersions, Stamps
    <2>3. Follows(v.last, v.next)
      BY <1>3, <2>1, <2>2 DEF Follows
    <2>4. Leave(v)
      BY <1>7 DEF Persist
    <2> HIDE DEF v
    <2> QED BY <1>1, <1>2, <2>2, <2>3, <2>4, LeaveOnce
  <1>8. CASE FireNow \/ FirePast
    <2>1. Occurrence <= now /\ Dispatch(now)
      BY <1>8 DEF FireNow, FirePast, Windowed, Due
    <2>2. Follows(run.base.last, now)
      BY <1>3, <2>1 DEF Follows
    <2> QED BY <1>1, <2>1, <2>2, DispatchOnce
  <1>9. CASE FireStored
    BY <1>1, <1>2, <1>9, DispatchOnce DEF FireStored, Stored
  <1> QED BY <1>4, <1>5, <1>6, <1>7, <1>8, <1>9

(* A new Job's time is later than every recorded one.                      *)
LEMMA CreateOnce ==
    ASSUME TypeOK, OnceInv, CreateJob, UNCHANGED lag
    PROVE  OnceInv'
  <1>1. /\ run.pc = "dispatch" /\ run.base \in ObjectVersions /\ now \in Nat
        /\ run.at \in Times /\ run.at <= now
        /\ UNCHANGED <<now, eacj>>
    BY DEF TypeOK, CreateJob, At, Times
  <1>2. /\ run'.pc = "patch" /\ run'.base = run.base
        /\ run'.mod = Dispatched(run.base, run.at)
    BY DEF CreateJob, Leave, TypeOK
  <1>3. run'.mod.last = run.at /\ run'.mod.next = None
    BY <1>1, <1>2 DEF Dispatched, ObjectVersions
  <1>4. PICK f \in Fires : run.base.last < f /\ f <= run.at
    BY <1>1 DEF OnceInv, Follows
  <1>5. /\ run.base.last = Live(eacj).last /\ run.base.last \in Nat
        /\ \A t \in Times : made[t] # 0 => made[t] = 1 /\ t <= run.base.last
    BY <1>1 DEF OnceInv, Recorded, ObjectVersions
  <1>6. f \in Nat /\ run.base.last < run.at
    <2>1. f \in Nat /\ run.at \in Nat
      BY <1>1 DEF Times
    <2> QED BY <1>4, <1>5, <2>1
  <1>7. made[run.at] = 0
    BY <1>1, <1>5, <1>6 DEF Times
  <1>8. \A t \in Times :
           made'[t] # 0 => (made[t] # 0 /\ made'[t] = made[t]) \/ (t = run.at /\ made'[t] = 1)
    <2>1. CASE Live(jobs)[run.at].state = "none"
      <3>1. made' = [made EXCEPT ![run.at] = 1]
        BY <1>7, <2>1 DEF CreateJob
      <3> QED BY <3>1, <1>1 DEF TypeOK
    <2>2. CASE Live(jobs)[run.at].state # "none"
      BY <2>2 DEF CreateJob
    <2> QED BY <2>1, <2>2
  <1>9. \A t \in Times : made'[t] # 0 => made'[t] = 1 /\ t <= run.at
    BY <1>1, <1>5, <1>6, <1>8 DEF Times
  <1>10. ASSUME NEW t \in Times, NEW u \in Times, made'[t] # 0, made'[u] # 0, t < u
         PROVE  Follows(t, u)
    <2>1. CASE made[t] # 0 /\ made[u] # 0
      BY <1>10, <2>1 DEF OnceInv
    <2>2. CASE made[t] # 0 /\ u = run.at
      <3>1. t <= run.base.last /\ t \in Nat
        BY <1>5, <2>2 DEF Times
      <3>2. t < f
        BY <1>4, <1>5, <1>6, <3>1
      <3> QED BY <1>4, <2>2, <3>2 DEF Follows
    <2>3. CASE t = run.at
      BY <1>1, <1>9, <1>10, <2>3 DEF Times
    <2> QED BY <1>8, <1>10, <2>1, <2>2, <2>3
  <1>11. Recorded' = run.at
    BY <1>2, <1>3 DEF Recorded
  <1>12. /\ Live(eacj)'.last <= now'
         /\ Live(eacj)'.next # None => Follows(Live(eacj).last, Live(eacj).next)'
         /\ run'.base.last = Live(eacj)'.last /\ run'.base.next = Live(eacj)'.next
    BY <1>1, <1>2 DEF OnceInv, Follows
  <1>13. run'.base.last <= run'.mod.last /\ run'.mod.last <= now'
    BY <1>1, <1>2, <1>3, <1>5, <1>6 DEF Times
  <1>14. \A t, u \in Times : made'[t] # 0 /\ made'[u] # 0 /\ t < u => Follows(t, u)'
    BY <1>10 DEF Follows
  <1> QED BY <1>2, <1>3, <1>9, <1>11, <1>12, <1>13, <1>14 DEF OnceInv

(* The patch stores what the pass decided, since nobody else writes it.    *)
LEMMA PatchOnce ==
    ASSUME TypeOK, OnceInv, PatchStatus, UNCHANGED lag
    PROVE  OnceInv'
  <1> DEFINE live == Live(eacj)
             v == [live EXCEPT !.last = Merge(live.last, run.base.last, run.mod.last),
                               !.next = Merge(live.next, run.base.next, run.mod.next)]
  <1>1. /\ run.pc = "patch" /\ live \in ObjectVersions
        /\ run.mod \in ObjectVersions /\ run.base \in ObjectVersions
    BY Reads DEF TypeOK, PatchStatus, At
  <1>2. eacj' = Store(eacj, v) /\ run' = Idle /\ UNCHANGED <<now, made>>
    BY DEF PatchStatus
  <1>3. v \in ObjectVersions /\ v.last = run.mod.last /\ v.next = run.mod.next
    BY <1>1 DEF ObjectVersions, Merge, OnceInv
  <1>4. Live(eacj') = v
    <2> HIDE DEF v
    <2> QED BY <1>2, <1>3, StoreKeeps DEF TypeOK
  <1>5. run'.pc = "idle"
    BY <1>2 DEF Idle
  <1> HIDE DEF v, live
  <1>6. Recorded' = Recorded
    BY <1>1, <1>3, <1>4, <1>5 DEF Recorded
  <1>7. v.last <= now /\ (v.next # None => Follows(v.last, v.next))
    BY <1>1, <1>3 DEF OnceInv
  <1>8. \A t \in Times : made[t] # 0 => made[t] = 1 /\ t <= Recorded
    BY DEF OnceInv
  <1>9. \A t, u \in Times : made[t] # 0 /\ made[u] # 0 /\ t < u => Follows(t, u)
    BY DEF OnceInv
  <1> QED BY <1>2, <1>4, <1>5, <1>6, <1>7, <1>8, <1>9 DEF OnceInv, Follows

LEMMA PassOnce ==
    ASSUME TypeOK, OnceInv, PassStep, UNCHANGED lag, lag = 0
    PROVE  OnceInv'
  <1>1. CASE Reconcile
    <2>1. /\ run'.pc = "list" /\ run'.base = Cached(eacj) /\ run.pc = "idle"
          /\ UNCHANGED <<now, eacj, made>>
      BY <1>1 DEF Reconcile, Idle, At
    <2>2. Cached(eacj) = Live(eacj)
      BY CacheInStep
    <2> QED BY <2>1, <2>2 DEF OnceInv, Follows, Recorded
  <1>2. CASE ListJobs
    <2>1. /\ run'.pc = "sync" /\ run'.base = run.base /\ run.pc = "list"
          /\ UNCHANGED <<now, eacj, made>>
      BY <1>2 DEF ListJobs, At, TypeOK
    <2> QED BY <2>1 DEF OnceInv, Follows, Recorded
  <1>3. CASE PruneSuccessful \/ PruneFailed \/ ReplaceActive
    <2>1. PICK t : DeleteJob(t)
      BY <1>3 DEF PruneSuccessful, PruneFailed, ReplaceActive
    <2>2. run' = [run EXCEPT !.list = [run.list EXCEPT ![t] = NoJob]]
          /\ UNCHANGED <<now, eacj, made>>
      BY <2>1 DEF DeleteJob
    <2>3. /\ run'.pc = run.pc /\ run'.base = run.base /\ run'.at = run.at
          /\ run'.mod = run.mod
      BY <2>2 DEF TypeOK
    <2> QED BY <2>2, <2>3 DEF OnceInv, Follows, Recorded
  <1>4. CASE CreateJob
    BY <1>4, CreateOnce
  <1>5. CASE PatchStatus
    BY <1>5, PatchOnce
  <1> QED BY <1>1, <1>2, <1>3, <1>4, <1>5, DecideOnce DEF PassStep

LEMMA EventsOnce ==
    ASSUME TypeOK, OnceInv, UNCHANGED lag, lag = 0,
           Tick \/ JobFinishes \/ Refresh \/ Edit \/ ObjectEvent \/ JobEvent
    PROVE  OnceInv'
  <1>1. CASE Tick
    <2>1. now \in Nat /\ now' = now + 1 /\ UNCHANGED <<eacj, run, made>>
      BY <1>1 DEF Tick, TypeOK, Times
    <2>2. Live(eacj).last \in Nat /\ (run.pc = "patch" => run.mod.last \in Nat)
      BY Reads DEF ObjectVersions, TypeOK
    <2> QED BY <2>1, <2>2 DEF OnceInv, Follows, Recorded
  <1>2. CASE JobFinishes \/ Refresh \/ JobEvent
    BY <1>2 DEF JobFinishes, Refresh, JobEvent, OnceInv, Follows, Recorded
  <1>3. CASE Edit
    <2>1. PICK s \in Specs : eacj' = Store(eacj, [Live(eacj) EXCEPT !.spec = s])
      BY <1>3 DEF Edit
    <2> DEFINE v == [Live(eacj) EXCEPT !.spec = s]
    <2>2. v \in ObjectVersions /\ v.last = Live(eacj).last /\ v.next = Live(eacj).next
      BY Reads DEF ObjectVersions
    <2>3. Live(eacj') = v
      <3> HIDE DEF v
      <3>1. eacj' = Store(eacj, v)
        BY <2>1 DEF v
      <3> QED BY <2>2, <3>1, StoreKeeps DEF TypeOK
    <2>4. UNCHANGED <<now, run, made>>
      BY <1>3 DEF Edit
    <2> HIDE DEF v
    <2> QED BY <2>2, <2>3, <2>4 DEF OnceInv, Follows, Recorded
  <1>4. CASE ObjectEvent
    <2>1. Len(eacj) = 1
      BY CacheInStep
    <2>2. Len(eacj) > 1
      BY <1>4 DEF ObjectEvent
    <2> QED BY <2>1, <2>2
  <1> QED BY <1>1, <1>2, <1>3, <1>4

(* Only Abort is a fault.                                                  *)
LEMMA PassFaultless ==
    ASSUME PassStep
    PROVE  UNCHANGED <<edits, faults>>
  <1>1. CASE PruneSuccessful \/ PruneFailed \/ ReplaceActive
    BY <1>1 DEF PruneSuccessful, PruneFailed, ReplaceActive, DeleteJob
  <1>2. CASE \/ Suspended \/ FireStored \/ WaitStored \/ FailMissed \/ NotYet \/ ForbidSkip
             \/ FireNow \/ NoSource \/ NoPrices \/ NothingFits \/ FirePast \/ Persist
    BY <1>2 DEF Suspended, FireStored, WaitStored, FailMissed, NotYet, ForbidSkip, FireNow,
                NoSource, NoPrices, NothingFits, FirePast, Persist, Deciding
  <1>3. CASE Reconcile \/ ListJobs \/ CreateJob \/ PatchStatus
    BY <1>3 DEF Reconcile, ListJobs, CreateJob, PatchStatus
  <1> QED BY <1>1, <1>2, <1>3 DEF PassStep

LEMMA InitOnce ==
    ASSUME Init
    PROVE  OnceInv
  <1>1. now \in Times
    BY DEF Init
  <1>2. PICK s \in Specs : eacj = <<[spec |-> s, last |-> now, next |-> None]>>
    BY DEF Init
  <1>3. Live(eacj).last = now /\ Live(eacj).next = None
    BY <1>2 DEF Live
  <1>4. run.pc = "idle" /\ \A t \in Times : made[t] = 0
    BY DEF Init, Idle
  <1> QED BY <1>1, <1>3, <1>4 DEF OnceInv, Times

LEMMA OnceEnough ==
    ASSUME TypeOK, OnceInv
    PROVE  OncePerOccurrence
  <1> SUFFICES ASSUME NEW f \in Fires, NEW t \in Times, NEW u \in Times,
                      f <= t, \A g \in Fires : g <= f \/ t < g,
                      f <= u, \A g \in Fires : g <= f \/ u < g,
                      made[t] # 0, made[u] # 0
               PROVE  t = u /\ made[t] = 1
    BY DEF OncePerOccurrence
  <1>1. made[t] = 1 /\ f \in Nat /\ t \in Nat /\ u \in Nat
    <2>1. t \in Nat /\ u \in Nat /\ f \in Nat
      BY DEF Times
    <2> QED BY <2>1 DEF OnceInv
  <1>2. ASSUME NEW a \in {t, u}, NEW b \in {t, u}, a < b PROVE FALSE
    <2>1. PICK g \in Fires : a < g /\ g <= b
      BY <1>2 DEF OnceInv, Follows
    <2>2. g \in Nat
      OBVIOUS
    <2> QED BY <1>1, <2>1, <2>2
  <1> QED BY <1>1, <1>2

(* Over any passes, edits, schedules and refreshed prices, at most one Job  *)
(* is created from one occurrence until the next, as long as the caches     *)
(* are in step and no pass was cut short: Reconcile never dispatches for    *)
(* an occurrence that lastScheduleTime has passed, and a stored             *)
(* nextScheduledTime stays ahead of it until it is used.                    *)
THEOREM OneJobPerOccurrence == Spec => [](lag = 0 /\ faults = 0 => OncePerOccurrence)
  <1> DEFINE Inv == TypeOK /\ (lag = 0 /\ faults = 0 => OnceInv)
  <1>1. Init => Inv
    BY InitTyped, InitOnce
  <1>2. Inv /\ [Next /\ UNCHANGED lag]_<<vars, lag>> => Inv'
    <2> SUFFICES ASSUME Inv, [Next /\ UNCHANGED lag]_<<vars, lag>> PROVE Inv'
      OBVIOUS
    <2>1. CASE UNCHANGED <<vars, lag>>
      BY <2>1 DEF vars, TypeOK, OnceInv, Follows, Recorded
    <2>2. CASE Next /\ UNCHANGED lag
      <3>1. TypeOK'
        BY <2>2, PassTyped, EventsTyped DEF Next
      <3>2. ASSUME lag = 0, faults' = 0 PROVE OnceInv'
        <4>1. faults = 0 /\ ~Abort
          BY <2>2, <3>2, PassFaultless
             DEF Next, TypeOK, Abort, Tick, JobFinishes, Refresh, Edit, ObjectEvent, JobEvent
        <4> QED BY <2>2, <3>2, <4>1, PassOnce, EventsOnce DEF Next
      <3> QED BY <2>2, <3>1, <3>2
    <2> QED BY <2>1, <2>2
  <1>3. Inv => (lag = 0 /\ faults = 0 => OncePerOccurrence)
    BY OnceEnough
  <1> QED BY <1>1, <1>2, <1>3, PTL DEF Spec

-----------------------------------------------------------------------------
(* What a pass has listed is what there is, but for Jobs that finished.    *)

SeenAs(live, listed) ==
    \/ live = listed
    \/ /\ listed.state = "active" /\ live.state \in {"complete", "failed"}
       /\ live.start = listed.start

Seen ==
    run.pc \in {"sync", "dispatch"} =>
        \A t \in Times : SeenAs(Live(jobs)[t], run.list[t])

LEMMA DeleteEffect ==
    ASSUME TypeOK, run.pc \in {"sync", "dispatch"}, NEW t \in Times, DeleteJob(t)
    PROVE  /\ Live(jobs') = [Live(jobs) EXCEPT ![t] = NoJob]
           /\ run'.list = [run.list EXCEPT ![t] = NoJob]
           /\ run'.pc = run.pc /\ run'.base = run.base /\ run'.at = run.at
           /\ run'.mod = run.mod
           /\ eacj' = eacj
  <1>1. NoJob \in [state : {"none", "active", "complete", "failed"}, start : Times]
    BY DEF NoJob, Times
  <1>2. [Live(jobs) EXCEPT ![t] = NoJob] \in JobVersions
    BY <1>1, Reads DEF JobVersions
  <1>3. Live(jobs') = [Live(jobs) EXCEPT ![t] = NoJob]
    BY <1>2, StoreKeeps DEF TypeOK, DeleteJob
  <1>4. run' = [run EXCEPT !.list = [run.list EXCEPT ![t] = NoJob]] /\ eacj' = eacj
    BY DEF DeleteJob
  <1> QED BY <1>3, <1>4 DEF TypeOK

LEMMA FinishEffect ==
    ASSUME TypeOK, JobFinishes
    PROVE  \E t \in JobsIn(Live(jobs), "active"), s \in {"complete", "failed"} :
              Live(jobs') = [Live(jobs) EXCEPT ![t] = [Live(jobs)[t] EXCEPT !.state = s]]
  <1>1. PICK t \in JobsIn(Live(jobs), "active"), s \in {"complete", "failed"} :
           jobs' = Store(jobs, [Live(jobs) EXCEPT ![t].state = s])
    BY DEF JobFinishes
  <1> DEFINE v == [Live(jobs) EXCEPT ![t] = [Live(jobs)[t] EXCEPT !.state = s]]
  <1>2. v \in JobVersions
    BY Reads DEF JobVersions, JobsIn
  <1>3. jobs' = Store(jobs, v)
    BY <1>1
  <1>4. Live(jobs') = v
    <2> HIDE DEF v
    <2> QED BY <1>2, <1>3, StoreKeeps DEF TypeOK
  <1> QED BY <1>4

LEMMA SeenKept ==
    ASSUME TypeOK, Seen, lag = 0, Next, UNCHANGED lag
    PROVE  Seen'
  <1>1. CASE PruneSuccessful \/ PruneFailed \/ ReplaceActive
    <2>1. PICK t \in Times : DeleteJob(t)
      BY <1>1 DEF PruneSuccessful, PruneFailed, ReplaceActive, Oldest, JobsIn
    <2>2. run.pc \in {"sync", "dispatch"}
      BY <1>1 DEF PruneSuccessful, PruneFailed, ReplaceActive, At
    <2>3. Live(jobs) \in JobVersions /\ run.list \in JobVersions
      BY <2>2, Reads DEF TypeOK
    <2>4. /\ Live(jobs') = [Live(jobs) EXCEPT ![t] = NoJob] /\ run'.pc = run.pc
          /\ run'.list = [run.list EXCEPT ![t] = NoJob]
      BY <2>1, <2>2, DeleteEffect
    <2>5. ASSUME NEW u \in Times PROVE SeenAs(Live(jobs')[u], run'.list[u])
      <3>1. SeenAs(Live(jobs)[u], run.list[u])
        BY <2>2 DEF Seen
      <3>2. CASE u = t
        BY <2>3, <2>4, <3>2 DEF SeenAs, JobVersions
      <3>3. CASE u # t
        <4>1. Live(jobs')[u] = Live(jobs)[u] /\ run'.list[u] = run.list[u]
          BY <2>3, <2>4, <3>3 DEF JobVersions
        <4> QED BY <3>1, <4>1
      <3> QED BY <3>2, <3>3
    <2> QED BY <2>5 DEF Seen
  <1>2. CASE JobFinishes
    <2>1. PICK t \in JobsIn(Live(jobs), "active"), s \in {"complete", "failed"} :
             Live(jobs') = [Live(jobs) EXCEPT ![t] = [Live(jobs)[t] EXCEPT !.state = s]]
      BY <1>2, FinishEffect
    <2>2. UNCHANGED run /\ Live(jobs) \in JobVersions
      BY <1>2, Reads DEF JobFinishes
    <2>3. ASSUME run.pc \in {"sync", "dispatch"}, NEW u \in Times
          PROVE  SeenAs(Live(jobs')[u], run.list[u])
      <3>1. SeenAs(Live(jobs)[u], run.list[u])
        BY <2>3 DEF Seen
      <3>2. CASE u # t
        BY <2>1, <2>2, <3>1, <3>2 DEF JobVersions
      <3>3. CASE u = t
        <4>1. Live(jobs)[t].state = "active" /\ run.list[t] = Live(jobs)[t]
          BY <3>1, <3>3 DEF JobsIn, SeenAs
        <4>2. Live(jobs')[t] = [Live(jobs)[t] EXCEPT !.state = s] /\ t \in Times
          BY <2>1, <2>2 DEF JobsIn, JobVersions
        <4> QED BY <2>2, <3>3, <4>1, <4>2 DEF SeenAs, JobVersions
      <3> QED BY <3>2, <3>3
    <2> QED BY <2>2, <2>3 DEF Seen
  <1>3. CASE ListJobs
    BY <1>3, CacheInStep DEF ListJobs, Seen, SeenAs, TypeOK
  <1>4. CASE \/ Reconcile \/ CreateJob \/ PatchStatus \/ Abort
    <2>1. run'.pc \in {"list", "patch", "idle"}
      <3>1. CASE PatchStatus \/ Abort
        BY <3>1 DEF PatchStatus, Abort, Idle
      <3>2. CASE CreateJob
        BY <3>2 DEF CreateJob, Leave, TypeOK
      <3>3. CASE Reconcile
        BY <3>3 DEF Reconcile, Idle
      <3> QED BY <1>4, <3>1, <3>2, <3>3
    <2> QED BY <2>1 DEF Seen
  <1>5. CASE \/ Suspended \/ FireStored \/ WaitStored \/ FailMissed \/ NotYet \/ ForbidSkip
             \/ FireNow \/ NoSource \/ NoPrices \/ NothingFits \/ FirePast \/ Persist
    <2>1. jobs' = jobs /\ run.pc = "sync" /\ run'.list = run.list
      BY <1>5 DEF Suspended, FireStored, WaitStored, FailMissed, NotYet, ForbidSkip, FireNow,
                  NoSource, NoPrices, NothingFits, FirePast, Persist, Deciding, At, Leave,
                  Dispatch, TypeOK
    <2> QED BY <2>1 DEF Seen
  <1>6. CASE Tick \/ Refresh \/ Edit \/ ObjectEvent
    BY <1>6 DEF Tick, Refresh, Edit, ObjectEvent, Seen
  <1>7. CASE JobEvent
    <2>1. Len(jobs) = 1
      BY CacheInStep
    <2>2. Len(jobs) > 1
      BY <1>7 DEF JobEvent
    <2> QED BY <2>1, <2>2
  <1> QED BY <1>1, <1>2, <1>3, <1>4, <1>5, <1>6, <1>7 DEF Next, PassStep

-----------------------------------------------------------------------------
(* The history of Jobs.                                                    *)

(* Of more than n Jobs in a state, n stay when the oldest is deleted.      *)
LEMMA OldestGoes ==
    ASSUME TypeOK, Seen, At("sync"), NEW state \in {"complete", "failed"}, NEW n \in Nat,
           Cardinality(JobsIn(run.list, state)) > n,
           NEW t \in Oldest(run.list, state), DeleteJob(t)
    PROVE  /\ Live(jobs)[t].state = state
           /\ \A u \in Times : u # t => ~Deleted(u)
           /\ Cardinality({u \in JobsIn(Live(jobs'), state) :
                              Live(jobs)[u].start >= Live(jobs)[t].start}) >= n
  <1> DEFINE listed == JobsIn(run.list, state)
             kept == {u \in JobsIn(Live(jobs'), state) :
                         Live(jobs)[u].start >= Live(jobs)[t].start}
  <1>1. /\ t \in listed /\ t \in Times /\ run.pc = "sync"
        /\ Live(jobs) \in JobVersions /\ run.list \in JobVersions
    BY Reads DEF Oldest, JobsIn, At, TypeOK
  <1>2. Live(jobs') = [Live(jobs) EXCEPT ![t] = NoJob]
    BY <1>1, DeleteEffect
  <1>3. \A u \in listed : u \in Times /\ Live(jobs)[u] = run.list[u] /\ run.list[u].state = state
    BY <1>1 DEF JobsIn, Seen, SeenAs
  <1>4. \A u \in listed : u # t => u \in kept
    <2> SUFFICES ASSUME NEW u \in listed, u # t PROVE u \in kept
      OBVIOUS
    <2>1. Live(jobs')[u] = Live(jobs)[u]
      BY <1>1, <1>2, <1>3 DEF JobVersions
    <2>2. run.list[t].start <= run.list[u].start /\ run.list[t].start \in Nat
          /\ run.list[u].start \in Nat
      <3>1. run.list[t].start <= run.list[u].start
        BY DEF Oldest
      <3>2. run.list[t].start \in Times /\ run.list[u].start \in Times
        BY <1>1, <1>3 DEF JobVersions
      <3> QED BY <3>1, <3>2 DEF Times
    <2> QED BY <1>1, <1>3, <2>1, <2>2 DEF JobsIn
  <1>5. IsFiniteSet(Times) /\ listed \subseteq Times /\ kept \subseteq Times
    <2>1. IsFiniteSet(0 .. MaxTime)
      BY FS_Interval
    <2> QED BY <2>1 DEF Times, JobsIn
  <1>6. IsFiniteSet(listed) /\ IsFiniteSet(kept)
    BY <1>5, FS_Subset
  <1>7. /\ IsFiniteSet(listed \ {t})
        /\ Cardinality(listed \ {t}) = Cardinality(listed) - 1
    BY <1>1, <1>6, FS_RemoveElement
  <1>8. listed \ {t} \subseteq kept
    BY <1>4
  <1>9. Cardinality(listed \ {t}) <= Cardinality(kept)
    BY <1>6, <1>8, FS_Subset
  <1>10. Cardinality(listed) \in Nat /\ Cardinality(kept) \in Nat
    BY <1>6, FS_CardinalityType
  <1>11. Cardinality(kept) >= n
    BY <1>7, <1>9, <1>10
  <1>12. ASSUME NEW u \in Times, u # t PROVE ~Deleted(u)
    BY <1>1, <1>2, <1>12 DEF Deleted, JobVersions
  <1> QED BY <1>1, <1>3, <1>11, <1>12

(* Only a deletion takes a Job away.                                       *)
LEMMA OnlyDeletesDelete ==
    ASSUME TypeOK, Next, UNCHANGED lag, NEW t \in Times, Deleted(t)
    PROVE  PruneSuccessful \/ PruneFailed \/ ReplaceActive
  <1> SUFFICES ASSUME ~(PruneSuccessful \/ PruneFailed \/ ReplaceActive) PROVE FALSE
    OBVIOUS
  <1>1. Live(jobs) \in JobVersions
    BY Reads
  <1>2. CASE jobs' = jobs
    BY <1>2 DEF Deleted
  <1>3. CASE JobFinishes
    <2>1. PICK u \in JobsIn(Live(jobs), "active"), s \in {"complete", "failed"} :
             Live(jobs') = [Live(jobs) EXCEPT ![u] = [Live(jobs)[u] EXCEPT !.state = s]]
      BY <1>3, FinishEffect
    <2>2. u \in Times /\ Live(jobs)[u] \in [state : {"none", "active", "complete", "failed"},
                                            start : Times]
      BY <1>1 DEF JobsIn, JobVersions
    <2>3. CASE t = u
      BY <1>1, <2>1, <2>2, <2>3 DEF Deleted, JobVersions
    <2>4. CASE t # u
      BY <1>1, <2>1, <2>4 DEF Deleted, JobVersions
    <2> QED BY <2>3, <2>4
  <1>4. CASE CreateJob /\ jobs' # jobs
    <2>1. run.at \in Times
      BY <1>4 DEF CreateJob, At, TypeOK, Times
    <2>2. [Live(jobs) EXCEPT ![run.at] = buildJob] \in JobVersions
      BY <1>1 DEF JobVersions, buildJob, TypeOK
    <2>3. Live(jobs') = [Live(jobs) EXCEPT ![run.at] = buildJob]
      <3>1. jobs' = Store(jobs, [Live(jobs) EXCEPT ![run.at] = buildJob])
        BY <1>4 DEF CreateJob
      <3> QED BY <2>2, <3>1, StoreKeeps DEF TypeOK
    <2>4. CASE t = run.at
      BY <1>1, <2>1, <2>3, <2>4 DEF Deleted, JobVersions, buildJob
    <2>5. CASE t # run.at
      BY <1>1, <2>3, <2>5 DEF Deleted, JobVersions
    <2> QED BY <2>4, <2>5
  <1>5. CASE JobEvent
    <2>1. Live(jobs') = Live(jobs)
      BY <1>5 DEF JobEvent, Live, TypeOK
    <2> QED BY <2>1 DEF Deleted
  <1>6. CASE \/ Suspended \/ FireStored \/ WaitStored \/ FailMissed \/ NotYet \/ ForbidSkip
             \/ FireNow \/ NoSource \/ NoPrices \/ NothingFits \/ FirePast \/ Persist
    BY <1>2, <1>6 DEF Suspended, FireStored, WaitStored, FailMissed, NotYet, ForbidSkip,
       FireNow, NoSource, NoPrices, NothingFits, FirePast, Persist, Deciding
  <1>7. CASE Reconcile \/ ListJobs \/ PatchStatus \/ Abort \/ Tick \/ Refresh \/ Edit \/ ObjectEvent
    BY <1>2, <1>7 DEF Reconcile, ListJobs, PatchStatus, Abort, Tick, Refresh, Edit, ObjectEvent
  <1> QED BY <1>2, <1>3, <1>4, <1>5, <1>6, <1>7 DEF Next, PassStep

HistoryStep ==
    \A t \in Times :
       Deleted(t) /\ run.pc = "sync"
       => LET s == Live(jobs)[t].state
              kept == {u \in JobsIn(Live(jobs'), s) : Live(jobs)[u].start >= Live(jobs)[t].start}
          IN  /\ s # "active"
              /\ Cardinality(kept) >= (IF s = "complete" THEN SuccessLimit ELSE FailedLimit)

LEMMA PruningKeeps ==
    ASSUME TypeOK, Seen, Next, UNCHANGED lag
    PROVE  HistoryStep
  <1> SUFFICES ASSUME NEW t \in Times, Deleted(t), run.pc = "sync"
               PROVE  LET s == Live(jobs)[t].state
                          kept == {u \in JobsIn(Live(jobs'), s) :
                                      Live(jobs)[u].start >= Live(jobs)[t].start}
                      IN  /\ s # "active"
                          /\ Cardinality(kept) >=
                                (IF s = "complete" THEN SuccessLimit ELSE FailedLimit)
    BY DEF HistoryStep
  <1>1. PruneSuccessful \/ PruneFailed
    BY OnlyDeletesDelete DEF ReplaceActive, At
  <1>2. CASE PruneSuccessful
    <2>1. PICK o \in Oldest(run.list, "complete") : DeleteJob(o)
      BY <1>2 DEF PruneSuccessful
    <2>2. /\ Live(jobs)[o].state = "complete"
          /\ \A u \in Times : u # o => ~Deleted(u)
          /\ Cardinality({u \in JobsIn(Live(jobs'), "complete") :
                              Live(jobs)[u].start >= Live(jobs)[o].start}) >= SuccessLimit
      BY <1>2, <2>1, OldestGoes DEF PruneSuccessful
    <2>3. t = o
      BY <2>2
    <2> QED BY <2>2, <2>3
  <1>3. CASE PruneFailed
    <2>1. PICK o \in Oldest(run.list, "failed") : DeleteJob(o)
      BY <1>3 DEF PruneFailed
    <2>2. /\ Live(jobs)[o].state = "failed"
          /\ \A u \in Times : u # o => ~Deleted(u)
          /\ Cardinality({u \in JobsIn(Live(jobs'), "failed") :
                              Live(jobs)[u].start >= Live(jobs)[o].start}) >= FailedLimit
      BY <1>3, <2>1, OldestGoes DEF PruneFailed
    <2>3. t = o
      BY <2>2
    <2> QED BY <2>2, <2>3
  <1> QED BY <1>1, <1>2, <1>3

(* With caches in step, syncActiveJobs deletes only finished Jobs, oldest   *)
(* first, and as many as the limit asks for, none older than a deleted one, *)
(* stay: whatever finishes while it prunes, and however often a pass is     *)
(* cut short.                                                               *)
THEOREM HistoryAlwaysKept == MaxLag = 0 => (Spec => HistoryKept)
  <1> SUFFICES ASSUME MaxLag = 0 PROVE Spec => HistoryKept
    OBVIOUS
  <1> DEFINE Inv == TypeOK /\ Seen
  <1>1. Init => Inv
    BY InitTyped DEF Init, Seen, Idle
  <1>2. Inv /\ [Next /\ UNCHANGED lag]_<<vars, lag>> => Inv'
    <2> SUFFICES ASSUME Inv, [Next /\ UNCHANGED lag]_<<vars, lag>> PROVE Inv'
      OBVIOUS
    <2>1. CASE Next /\ UNCHANGED lag
      <3>1. lag = 0
        BY DEF TypeOK
      <3>2. TypeOK'
        BY <2>1, PassTyped, EventsTyped DEF Next
      <3> QED BY <2>1, <3>1, <3>2, SeenKept
    <2>2. CASE UNCHANGED <<vars, lag>>
      BY <2>2 DEF vars, TypeOK, Seen
    <2> QED BY <2>1, <2>2
  <1>3. Inv /\ [Next /\ UNCHANGED lag]_<<vars, lag>> => [HistoryStep]_vars
    BY PruningKeeps DEF vars
  <1> QED BY <1>1, <1>2, <1>3, PTL DEF Spec, HistoryKept, HistoryStep

-----------------------------------------------------------------------------
(* Jobs that exclude each other.                                           *)

Active == JobsIn(Live(jobs), "active")

(* Under Forbid the second look a stored time does without is not needed:   *)
(* the only Job that may run until then is the one made for that time, by   *)
(* a pass that was cut short before it recorded it.                         *)
AloneInv ==
    /\ Seen
    /\ run.pc # "idle" => /\ run.base.spec = Live(eacj).spec
                          /\ run.base.next = Live(eacj).next
    /\ run.pc = "dispatch" => run.base.next \in {None, run.at}
    /\ Live(eacj).spec.policy = "Forbid" =>
          /\ Live(eacj).next # None => Active \subseteq {Live(eacj).next}
          /\ run.pc = "dispatch" => Active \subseteq {run.at}
          /\ run.pc = "patch" /\ run.mod.next # None => Active \subseteq {run.mod.next}

(* The Jobs that run are among those a pass has listed as running.          *)
LEMMA ActiveListed ==
    ASSUME TypeOK, Seen, run.pc \in {"sync", "dispatch"}
    PROVE  Active \subseteq JobsIn(run.list, "active")
  BY DEF Seen, SeenAs, Active, JobsIn

(* A step that creates no Job leaves fewer of them running.                 *)
LEMMA FewerActive ==
    ASSUME TypeOK, Next, UNCHANGED lag, ~(CreateJob /\ jobs' # jobs)
    PROVE  Active' \subseteq Active
  <1>1. Live(jobs) \in JobVersions
    BY Reads
  <1>2. CASE jobs' = jobs
    BY <1>2 DEF Active
  <1>3. CASE JobFinishes
    <2>1. PICK u \in JobsIn(Live(jobs), "active"), s \in {"complete", "failed"} :
             Live(jobs') = [Live(jobs) EXCEPT ![u] = [Live(jobs)[u] EXCEPT !.state = s]]
      BY <1>3, FinishEffect
    <2>2. Live(jobs)[u] \in [state : {"none", "active", "complete", "failed"}, start : Times]
      BY <1>1 DEF JobsIn, JobVersions
    <2> QED BY <1>1, <2>1, <2>2 DEF Active, JobsIn, JobVersions
  <1>4. CASE PruneSuccessful \/ PruneFailed \/ ReplaceActive
    <2>1. PICK t \in Times : DeleteJob(t)
      BY <1>4 DEF PruneSuccessful, PruneFailed, ReplaceActive, Oldest, JobsIn
    <2>2. run.pc \in {"sync", "dispatch"}
      BY <1>4 DEF PruneSuccessful, PruneFailed, ReplaceActive, At
    <2>3. Live(jobs') = [Live(jobs) EXCEPT ![t] = NoJob]
      BY <2>1, <2>2, DeleteEffect
    <2> QED BY <1>1, <2>3 DEF Active, JobsIn, JobVersions, NoJob
  <1>5. CASE JobEvent
    <2>1. Live(jobs') = Live(jobs)
      BY <1>5 DEF JobEvent, Live, TypeOK
    <2> QED BY <2>1 DEF Active
  <1>6. CASE \/ Suspended \/ FireStored \/ WaitStored \/ FailMissed \/ NotYet \/ ForbidSkip
             \/ FireNow \/ NoSource \/ NoPrices \/ NothingFits \/ FirePast \/ Persist
    BY <1>2, <1>6 DEF Suspended, FireStored, WaitStored, FailMissed, NotYet, ForbidSkip,
       FireNow, NoSource, NoPrices, NothingFits, FirePast, Persist, Deciding
  <1>7. CASE \/ Reconcile \/ ListJobs \/ PatchStatus \/ Abort \/ Tick \/ Refresh \/ Edit
             \/ ObjectEvent
    BY <1>2, <1>7 DEF Reconcile, ListJobs, PatchStatus, Abort, Tick, Refresh, Edit, ObjectEvent
  <1> QED BY <1>2, <1>3, <1>4, <1>5, <1>6, <1>7 DEF Next, PassStep

LEMMA CreateEffect ==
    ASSUME TypeOK, CreateJob
    PROVE  /\ run.pc = "dispatch" /\ run.at \in Times /\ UNCHANGED eacj
           /\ run'.pc = "patch" /\ run'.base = run.base
           /\ run'.mod = Dispatched(run.base, run.at) /\ run'.mod.next = None
           /\ \/ UNCHANGED jobs
              \/ /\ Live(jobs)[run.at].state = "none"
                 /\ Live(jobs') = [Live(jobs) EXCEPT ![run.at] = buildJob]
                 /\ Active' = Active \cup {run.at}
  <1>1. run.pc = "dispatch" /\ run.at \in Times /\ run.base \in ObjectVersions /\ UNCHANGED eacj
    BY DEF CreateJob, At, TypeOK, Times
  <1>2. /\ run'.pc = "patch" /\ run'.base = run.base
        /\ run'.mod = Dispatched(run.base, run.at)
    BY DEF CreateJob, Leave, TypeOK
  <1>3. run'.mod.next = None
    BY <1>1, <1>2 DEF Dispatched, ObjectVersions
  <1>4. Live(jobs) \in JobVersions
    BY Reads
  <1>5. CASE Live(jobs)[run.at].state = "none"
    <2>1. [Live(jobs) EXCEPT ![run.at] = buildJob] \in JobVersions
      BY <1>4 DEF JobVersions, buildJob, TypeOK
    <2>2. Live(jobs') = [Live(jobs) EXCEPT ![run.at] = buildJob]
      <3>1. jobs' = Store(jobs, [Live(jobs) EXCEPT ![run.at] = buildJob])
        BY <1>5 DEF CreateJob
      <3> QED BY <2>1, <3>1, StoreKeeps DEF TypeOK
    <2>3. Active' = Active \cup {run.at}
      BY <1>1, <1>4, <2>2 DEF Active, JobsIn, JobVersions, buildJob
    <2> QED BY <1>1, <1>2, <1>3, <1>5, <2>2, <2>3
  <1>6. CASE Live(jobs)[run.at].state # "none"
    BY <1>1, <1>2, <1>3, <1>6 DEF CreateJob
  <1> QED BY <1>5, <1>6

LEMMA DecideAlone ==
    ASSUME TypeOK, AloneInv, UNCHANGED lag, lag = 0, Next,
           \/ Suspended \/ FireStored \/ WaitStored \/ FailMissed \/ NotYet \/ ForbidSkip
           \/ FireNow \/ NoSource \/ NoPrices \/ NothingFits \/ FirePast \/ Persist
    PROVE  AloneInv'
  <1>1. /\ run.pc = "sync" /\ run.base \in ObjectVersions
        /\ UNCHANGED <<now, eacj, jobs>> /\ run'.base = run.base
    BY DEF TypeOK, Suspended, FireStored, WaitStored, FailMissed, NotYet, ForbidSkip, FireNow,
           NoSource, NoPrices, NothingFits, FirePast, Persist, Deciding, At, Leave, Dispatch
  <1>2. Seen'
    BY SeenKept DEF AloneInv
  <1>3. /\ run.base.spec = Live(eacj).spec /\ run.base.next = Live(eacj).next
        /\ Active' = Active /\ Active \subseteq JobsIn(run.list, "active")
    BY <1>1, ActiveListed DEF AloneInv, Active
  <1>12. run'.pc = "dispatch" => run.base.next \in {None, run'.at}
    <2>1. CASE FireNow \/ FirePast
      BY <2>1 DEF FireNow, FirePast, Windowed, Due, Unscheduled
    <2>2. CASE FireStored
      <3>1. run' = [run EXCEPT !.pc = "dispatch", !.at = run.base.next]
        BY <2>2 DEF FireStored, Dispatch
      <3>2. run'.at = run.base.next
        BY <3>1 DEF TypeOK
      <3> QED BY <3>2
    <2>3. CASE \/ WaitStored \/ FailMissed \/ NotYet \/ NoSource \/ NoPrices \/ NothingFits
               \/ Suspended \/ ForbidSkip \/ Persist
      <3>1. PICK v : Leave(v)
        BY <2>3 DEF WaitStored, FailMissed, NotYet, NoSource, NoPrices, NothingFits, Suspended,
                    ForbidSkip, Persist
      <3>2. run'.pc = "patch"
        BY <3>1 DEF Leave, TypeOK
      <3> QED BY <3>2
    <2> QED BY <2>1, <2>2, <2>3
  <1> SUFFICES ASSUME Live(eacj).spec.policy = "Forbid"
               PROVE  /\ run'.pc = "dispatch" => Active \subseteq {run'.at}
                      /\ run'.pc = "patch" /\ run'.mod.next # None =>
                            Active \subseteq {run'.mod.next}
    BY <1>1, <1>2, <1>3, <1>12 DEF AloneInv, Active
  <1>4. run.base.next # None => Active \subseteq {run.base.next}
    BY <1>3 DEF AloneInv
  <1>5. ~Forbidden => Active = {}
    BY <1>3 DEF Forbidden
  <1>6. CASE \/ WaitStored \/ FailMissed \/ NotYet \/ NoSource \/ NoPrices \/ NothingFits
    <2>1. run'.pc = "patch" /\ run'.mod = run.base
      BY <1>6 DEF WaitStored, FailMissed, NotYet, NoSource, NoPrices, NothingFits, Leave, TypeOK
    <2> QED BY <1>4, <2>1
  <1>7. CASE Suspended
    <2>1. run'.pc = "patch" /\ run'.mod.next = None
      BY <1>1, <1>7 DEF Suspended, Leave, TypeOK, ObjectVersions
    <2> QED BY <2>1
  <1>8. CASE ForbidSkip
    <2>1. run'.pc = "patch" /\ run'.mod.next = None
      BY <1>1, <1>8 DEF ForbidSkip, Due, Unscheduled, Leave, TypeOK, ObjectVersions
    <2> QED BY <2>1
  <1>9. CASE Persist
    <2>1. run'.pc = "patch" /\ ~Forbidden
      BY <1>9 DEF Persist, Windowed, Leave, TypeOK
    <2> QED BY <1>5, <2>1
  <1>10. CASE FireNow \/ FirePast
    <2>1. run'.pc = "dispatch" /\ ~Forbidden
      BY <1>10 DEF FireNow, FirePast, Windowed, Dispatch, TypeOK
    <2> QED BY <1>5, <2>1
  <1>11. CASE FireStored
    <2>1. run'.pc = "dispatch" /\ run'.at = run.base.next /\ run.base.next # None
      BY <1>11 DEF FireStored, Stored, Dispatch, TypeOK
    <2> QED BY <1>4, <2>1
  <1> QED BY <1>6, <1>7, <1>8, <1>9, <1>10, <1>11

LEMMA PatchAlone ==
    ASSUME TypeOK, AloneInv, PatchStatus, UNCHANGED lag, lag = 0, Next
    PROVE  AloneInv'
  <1> DEFINE live == Live(eacj)
             v == [live EXCEPT !.last = Merge(live.last, run.base.last, run.mod.last),
                               !.next = Merge(live.next, run.base.next, run.mod.next)]
  <1>1. /\ run.pc = "patch" /\ live \in ObjectVersions
        /\ run.mod \in ObjectVersions /\ run.base \in ObjectVersions
    BY Reads DEF TypeOK, PatchStatus, At
  <1>2. eacj' = Store(eacj, v) /\ run' = Idle /\ UNCHANGED jobs
    BY DEF PatchStatus
  <1>3. v \in ObjectVersions /\ v.spec = live.spec /\ v.next = run.mod.next
    BY <1>1 DEF ObjectVersions, Merge, AloneInv
  <1>4. Live(eacj') = v
    <2> HIDE DEF v
    <2> QED BY <1>2, <1>3, StoreKeeps DEF TypeOK
  <1>5. run'.pc = "idle" /\ Active' = Active
    BY <1>2 DEF Idle, Active
  <1>6. Seen'
    BY SeenKept DEF AloneInv
  <1>7. live.spec.policy = "Forbid" /\ run.mod.next # None => Active \subseteq {run.mod.next}
    BY <1>1 DEF AloneInv
  <1> HIDE DEF v, live
  <1> QED BY <1>3, <1>4, <1>5, <1>6, <1>7 DEF AloneInv

LEMMA NextAlone ==
    ASSUME TypeOK, AloneInv, Next, UNCHANGED lag, lag = 0, ~Edit
    PROVE  AloneInv'
  <1>1. Seen'
    BY SeenKept DEF AloneInv
  <1>2. CASE Reconcile
    <2>1. /\ run'.pc = "list" /\ run'.base = Cached(eacj) /\ UNCHANGED <<eacj, jobs>>
      BY <1>2 DEF Reconcile, Idle
    <2>2. Cached(eacj) = Live(eacj)
      BY CacheInStep
    <2> QED BY <1>1, <2>1, <2>2 DEF AloneInv, Active
  <1>3. CASE ListJobs
    <2>1. /\ run'.pc = "sync" /\ run'.base = run.base /\ run.pc = "list"
          /\ UNCHANGED <<eacj, jobs>>
      BY <1>3 DEF ListJobs, At, TypeOK
    <2> QED BY <1>1, <2>1 DEF AloneInv, Active
  <1>4. CASE PruneSuccessful \/ PruneFailed \/ ReplaceActive
    <2>1. PICK t \in Times : DeleteJob(t)
      BY <1>4 DEF PruneSuccessful, PruneFailed, ReplaceActive, Oldest, JobsIn
    <2>2. run.pc \in {"sync", "dispatch"}
      BY <1>4 DEF PruneSuccessful, PruneFailed, ReplaceActive, At
    <2>3. /\ run'.pc = run.pc /\ run'.base = run.base /\ run'.at = run.at
          /\ run'.mod = run.mod /\ eacj' = eacj
      BY <2>1, <2>2, DeleteEffect
    <2>4. Active' \subseteq Active
      BY <1>4, FewerActive DEF PruneSuccessful, PruneFailed, ReplaceActive, CreateJob, At
    <2> QED BY <1>1, <2>3, <2>4 DEF AloneInv
  <1>5. CASE CreateJob
    <2>1. /\ run.pc = "dispatch" /\ UNCHANGED eacj
          /\ run'.pc = "patch" /\ run'.base = run.base /\ run'.mod.next = None
          /\ UNCHANGED jobs \/ Active' = Active \cup {run.at}
      BY <1>5, CreateEffect
    <2>2. run.base.next = Live(eacj).next /\ run.base.spec = Live(eacj).spec
      BY <2>1 DEF AloneInv
    <2>3. Active' \subseteq Active \cup {run.at}
      BY <2>1 DEF Active
    <2>4. Live(eacj).next # None => run.at = Live(eacj).next
      BY <2>1, <2>2 DEF AloneInv
    <2> QED BY <1>1, <2>1, <2>2, <2>3, <2>4 DEF AloneInv
  <1>6. CASE PatchStatus
    BY <1>6, PatchAlone
  <1>7. CASE Abort
    BY <1>1, <1>7 DEF Abort, Idle, AloneInv, Active
  <1>8. CASE Tick \/ Refresh
    BY <1>1, <1>8 DEF Tick, Refresh, AloneInv, Active
  <1>9. CASE JobFinishes
    <2>1. UNCHANGED <<eacj, run>>
      BY <1>9 DEF JobFinishes
    <2>2. Active' \subseteq Active
      <3>1. ~CreateJob
        BY <2>1, CreateEffect
      <3> QED BY <3>1, FewerActive
    <2> QED BY <1>1, <2>1, <2>2 DEF AloneInv
  <1>10. CASE ObjectEvent \/ JobEvent
    <2>1. Len(eacj) = 1 /\ Len(jobs) = 1
      BY CacheInStep
    <2>2. Len(eacj) > 1 \/ Len(jobs) > 1
      BY <1>10 DEF ObjectEvent, JobEvent
    <2> QED BY <2>1, <2>2
  <1> QED BY <1>2, <1>3, <1>4, <1>5, <1>6, <1>7, <1>8, <1>9, <1>10, DecideAlone
      DEF Next, PassStep

OverlapStep ==
    \A t \in Times :
       lag = 0 /\ Created(t) /\ run.base.spec.policy # "Allow"
       => JobsIn(Live(jobs'), "active") = {t}

LEMMA CreatedAlone ==
    ASSUME TypeOK, AloneInv, Next, UNCHANGED lag
    PROVE  OverlapStep
  <1> SUFFICES ASSUME NEW t \in Times, Created(t), run.base.spec.policy # "Allow"
               PROVE  JobsIn(Live(jobs'), "active") = {t}
    BY DEF OverlapStep
  <1>1. t \in Active' /\ t \notin Active
    BY DEF Active, JobsIn, Created
  <1>2. CreateJob /\ jobs' # jobs
    BY <1>1, FewerActive
  <1>3. /\ run.pc = "dispatch" /\ Live(jobs)[run.at].state = "none"
        /\ Active' = Active \cup {run.at}
    BY <1>2, CreateEffect
  <1>4. t = run.at
    BY <1>1, <1>3
  <1>5. Active = {}
    <2>1. run.at \notin Active
      BY <1>3 DEF Active, JobsIn
    <2>2. run.base.spec = Live(eacj).spec /\ run.base.spec.policy \in Policies
      BY <1>3 DEF AloneInv, TypeOK, ObjectVersions
    <2>3. CASE run.base.spec.policy = "Forbid"
      BY <1>3, <2>1, <2>2, <2>3 DEF AloneInv
    <2>4. CASE run.base.spec.policy = "Replace"
      <3>1. JobsIn(run.list, "active") = {}
        BY <1>2, <2>4 DEF CreateJob, Replacing
      <3> QED BY <1>3, <3>1, ActiveListed DEF AloneInv
    <2> QED BY <2>2, <2>3, <2>4 DEF Policies
  <1> QED BY <1>3, <1>4, <1>5 DEF Active

(* While the user leaves the spec alone and the caches are in step, a Job   *)
(* created under Forbid or Replace is the only one that runs, whatever      *)
(* passes are cut short: step 7 of Reconcile and the deletions of           *)
(* dispatchJob are enough, though a stored time is dispatched without a     *)
(* second look at the Jobs that run.                                        *)
THEOREM NeverOverlaps == MaxEdits = 0 => (Spec => NoOverlap)
  <1> SUFFICES ASSUME MaxEdits = 0 PROVE Spec => NoOverlap
    OBVIOUS
  <1> DEFINE Inv == TypeOK /\ (lag = 0 => AloneInv)
  <1>1. Init => Inv
    <2> SUFFICES ASSUME Init PROVE TypeOK /\ AloneInv
      OBVIOUS
    <2>1. Live(eacj).next = None /\ run.pc = "idle"
      BY DEF Init, Live, Idle
    <2> QED BY <2>1, InitTyped DEF AloneInv, Seen
  <1>2. Inv /\ [Next /\ UNCHANGED lag]_<<vars, lag>> => Inv'
    <2> SUFFICES ASSUME Inv, [Next /\ UNCHANGED lag]_<<vars, lag>> PROVE Inv'
      OBVIOUS
    <2>1. CASE Next /\ UNCHANGED lag
      <3>1. ~Edit
        BY DEF Edit, TypeOK
      <3>2. TypeOK'
        BY <2>1, PassTyped, EventsTyped DEF Next
      <3> QED BY <2>1, <3>1, <3>2, NextAlone
    <2>2. CASE UNCHANGED <<vars, lag>>
      BY <2>2 DEF vars, TypeOK, AloneInv, Seen, Active
    <2> QED BY <2>1, <2>2
  <1>3. Inv /\ [Next /\ UNCHANGED lag]_<<vars, lag>> => [OverlapStep]_vars
    <2> SUFFICES ASSUME Inv, [Next /\ UNCHANGED lag]_<<vars, lag>> PROVE [OverlapStep]_vars
      OBVIOUS
    <2>1. CASE lag = 0 /\ Next /\ UNCHANGED lag
      BY <2>1, CreatedAlone
    <2>2. CASE lag # 0
      BY <2>2 DEF OverlapStep
    <2>3. CASE UNCHANGED <<vars, lag>>
      BY <2>3
    <2> QED BY <2>1, <2>2, <2>3
  <1> QED BY <1>1, <1>2, <1>3, PTL DEF Spec, NoOverlap, OverlapStep
-----------------------------------------------------------------------------
(* Announced starts.                                                       *)

(* While the cache is in step, a pass works on the time that is stored, and *)
(* dispatches it as it is; it is about to give it up only once its Job has  *)
(* been made, or for an object that was suspended.                          *)
GivesUp == run.mod.next # run.base.next /\ run.base.next # None
JobMade(t) == t \in Times /\ made[t] # 0
AnnouncedInv ==
    /\ \A t \in Times : Live(jobs)[t].state # "none" => made[t] # 0
    /\ run.pc # "idle" => run.base.next = Live(eacj).next
    /\ run.pc = "dispatch" => run.base.next \in {None, run.at}
    /\ run.pc = "patch" /\ GivesUp => JobMade(run.base.next) \/ run.base.spec.suspend

(* What was made stays so, and every Job there is was made.                 *)
LEMMA MadeKept ==
    ASSUME TypeOK, Next, UNCHANGED lag,
           \A t \in Times : Live(jobs)[t].state # "none" => made[t] # 0
    PROVE  \A t \in Times : /\ made[t] # 0 => made'[t] # 0
                            /\ Live(jobs')[t].state # "none" => made'[t] # 0
  <1>1. Live(jobs) \in JobVersions /\ made \in [Times -> 0 .. 2]
    BY Reads DEF TypeOK
  <1>2. CASE jobs' = jobs /\ made' = made
    BY <1>2
  <1>3. CASE JobFinishes
    <2>1. PICK u \in JobsIn(Live(jobs), "active"), s \in {"complete", "failed"} :
             Live(jobs') = [Live(jobs) EXCEPT ![u] = [Live(jobs)[u] EXCEPT !.state = s]]
      BY <1>3, FinishEffect
    <2>2. u \in Times /\ Live(jobs)[u].state = "active" /\ made' = made
      BY <1>3 DEF JobsIn, JobFinishes
    <2> QED BY <1>1, <2>1, <2>2 DEF JobVersions
  <1>4. CASE PruneSuccessful \/ PruneFailed \/ ReplaceActive
    <2>1. PICK u \in Times : DeleteJob(u)
      BY <1>4 DEF PruneSuccessful, PruneFailed, ReplaceActive, Oldest, JobsIn
    <2>2. run.pc \in {"sync", "dispatch"}
      BY <1>4 DEF PruneSuccessful, PruneFailed, ReplaceActive, At
    <2>3. Live(jobs') = [Live(jobs) EXCEPT ![u] = NoJob] /\ made' = made
      BY <2>1, <2>2, DeleteEffect DEF DeleteJob
    <2> QED BY <1>1, <2>3 DEF JobVersions, NoJob
  <1>5. CASE CreateJob
    <2>1. CASE Live(jobs)[run.at].state # "none"
      BY <1>2, <1>5, <2>1 DEF CreateJob
    <2>2. CASE Live(jobs)[run.at].state = "none"
      <3>1. made' = [made EXCEPT ![run.at] = IF @ < 2 THEN @ + 1 ELSE @] /\ run.at \in Times
        BY <1>5, <2>2, CreateEffect DEF CreateJob
      <3>2. \A t \in Times : made'[t] = IF t = run.at THEN (IF made[t] < 2 THEN made[t] + 1 ELSE made[t])
                                        ELSE made[t]
        BY <1>1, <3>1
      <3>3. made'[run.at] # 0 /\ \A t \in Times : made[t] # 0 => made'[t] # 0
        BY <1>1, <3>1, <3>2
      <3>4. [Live(jobs) EXCEPT ![run.at] = buildJob] \in JobVersions
        BY <1>1 DEF JobVersions, buildJob, TypeOK
      <3>5. Live(jobs') = [Live(jobs) EXCEPT ![run.at] = buildJob]
        <4>1. jobs' = Store(jobs, [Live(jobs) EXCEPT ![run.at] = buildJob])
          BY <1>5, <2>2 DEF CreateJob
        <4> QED BY <3>4, <4>1, StoreKeeps DEF TypeOK
      <3> QED BY <1>1, <3>1, <3>3, <3>5 DEF JobVersions
    <2> QED BY <2>1, <2>2
  <1>6. CASE JobEvent
    <2>1. Live(jobs') = Live(jobs) /\ made' = made
      BY <1>6 DEF JobEvent, Live, TypeOK
    <2> QED BY <2>1
  <1>7. CASE \/ Suspended \/ FireStored \/ WaitStored \/ FailMissed \/ NotYet \/ ForbidSkip
             \/ FireNow \/ NoSource \/ NoPrices \/ NothingFits \/ FirePast \/ Persist
    BY <1>2, <1>7 DEF Suspended, FireStored, WaitStored, FailMissed, NotYet, ForbidSkip,
       FireNow, NoSource, NoPrices, NothingFits, FirePast, Persist, Deciding
  <1>8. CASE \/ Reconcile \/ ListJobs \/ PatchStatus \/ Abort \/ Tick \/ Refresh \/ Edit
             \/ ObjectEvent
    BY <1>2, <1>8 DEF Reconcile, ListJobs, PatchStatus, Abort, Tick, Refresh, Edit, ObjectEvent
  <1> QED BY <1>3, <1>4, <1>5, <1>6, <1>7, <1>8 DEF Next, PassStep

(* A decision keeps the stored time, dispatches it, or finds none stored    *)
(* or the object suspended.                                                 *)
LEMMA DecideKeepsTime ==
    ASSUME TypeOK, AnnouncedInv,
           \/ Suspended \/ FireStored \/ WaitStored \/ FailMissed \/ NotYet \/ ForbidSkip
           \/ FireNow \/ NoSource \/ NoPrices \/ NothingFits \/ FirePast \/ Persist
    PROVE  /\ UNCHANGED eacj /\ run'.base = run.base /\ run.base.next = Live(eacj).next
           /\ run'.pc = "dispatch" => run.base.next \in {None, run'.at}
           /\ run'.pc = "patch" /\ GivesUp' => run.base.spec.suspend
  <1>1. /\ run.pc = "sync" /\ run.base \in ObjectVersions
        /\ UNCHANGED eacj /\ run'.base = run.base
    BY DEF TypeOK, Suspended, FireStored, WaitStored, FailMissed, NotYet, ForbidSkip, FireNow,
           NoSource, NoPrices, NothingFits, FirePast, Persist, Deciding, At, Leave, Dispatch
  <1>2. run.base.next = Live(eacj).next
    BY <1>1 DEF AnnouncedInv
  <1>3. CASE FireStored
    <2>1. run' = [run EXCEPT !.pc = "dispatch", !.at = run.base.next]
      BY <1>3 DEF FireStored, Dispatch
    <2>2. run'.pc = "dispatch" /\ run'.at = run.base.next
      BY <2>1 DEF TypeOK
    <2> QED BY <1>1, <1>2, <2>2
  <1>4. CASE FireNow \/ FirePast \/ ForbidSkip \/ Persist
    <2>1. run.base.next = None
      BY <1>4 DEF FireNow, FirePast, ForbidSkip, Persist, Windowed, Due, Unscheduled
    <2> QED BY <1>1, <1>2, <2>1 DEF GivesUp
  <1>5. CASE Suspended
    <2>1. run'.pc = "patch" /\ run.base.spec.suspend
      BY <1>5 DEF Suspended, Leave, TypeOK
    <2> QED BY <1>1, <1>2, <2>1
  <1>6. CASE WaitStored \/ FailMissed \/ NotYet \/ NoSource \/ NoPrices \/ NothingFits
    <2>1. run'.pc = "patch" /\ run'.mod = run.base
      BY <1>6 DEF WaitStored, FailMissed, NotYet, NoSource, NoPrices, NothingFits, Leave, TypeOK
    <2> QED BY <1>1, <1>2, <2>1 DEF GivesUp
  <1> QED BY <1>3, <1>4, <1>5, <1>6

(* What the status patch and an edit leave of the stored time.              *)
LEMMA PatchedTime ==
    ASSUME TypeOK, AnnouncedInv, PatchStatus
    PROVE  /\ run.pc = "patch" /\ run' = Idle /\ UNCHANGED made
           /\ Live(eacj').next = run.mod.next /\ run.base.next = Live(eacj).next
  <1> DEFINE live == Live(eacj)
             v == [live EXCEPT !.last = Merge(live.last, run.base.last, run.mod.last),
                               !.next = Merge(live.next, run.base.next, run.mod.next)]
  <1>1. /\ run.pc = "patch" /\ live \in ObjectVersions
        /\ run.mod \in ObjectVersions /\ run.base \in ObjectVersions
    BY Reads DEF TypeOK, PatchStatus, At
  <1>2. eacj' = Store(eacj, v) /\ run' = Idle /\ UNCHANGED made
    BY DEF PatchStatus
  <1>3. v \in ObjectVersions /\ v.next = run.mod.next
    BY <1>1 DEF ObjectVersions, Merge, AnnouncedInv
  <1>4. Live(eacj') = v
    <2> HIDE DEF v
    <2> QED BY <1>2, <1>3, StoreKeeps DEF TypeOK
  <1> HIDE DEF v
  <1> QED BY <1>1, <1>2, <1>3, <1>4 DEF AnnouncedInv

LEMMA EditedTime ==
    ASSUME TypeOK, Edit
    PROVE  Live(eacj').next = Live(eacj).next /\ UNCHANGED <<run, made>>
  <1>1. PICK s \in Specs : eacj' = Store(eacj, [Live(eacj) EXCEPT !.spec = s])
    BY DEF Edit
  <1> DEFINE v == [Live(eacj) EXCEPT !.spec = s]
  <1>2. v \in ObjectVersions /\ v.next = Live(eacj).next
    BY Reads DEF ObjectVersions
  <1>3. Live(eacj') = v
    <2> HIDE DEF v
    <2>1. eacj' = Store(eacj, v)
      BY <1>1 DEF v
    <2> QED BY <1>2, <2>1, StoreKeeps DEF TypeOK
  <1> HIDE DEF v
  <1> QED BY <1>2, <1>3 DEF Edit

LEMMA NextAnnounced ==
    ASSUME TypeOK, AnnouncedInv, Next, UNCHANGED lag, lag = 0
    PROVE  AnnouncedInv'
  <1>1. \A t \in Times : /\ made[t] # 0 => made'[t] # 0
                         /\ Live(jobs')[t].state # "none" => made'[t] # 0
    BY MadeKept DEF AnnouncedInv
  <1>2. \A t : JobMade(t) => JobMade(t)'
    BY <1>1 DEF JobMade, Times
  <1>3. CASE Reconcile
    <2>1. run'.pc = "list" /\ run'.base = Cached(eacj) /\ UNCHANGED eacj
      BY <1>3 DEF Reconcile, Idle
    <2> QED BY <1>1, <2>1, CacheInStep DEF AnnouncedInv
  <1>4. CASE ListJobs
    <2>1. run'.pc = "sync" /\ run'.base = run.base /\ run.pc = "list" /\ UNCHANGED eacj
      BY <1>4 DEF ListJobs, At, TypeOK
    <2> QED BY <1>1, <2>1 DEF AnnouncedInv
  <1>5. CASE PruneSuccessful \/ PruneFailed \/ ReplaceActive
    <2>1. PICK t \in Times : DeleteJob(t)
      BY <1>5 DEF PruneSuccessful, PruneFailed, ReplaceActive, Oldest, JobsIn
    <2>2. run.pc \in {"sync", "dispatch"}
      BY <1>5 DEF PruneSuccessful, PruneFailed, ReplaceActive, At
    <2>3. run'.pc = run.pc /\ run'.base = run.base /\ run'.at = run.at /\ eacj' = eacj
      BY <2>1, <2>2, DeleteEffect
    <2> QED BY <1>1, <2>2, <2>3 DEF AnnouncedInv
  <1>6. CASE CreateJob
    <2>1. /\ run.pc = "dispatch" /\ run.at \in Times /\ UNCHANGED eacj
          /\ run'.pc = "patch" /\ run'.base = run.base
      BY <1>6, CreateEffect
    <2>2. made'[run.at] # 0
      <3>1. CASE Live(jobs)[run.at].state # "none"
        BY <1>1, <2>1, <3>1 DEF AnnouncedInv
      <3>2. CASE Live(jobs)[run.at].state = "none"
        <4>1. Live(jobs') = [Live(jobs) EXCEPT ![run.at] = buildJob]
          <5>1. Live(jobs) \in JobVersions
            BY Reads
          <5>2. [Live(jobs) EXCEPT ![run.at] = buildJob] \in JobVersions
            BY <5>1 DEF JobVersions, buildJob, TypeOK
          <5>3. jobs' = Store(jobs, [Live(jobs) EXCEPT ![run.at] = buildJob])
            BY <1>6, <3>2 DEF CreateJob
          <5> QED BY <5>2, <5>3, StoreKeeps DEF TypeOK
        <4>2. Live(jobs')[run.at].state = "active"
          BY <2>1, <4>1, Reads DEF JobVersions, buildJob
        <4> QED BY <1>1, <2>1, <4>2
      <3> QED BY <3>1, <3>2
    <2>3. run.base.next = Live(eacj).next /\ run.base.next \in {None, run.at}
      BY <2>1 DEF AnnouncedInv
    <2>4. GivesUp' => JobMade(run.base.next)'
      BY <2>1, <2>2, <2>3 DEF GivesUp, JobMade, Times
    <2> QED BY <1>1, <2>1, <2>3, <2>4 DEF AnnouncedInv, JobMade, Times
  <1>7. CASE PatchStatus
    <2>1. run'.pc = "idle"
      BY <1>7, PatchedTime DEF Idle
    <2> QED BY <1>1, <2>1 DEF AnnouncedInv
  <1>8. CASE Abort
    <2>1. run'.pc = "idle"
      BY <1>8 DEF Abort, Idle
    <2> QED BY <1>1, <2>1 DEF AnnouncedInv
  <1>9. CASE Edit
    <2>1. Live(eacj').next = Live(eacj).next /\ UNCHANGED <<run, made>>
      BY <1>9, EditedTime
    <2> QED BY <1>1, <2>1 DEF AnnouncedInv, GivesUp, JobMade, Times
  <1>10. CASE Tick \/ Refresh \/ JobFinishes
    <2>1. UNCHANGED <<run, eacj, made>>
      BY <1>10 DEF Tick, Refresh, JobFinishes
    <2> QED BY <1>1, <2>1 DEF AnnouncedInv, GivesUp, JobMade, Times
  <1>11. CASE ObjectEvent \/ JobEvent
    <2>1. Len(eacj) = 1 /\ Len(jobs) = 1
      BY CacheInStep
    <2>2. Len(eacj) > 1 \/ Len(jobs) > 1
      BY <1>11 DEF ObjectEvent, JobEvent
    <2> QED BY <2>1, <2>2
  <1>12. CASE \/ Suspended \/ FireStored \/ WaitStored \/ FailMissed \/ NotYet \/ ForbidSkip
              \/ FireNow \/ NoSource \/ NoPrices \/ NothingFits \/ FirePast \/ Persist
    <2>1. /\ UNCHANGED eacj /\ run'.base = run.base /\ run.base.next = Live(eacj).next
          /\ run'.pc = "dispatch" => run.base.next \in {None, run'.at}
          /\ run'.pc = "patch" /\ GivesUp' => run.base.spec.suspend
      BY <1>12, DecideKeepsTime
    <2> QED BY <1>1, <2>1 DEF AnnouncedInv
  <1> QED BY <1>3, <1>4, <1>5, <1>6, <1>7, <1>8, <1>9, <1>10, <1>11, <1>12 DEF Next, PassStep

AnnouncedStep ==
    LET t == Live(eacj).next
    IN  lag = 0 /\ t # None /\ Live(eacj').next # t => made[t] # 0 \/ run.base.spec.suspend

LEMMA OnlyPatchesGiveUp ==
    ASSUME TypeOK, AnnouncedInv, Next, UNCHANGED lag, lag = 0
    PROVE  AnnouncedStep
  <1>1. CASE Live(eacj').next = Live(eacj).next
    BY <1>1 DEF AnnouncedStep
  <1>2. CASE PatchStatus
    BY <1>2, PatchedTime DEF AnnouncedInv, AnnouncedStep, GivesUp, JobMade
  <1>3. CASE Edit
    BY <1>1, <1>3, EditedTime
  <1>4. CASE PruneSuccessful \/ PruneFailed \/ ReplaceActive
    BY <1>1, <1>4 DEF PruneSuccessful, PruneFailed, ReplaceActive, DeleteJob
  <1>5. CASE \/ Suspended \/ FireStored \/ WaitStored \/ FailMissed \/ NotYet \/ ForbidSkip
             \/ FireNow \/ NoSource \/ NoPrices \/ NothingFits \/ FirePast \/ Persist
    BY <1>1, <1>5 DEF Suspended, FireStored, WaitStored, FailMissed, NotYet, ForbidSkip,
       FireNow, NoSource, NoPrices, NothingFits, FirePast, Persist, Deciding
  <1>6. CASE \/ Reconcile \/ ListJobs \/ CreateJob \/ Abort \/ Tick \/ Refresh \/ JobFinishes
             \/ JobEvent
    BY <1>1, <1>6 DEF Reconcile, ListJobs, CreateJob, Abort, Tick, Refresh, JobFinishes, JobEvent
  <1>7. CASE ObjectEvent
    <2>1. Len(eacj) = 1 /\ Len(eacj) > 1
      BY <1>7, CacheInStep DEF ObjectEvent
    <2> QED BY <2>1
  <1> QED BY <1>2, <1>3, <1>4, <1>5, <1>6, <1>7 DEF Next, PassStep

(* With caches in step, a start in status.nextScheduledTime is given up     *)
(* only once the Job of that time has been created, or because the object   *)
(* was suspended: over any edits, new prices, late passes and passes that   *)
(* are cut short, the status patch after a dispatch included (steps 2, 3    *)
(* and 11 of Reconcile and dispatchJob, which names the Job by the stored   *)
(* time and takes AlreadyExists for success).                               *)
THEOREM AnnouncedStartsAlwaysMade == Spec => AnnouncedStartMade
  <1> DEFINE Inv == TypeOK /\ (lag = 0 => AnnouncedInv)
  <1>1. Init => Inv
    <2> SUFFICES ASSUME Init PROVE TypeOK /\ AnnouncedInv
      OBVIOUS
    <2>1. run.pc = "idle" /\ \A t \in Times : Live(jobs)[t].state = "none"
      BY DEF Init, Live, Idle, NoJob
    <2> QED BY <2>1, InitTyped DEF AnnouncedInv
  <1>2. Inv /\ [Next /\ UNCHANGED lag]_<<vars, lag>> => Inv'
    <2> SUFFICES ASSUME Inv, [Next /\ UNCHANGED lag]_<<vars, lag>> PROVE Inv'
      OBVIOUS
    <2>1. CASE Next /\ UNCHANGED lag
      <3>1. TypeOK'
        BY <2>1, PassTyped, EventsTyped DEF Next
      <3> QED BY <2>1, <3>1, NextAnnounced
    <2>2. CASE UNCHANGED <<vars, lag>>
      BY <2>2 DEF vars, TypeOK, AnnouncedInv, GivesUp, JobMade, Times
    <2> QED BY <2>1, <2>2
  <1>3. Inv /\ [Next /\ UNCHANGED lag]_<<vars, lag>> => [AnnouncedStep]_vars
    <2> SUFFICES ASSUME Inv, [Next /\ UNCHANGED lag]_<<vars, lag>> PROVE [AnnouncedStep]_vars
      OBVIOUS
    <2>1. CASE lag = 0 /\ Next /\ UNCHANGED lag
      BY <2>1, OnlyPatchesGiveUp
    <2>2. CASE lag # 0
      BY <2>2 DEF AnnouncedStep
    <2>3. CASE UNCHANGED <<vars, lag>>
      BY <2>3
    <2> QED BY <2>1, <2>2, <2>3
  <1> QED BY <1>1, <1>2, <1>3, PTL DEF Spec, AnnouncedStartMade, AnnouncedStep
=============================================================================
