------------------------- MODULE EnergyAwareCronJob -------------------------
(***************************************************************************)
(* The EnergyAwareCronJob controller for one object: the passes of         *)
(* Reconcile, one action per API call and per way to decide, beside the    *)
(* Jobs it creates, the prices an EnergyPriceSource holds, the clock and   *)
(* the user.                                                               *)
(*                                                                         *)
(* A Job is named by its scheduled time (energyAwareCronJobName), so Jobs  *)
(* are a function from times.  status.active, lastSuccessfulTime,          *)
(* nextCronWindow and the conditions are written for people and never read *)
(* back: they are left out, and a patch that changes only them is the      *)
(* identity.  The controller reads the object and the Jobs from its cache  *)
(* (module Versions).                                                      *)
(***************************************************************************)
EXTENDS PriceSelection, Versions, FiniteSets, FiniteSetsExt

CONSTANTS
    Fires,          \* the times at which the cron schedule fires
    SampledGap,     \* the smallest gap of the occurrences that the webhook samples
    Setups,         \* [created, lag]: when the object is created and how many
                    \* versions the caches may be behind from then on
    Specs,          \* the specs a user may give the object
    Day,            \* how long a day of prices is
    Feeds,          \* the price lists a provider may return, from midnight on
    SuccessLimit,   \* successfulJobsHistoryLimit
    FailedLimit,    \* failedJobsHistoryLimit
    MaxMissed,      \* missed occurrences nextScheduleTime skips (100)
    MaxTime,        \* the clock stops here
    MaxEdits,       \* how many edits the user makes
    MaxFaults,      \* how many calls fail and processes crash
    None            \* an absent field

VARIABLES
    lag,        \* how far the caches may be behind, chosen once
    now,        \* the clock
    eacj,       \* versions of the object: [spec, last, next]
    jobs,       \* versions of the Jobs: [Times -> [state, start]]
    prices,     \* status.prices of the EnergyPriceSource, None when it is missing
    run,        \* the pass in progress
    made,       \* history: how often a Job of each name was created, up to 2
    edits,      \* edits made so far, at most MaxEdits
    faults      \* faults so far, at most MaxFaults

vars == <<now, eacj, jobs, prices, run, made, edits, faults>>

Times == 0 .. MaxTime
Policies == {"Allow", "Forbid", "Replace"}
PricePoints == [at : Nat, price : Int]

(* What validateEnergyAwareCronJobSpec admits: the run fits the window, and *)
(* the window is no longer than the gaps of a fixed sample of occurrences.  *)
(* Other gaps may be shorter, where a clock changes or after the sample.    *)
Admitted(s) ==
    /\ s.duration <= s.window
    /\ s.window # 0 => s.window <= SampledGap

ASSUME EACJAssumption ==
    /\ Fires \subseteq Nat \ {0} /\ SampledGap \in Nat
    /\ Setups \subseteq [created : Times, lag : 0 .. MaxLag]
    /\ \E f \in Fires : f > MaxTime
    /\ \A s \in Specs : /\ s.suspend \in BOOLEAN /\ s.policy \in Policies
                        /\ s.window \in Nat /\ s.duration \in Int
                        /\ s.deadline \in Nat \cup {None} /\ s.strategy \in Strategies
                        /\ Admitted(s)
    /\ Day \in Nat \ {0} /\ Feeds \subseteq Seq(PricePoints)
    /\ SuccessLimit \in Nat /\ FailedLimit \in Nat /\ MaxMissed \in Nat
    /\ MaxTime \in Nat /\ MaxEdits \in Nat /\ MaxFaults \in Nat
    /\ None \notin Nat

NoJob == [state |-> "none", start |-> 0]
Idle == [pc |-> "idle", base |-> None, list |-> None, at |-> None, mod |-> None]

(* The listed Jobs in a state; jobFinished tells the states apart.         *)
JobsIn(list, state) == {t \in Times : list[t].state = state}

Init ==
    /\ \E setup \in Setups : lag = setup.lag /\ now = setup.created
    /\ \E s \in Specs : eacj = <<[spec |-> s, last |-> now, next |-> None]>>
    /\ jobs = <<[t \in Times |-> NoJob]>>
    /\ prices = None
    /\ run = Idle
    /\ made = [t \in Times |-> 0]
    /\ edits = 0 /\ faults = 0

(* A write, after which the cache is at most lag versions behind.          *)
Store(log, v) ==
    LET stored == Write(log, v) IN IF Len(stored) > lag + 1 THEN Tail(stored) ELSE stored

-----------------------------------------------------------------------------
(* The schedule.  last is status.lastScheduleTime or, before the first Job, *)
(* the creation time.                                                       *)

(* The occurrences older than the deadline that nextScheduleTime walks over *)
Missed(v, time) ==
    IF v.spec.deadline = None THEN {}
    ELSE {f \in Fires : f > v.last /\ f < time - v.spec.deadline}

TooManyMissed(v, time) == Cardinality(Missed(v, time)) > MaxMissed

(* The first occurrence after last that is not older than the deadline.    *)
nextScheduleTime(v, time) == Min({f \in Fires : f > v.last} \ Missed(v, time))

-----------------------------------------------------------------------------
(* A pass *)

At(pc) == run.pc = pc
Leave(mod) == run' = [run EXCEPT !.pc = "patch", !.mod = mod]
Dispatch(at) == run' = [run EXCEPT !.pc = "dispatch", !.at = at]

(* Get of the object from the cache.                                       *)
Reconcile ==
    /\ At("idle")
    /\ run' = [Idle EXCEPT !.pc = "list", !.base = Cached(eacj)]
    /\ UNCHANGED <<now, eacj, jobs, prices, made, edits, faults>>

(* List of the Jobs from the cache.                                        *)
ListJobs ==
    /\ At("list")
    /\ run' = [run EXCEPT !.pc = "sync", !.list = Cached(jobs)]
    /\ UNCHANGED <<now, eacj, jobs, prices, made, edits, faults>>

(* Delete with background propagation takes the Job away at once; a Job    *)
(* that is not there is not an error.                                      *)
DeleteJob(t) ==
    /\ jobs' = Store(jobs, [Live(jobs) EXCEPT ![t] = NoJob])
    /\ run' = [run EXCEPT !.list[t] = NoJob]
    /\ UNCHANGED <<now, eacj, prices, made, edits, faults>>

Oldest(list, state) ==
    {t \in JobsIn(list, state) :
        \A u \in JobsIn(list, state) : list[t].start <= list[u].start}

(* syncActiveJobs deletes the excess Jobs of the history, oldest first,    *)
(* the successful ones before the failed ones.                             *)
PruneSuccessful ==
    /\ At("sync")
    /\ Cardinality(JobsIn(run.list, "complete")) > SuccessLimit
    /\ \E t \in Oldest(run.list, "complete") : DeleteJob(t)

(* Mutant: one Job too many is deleted.                                    *)
PruneOneMore ==
    /\ At("sync")
    /\ Cardinality(JobsIn(run.list, "complete")) <= SuccessLimit
    /\ Cardinality(JobsIn(run.list, "failed")) >= FailedLimit
    /\ \E t \in Oldest(run.list, "failed") : DeleteJob(t)

PruneFailed ==
    /\ At("sync")
    /\ Cardinality(JobsIn(run.list, "complete")) <= SuccessLimit
    /\ Cardinality(JobsIn(run.list, "failed")) > FailedLimit
    /\ \E t \in Oldest(run.list, "failed") : DeleteJob(t)

(* The rest of a pass decides on what was read, the clock and the prices.  *)
Deciding ==
    /\ At("sync")
    /\ Cardinality(JobsIn(run.list, "complete")) <= SuccessLimit
    /\ Cardinality(JobsIn(run.list, "failed")) <= FailedLimit
    /\ UNCHANGED <<now, eacj, jobs, prices, made, edits, faults>>

Suspended ==
    /\ Deciding
    /\ run.base.spec.suspend
    /\ Leave([run.base EXCEPT !.next = None])

Stored == ~run.base.spec.suspend /\ run.base.next # None

(* Mutant: a stored time is not waited for.                                *)
FireStoredEarly ==
    /\ Deciding /\ Stored
    /\ Dispatch(run.base.next)

(* Mutant: the Job of a stored time is made for the current one.           *)
FireStoredNow ==
    /\ Deciding /\ Stored
    /\ run.base.next <= now
    /\ Dispatch(now)

FireStored ==
    /\ Deciding /\ Stored
    /\ run.base.next <= now
    /\ Dispatch(run.base.next)

WaitStored ==
    /\ Deciding /\ Stored
    /\ run.base.next > now
    /\ Leave(run.base)

Unscheduled == ~run.base.spec.suspend /\ run.base.next = None

(* failWith, here for more than MaxMissed missed occurrences.              *)
FailMissed ==
    /\ Deciding /\ Unscheduled
    /\ TooManyMissed(run.base, now)
    /\ Leave(run.base)

(* The occurrence this pass works on.                                      *)
Occurrence == nextScheduleTime(run.base, now)

NotYet ==
    /\ Deciding /\ Unscheduled
    /\ ~TooManyMissed(run.base, now)
    /\ Occurrence > now
    /\ Leave(run.base)

Due == Unscheduled /\ ~TooManyMissed(run.base, now) /\ Occurrence <= now

(* Mutant: a running Job is not looked for.                                *)
NeverForbidden == FALSE

Forbidden == run.base.spec.policy = "Forbid" /\ JobsIn(run.list, "active") # {}

(* Mutant: the occurrence that is skipped is not recorded.                 *)
ForbidSkipUnrecorded ==
    /\ Deciding /\ Due
    /\ Forbidden
    /\ Leave(run.base)

ForbidSkip ==
    /\ Deciding /\ Due
    /\ Forbidden
    /\ Leave([run.base EXCEPT !.last = now])

FireNow ==
    /\ Deciding /\ Due /\ ~Forbidden
    /\ run.base.spec.window = 0
    /\ Dispatch(now)

Windowed == Due /\ ~Forbidden /\ run.base.spec.window # 0
WindowEnd == Occurrence + run.base.spec.window
WindowPrices == filterPricesInWindow(prices, Occurrence, WindowEnd)
SelectedPoint ==
    selectPricePoint(WindowPrices, run.base.spec.strategy, run.base.spec.duration, WindowEnd)

(* No EnergyPriceSource, no point in the window, or no run that fits: the  *)
(* pass ends with a condition and retries.                                 *)
NoSource ==
    /\ Deciding /\ Windowed
    /\ prices = None
    /\ Leave(run.base)

NoPrices ==
    /\ Deciding /\ Windowed
    /\ prices # None /\ WindowPrices = <<>>
    /\ Leave(run.base)

NothingFits ==
    /\ Deciding /\ Windowed
    /\ prices # None /\ WindowPrices # <<>>
    /\ SelectedPoint = NoPoint
    /\ Leave(run.base)

Optimal ==
    /\ prices # None /\ WindowPrices # <<>>
    /\ SelectedPoint # NoPoint

FirePast ==
    /\ Deciding /\ Windowed /\ Optimal
    /\ SelectedPoint.at <= now
    /\ Dispatch(now)

Persist ==
    /\ Deciding /\ Windowed /\ Optimal
    /\ SelectedPoint.at > now
    /\ Leave([run.base EXCEPT !.next = SelectedPoint.at])

-----------------------------------------------------------------------------
(* dispatchJob *)

Replacing == run.base.spec.policy = "Replace" /\ JobsIn(run.list, "active") # {}

ReplaceActive ==
    /\ At("dispatch") /\ Replacing
    /\ \E t \in JobsIn(run.list, "active") : DeleteJob(t)

(* Mutant: the time a Job was dispatched at is not recorded.               *)
DispatchedUnrecorded(v, at) == [v EXCEPT !.next = None]

(* The status a dispatch leaves.                                           *)
Dispatched(v, at) == [v EXCEPT !.last = at, !.next = None]

(* The Job as it runs; its name is the time it is dispatched for.          *)
buildJob == [state |-> "active", start |-> now]

(* AlreadyExists is taken for success.                                     *)
CreateJob ==
    /\ At("dispatch") /\ ~Replacing
    /\ Leave(Dispatched(run.base, run.at))
    /\ IF Live(jobs)[run.at].state = "none"
       THEN /\ jobs' = Store(jobs, [Live(jobs) EXCEPT ![run.at] = buildJob])
            /\ made' = [made EXCEPT ![run.at] = IF @ < 2 THEN @ + 1 ELSE @]
       ELSE UNCHANGED <<jobs, made>>
    /\ UNCHANGED <<now, eacj, prices, edits, faults>>

(* The merge patch of the status subresource.                              *)
PatchStatus ==
    /\ At("patch")
    /\ LET live == Live(eacj)
       IN  eacj' = Store(eacj,
                     [live EXCEPT !.last = Merge(live.last, run.base.last, run.mod.last),
                                  !.next = Merge(live.next, run.base.next, run.mod.next)])
    /\ run' = Idle
    /\ UNCHANGED <<now, jobs, prices, made, edits, faults>>

(* A call fails, or its answer is lost, or the process crashes: the pass   *)
(* ends where it is and another one begins from the cache.                 *)
Abort ==
    /\ ~At("idle")
    /\ faults < MaxFaults
    /\ faults' = faults + 1
    /\ run' = Idle
    /\ UNCHANGED <<now, eacj, jobs, prices, made, edits>>

PassStep ==
    \/ Reconcile \/ ListJobs \/ PruneSuccessful \/ PruneFailed
    \/ Suspended \/ FireStored \/ WaitStored \/ FailMissed \/ NotYet \/ ForbidSkip
    \/ FireNow \/ NoSource \/ NoPrices \/ NothingFits \/ FirePast \/ Persist
    \/ ReplaceActive \/ CreateJob \/ PatchStatus

-----------------------------------------------------------------------------
(* Around the controller *)

Tick ==
    /\ now < MaxTime
    /\ now' = now + 1
    /\ UNCHANGED <<eacj, jobs, prices, run, made, edits, faults>>

JobFinishes ==
    /\ \E t \in JobsIn(Live(jobs), "active"), s \in {"complete", "failed"} :
          jobs' = Store(jobs, [Live(jobs) EXCEPT ![t].state = s])
    /\ UNCHANGED <<now, eacj, prices, run, made, edits, faults>>

(* The EnergyPriceSource replaces its prices by those of the day; nothing  *)
(* of an earlier day is left.                                              *)
Refresh ==
    /\ \E feed \in Feeds :
          prices' = [i \in DOMAIN feed |->
                        [feed[i] EXCEPT !.at = @ + (now \div Day) * Day]]
    /\ UNCHANGED <<now, eacj, jobs, run, made, edits, faults>>

Edit ==
    /\ edits < MaxEdits
    /\ edits' = edits + 1
    /\ \E s \in Specs : eacj' = Store(eacj, [Live(eacj) EXCEPT !.spec = s])
    /\ UNCHANGED <<now, jobs, prices, run, made, faults>>

ObjectEvent ==
    /\ Len(eacj) > 1
    /\ eacj' = Tail(eacj)
    /\ UNCHANGED <<now, jobs, prices, run, made, edits, faults>>

JobEvent ==
    /\ Len(jobs) > 1
    /\ jobs' = Tail(jobs)
    /\ UNCHANGED <<now, eacj, prices, run, made, edits, faults>>

Next ==
    \/ PassStep \/ Abort
    \/ Tick \/ JobFinishes \/ Refresh \/ Edit \/ ObjectEvent \/ JobEvent

(* Every return of Reconcile asks for another pass, or patched the object, *)
(* or waits for an edit, and SetupWithManager watches the object, its Jobs  *)
(* and the price source, so passes do not stop (some PassStep is enabled   *)
(* in every state); the caches catch up, time passes and the provider is   *)
(* asked again.                                                            *)
Fairness ==
    /\ []<><<PassStep>>_vars
    /\ WF_vars(ObjectEvent) /\ WF_vars(JobEvent)
    /\ WF_vars(Tick) /\ WF_vars(Refresh)

Spec == Init /\ [][Next /\ UNCHANGED lag]_<<vars, lag>> /\ Fairness

-----------------------------------------------------------------------------
(* Properties *)

Stamps == Nat \cup {None}
ObjectVersions == [spec : Specs, last : Nat, next : Stamps]
JobVersions == [Times -> [state : {"none", "active", "complete", "failed"}, start : Times]]

(* The clock, the object, the Jobs, the pass and the counters have their   *)
(* types; a pass that dispatches has listed the Jobs and has a time, and   *)
(* one that patches has a status (Reconcile's local variables).            *)
TypeOK ==
    /\ now \in Times /\ lag \in 0 .. MaxLag
    /\ eacj \in Seq(ObjectVersions) /\ Len(eacj) \in 1 .. (lag + 1)
    /\ jobs \in Seq(JobVersions) /\ Len(jobs) \in 1 .. (lag + 1)
    /\ prices # None => prices \in Seq(PricePoints)
    /\ run \in [pc : {"idle", "list", "sync", "dispatch", "patch"},
                base : ObjectVersions \cup {None}, list : JobVersions \cup {None},
                at : Stamps, mod : ObjectVersions \cup {None}]
    /\ run.pc # "idle" => run.base \in ObjectVersions
    /\ run.pc \in {"sync", "dispatch"} => run.list \in JobVersions
    /\ run.pc = "dispatch" => run.at \in 0 .. now
    /\ run.pc = "patch" => run.mod \in ObjectVersions
    /\ made \in [Times -> 0 .. 2]
    /\ edits \in 0 .. MaxEdits /\ faults \in 0 .. MaxFaults

(* One Job for each occurrence of the schedule: over any passes, edits and *)
(* refreshed prices, at most one Job is created from one occurrence until  *)
(* the next (Reconcile's use of lastScheduleTime and nextScheduledTime).   *)
OncePerOccurrence ==
    \A f \in Fires :
       LET until == {t \in Times : f <= t /\ \A g \in Fires : g <= f \/ t < g}
       IN  \A t, u \in until : made[t] # 0 /\ made[u] # 0 => t = u /\ made[t] = 1

Created(t) == Live(jobs)[t].state = "none" /\ Live(jobs')[t].state = "active"
Deleted(t) == Live(jobs)[t].state # "none" /\ Live(jobs')[t].state = "none"

(* A Job created under Forbid or Replace is the only one that runs, when   *)
(* the controller sees what runs: step 7 of Reconcile, which stored times  *)
(* pass without a second look, and the deletions of dispatchJob.           *)
NoOverlap ==
    [][\A t \in Times :
          lag = 0 /\ Created(t) /\ run.base.spec.policy # "Allow"
          => JobsIn(Live(jobs'), "active") = {t}]_vars

(* A start that was announced is made: while the controller sees the object *)
(* as it is, the time in status.nextScheduledTime is given up only when the *)
(* Job of that time has been created or the object is suspended, whatever   *)
(* prices and spec say meanwhile, however late the pass comes and though    *)
(* status patches are lost (steps 2, 3 and 11 of Reconcile).                *)
AnnouncedStartMade ==
    [][LET t == Live(eacj).next
       IN  lag = 0 /\ t # None /\ Live(eacj').next # t
           => made[t] # 0 \/ run.base.spec.suspend]_vars

(* syncActiveJobs deletes only finished Jobs, and at least as many of the  *)
(* kind as the limit asks for, no older than the deleted one, stay.        *)
HistoryKept ==
    [][\A t \in Times :
          Deleted(t) /\ run.pc = "sync"
          => LET s == Live(jobs)[t].state
                 kept == {u \in JobsIn(Live(jobs'), s) : Live(jobs)[u].start >= Live(jobs)[t].start}
             IN  /\ s # "active"
                 /\ Cardinality(kept) >= (IF s = "complete" THEN SuccessLimit ELSE FailedLimit)]_vars

(* The schedule keeps up with the clock: every occurrence whose window the *)
(* model's clock sees the end of is eventually behind lastScheduleTime,    *)
(* unless the user suspends the object.                                    *)
KeepsUp ==
    \A f \in {g \in Fires : \A s \in Specs : g + s.window <= MaxTime} :
       now >= f ~> (Live(eacj).last >= f \/ Live(eacj).spec.suspend)

(* Occurrence f has come and the prices held now allow a run in its window. *)
Priced(f) ==
    LET s == Live(eacj).spec
        points == filterPricesInWindow(prices, f, f + s.window)
    IN  /\ f <= now /\ prices # None
        /\ selectPricePoint(points, s.strategy, s.duration, f + s.window) # NoPoint

(* README.md:348: a Job is scheduled "at the cheapest energy price slot    *)
(* within a configurable window around each cron fire time": an occurrence *)
(* whose prices are there to stay is eventually scheduled or overtaken.    *)
PricedOccurrenceServed ==
    \A f \in {g \in Fires : \A s \in Specs : g + s.window <= MaxTime} :
       <>[]Priced(f) => <>(Live(eacj).last >= f \/ Live(eacj).spec.suspend)
=============================================================================
