# Verification of kube-greencosts

TLA+ models of the kube-greencosts operator: the two controllers that put
workloads to sleep outside availability windows, the windows themselves, the
controller that starts Jobs when energy is cheap, and the way the prices take
from a provider's response to the selected start. TLC checks the models on small
instances; TLAPS proves the safety properties of all of them, and that the
hibernation controllers implement an abstract specification, for every instance.

Run `tlc -config X.cfg M` for a run of `PROJECT.json` and `tlapm M.tla` for the
proofs of a module whose name ends in `Proofs`.

## 1. Inventory

The operator is one manager process. Its controllers share a client that *reads from
an informer cache*, which may lag behind the API server, and *writes JSON merge
patches* (`client.MergeFrom`) that carry only the fields that differ between what
was read and what is wanted, without a resourceVersion. No write is refused because
the object changed: every read-decide-patch is open to interleaving.

| Component | State | Operations | Talks to |
|---|---|---|---|
| HibernatePolicy controller (`hibernatepolicy_controller.go`) | markers in annotations of workloads, `status.hibernatedWorkloads` | per reconcile: read policy and clock; for each workload type list, then hibernate or wake each listed object; patch status | workloads of its namespace, HPAs |
| ClusterHibernatePolicy controller (`clusterhibernatepolicy_controller.go`) | the same markers, its own status | collect refs by namespace and workload annotation; Get, then hibernate or wake each; patch status | workloads of all namespaces, HPAs |
| HPA helpers (`helpers.go`) | original bounds and target in annotations of the HPA | `suspendHPA` (detach for target 0, clamp otherwise), `restoreHPA` | HPAs |
| EnergyAwareCronJob controller (`energyawarecronjob_controller.go`) | `lastScheduleTime`, `nextScheduledTime`, the Jobs | a pass: sync and prune Jobs, suspend, fire or wait for a stored time, find the occurrence, Forbid, pick the best start, dispatch, patch status | Jobs, EnergyPriceSource |
| Price selection (same file) | none | `filterPricesInWindow`, `pricePointScore`, `selectPricePoint` | |
| EnergyPriceSource controller (`energypricesource_controller.go`) | `status.prices`, `lastUpdated` | TTL check, refresh schedule, fetch, replace prices | providers, Secrets |
| Availability windows (in the HibernatePolicy file) | none | whether now is in a window; the next start; the requeue delay | |
| Webhooks (`internal/webhook`) | none | validate specs on admission | |
| Providers (`internal/providers`) | none | fetch, convert units, sort or join the points of a response | outside services |
| Price metrics (`energypricesource_metrics.go`) | none | the price in force now, of the stored ones | EnergyPriceSource |
| Telemetry, metrics client, `cmd/main.go` | none that is read back | exporters, start-up | outside services |

What is hard:

* **two writers of one workload.** Both controllers run at the same time, each with
  one worker, on the same annotations; each decides on what it read and patches
  later;
* **stale reads**, also of one's own last write;
* **several objects, no transaction.** A workload and its HPA are patched by two
  calls; either may fail, or be applied and its answer lost, or the manager may
  crash in between;
* **people**: policies, annotations and workloads change while workloads sleep;
* **time**: a start time is stored in one pass and used in a later one, under
  another spec, other prices and other running Jobs;
* **retries** of a dispatch whose status patch was lost;
* **the calendar**: windows are wall-clock times in a zone, the clocks of a zone
  change, and a policy looks again only when the delay of its last reconcile is over;
* **one worker for all price sources**, which fetch only when the TTL is over *and*
  the schedule fires within a minute: a fire that is missed is not made up for.

What makes the parts correct: a workload never loses its original count or node
selector, and neither does its HPA; only its owner wakes it; it wakes in windows and
sleeps outside them; an occurrence of the schedule gives one Job, at the best price
of its window, within the concurrency policy; the schedule keeps moving; no window
boundary is slept through; the points of a response reach the selection complete, in
order and in one unit; a source is never forgotten and its prices are as fresh as its
schedule and TTL allow.
`PROJECT.json` lists each hazard with its line and the properties on it.

## 2. Modules

| Module | Models |
|---|---|
| `Versions` | an API object as the sequence of its versions, from the cached one to the live one; merge of a patch |
| `Cluster` | workloads, HPAs, policies, annotations; `helpers.go`; the annotation functions; users, clock and watch events |
| `HibernatePolicy`, `ClusterHibernatePolicy` | one controller each; variable `hp`, `chp` is the reconcile in progress |
| `Hibernation` | both controllers interleaved, with crashes; all hibernation properties |
| `SleepAndWake` | the abstract specification: an object is awake with a count it was asked for, or sleeps below one and keeps it |
| `HibernationProofs`, `RefinementProofs`, `HPAProofs` | the TLAPS proofs of `Hibernation` (the last: what holds for one worker) |
| `AvailabilityWindows` | the window helpers, the webhook's validation, and one policy reconciled by the delays it asks for; proofs in `WindowProofs` |
| `PriceSelection` | the selection as functions; what its loops compute is proved in `SelectionProofs` |
| `Providers` | what each provider makes of a response; the current price of the metrics |
| `EnergyPriceSource` | several sources, one worker, the queue and its timers; proofs in `SourceProofs` |
| `EnergyAwareCronJob` | passes of one object, its Jobs, prices, clock, user; proofs in `JobProofs` |
| `MCRace`, `MCSerial`, `MCSingle`, `MCKinds`, `MCWindows`, `MCSources`, `MCJobs` | instances for TLC |
| `MCPrices` | composes `Providers` and `PriceSelection` from the published list to the start that is selected, with the reference definitions; proofs in `PriceProofs` |

### Reads, writes, caches

`wl[w]` is a sequence of versions: its head is what the client reads (`Cached`), its
last element what the API server holds (`Live`). A write appends; a watch event
drops the head; the cache is at most `MaxLag` versions behind. `Merge(live, base, mod)` is
one field of a merge patch: the live value stays unless `mod` differs from `base`.
Node selectors merge key by key, and an empty one deletes the field. Both
controllers share one cache, as they do in the manager.

### Hibernation

A workload version is `[spec, hib, by, orig]`: replica count or node selector, the
marker, the owner (the three `hibernated-by-*` annotations name one policy), the
stored original. An HPA version has its bounds, whether it still targets the
workload, and the stored originals.

A reconcile is a program counter with what the Go function keeps in local variables.
In the HibernatePolicy controller, `snap` is the listing: taken once for a type, and the base
of every patch made for it. In the ClusterHibernatePolicy controller, `base`
is the version a Get returned just before. Each API call is an action, so the other
controller, a user, a watch event or a crash may come between any two. `HPPatchFails`
and its like end a type (HibernatePolicy) or a ref (ClusterHibernatePolicy), as the error
returns do; a patch that fails may have been applied. `wanted` is a history
variable: every spec a user asked for while the workload was awake.

`SleepAndWake` has none of this: `Hibernation` maps the *live* version of each
workload with replicas to its `asleep`, `runs` and `kept`, and `wanted` to `asked`. The
abstract specification lets an object come back with an earlier request, because a
patch from an old version may bring one back; it never lets it run as much as it
keeps while it sleeps, or wake with a count nobody asked for.

### Availability windows

`Hibernation` takes `inWindow` as an input that may flip at any time;
`AvailabilityWindows` models what computes it. Times are instants; a zone is its offset
before and after a change of the clocks, and `Date` is Go's `time.Date`, which has to guess the
offset. `Reconcile` reads the clock once, `Finish` computes the delay from the boundary that
this reading gave and the clock at the end, `Fail` leaves the delay to the queue's
back-off. `Tick` does not pass over a timer that has run out.

### EnergyPriceSource

One action for each return of `Reconcile`, and `BeginFetch` before the calls of the
provider, which take time while the other sources wait. Time is relative (the phase
of the schedules, the ages of the prices, the time left of each timer), so that
the model has no last moment and liveness can be checked without one. A status
patch brings the source back at once, except a condition that
repeats what the same second wrote; this is why `stamped` is state.

### EnergyAwareCronJob

A pass is `Reconcile` (Get), `ListJobs`, the deletions of the history, one decision,
the dispatch (deletions under Replace, Create) and the status patch. The decision
has one action for each `return` of Reconcile. A Job is named by its scheduled time,
so Jobs are a function from times; creating a name that exists changes nothing.
`made` counts creations of each name. `Refresh` replaces the prices by those of the
current day, which is what the EnergyPriceSource does to its readers.

## 3. Runs

Hibernation, passing:

| Run | Instance | Shows |
|---|---|---|
| `race` | both controllers, caps 1 and 2, an HPA, one fault | `OriginalsKept`, `ImplementsSleepAndWake`, `AwakeInWindows`, `AsleepOutsideWindows`, with HPA calls between the patches |
| `serial` | two policies, one worker, one edit, also of a sleeping workload. Either HibernatePolicies on one Deployment, which detach and clamp its HPA, with two faults; or ClusterHibernatePolicies with kind filters and opt-in annotations on several kinds | `HPAOriginalsKept`, `HPARestored`, `HPASuspended`, `OnlyOwnerWakes`, `OwnerKept` (the first); `AnnotationWins` (the second); `TypeOK`, `OriginalsKept`, `StatusSettles`, `AwakeInWindows` (both) |
| `kinds` | a HibernatePolicy, every kind, a legacy marker, a managed ReplicaSet, an HPA; the cache a version behind for each object | `OriginalsKept`, `AwakeInWindows`, `AsleepOutsideWindows`, `StatusSettles` |
| `windows` | lists of one window at any of several times and days, or of two that overlap, touch or lie apart, in four zones, two with a change of clocks; lists the webhook rejects are filtered by it | `BoundaryMet`, `ReadsTheWallClock`, `AdmittedWindowsOpen` |

Prices and schedule, passing:

| Run | Instance | Shows |
|---|---|---|
| `prices` | every chronological list of at most 4 points at times 0..5, three prices; every order of the items; every cut into two ENTSO-E periods or two enever days; all windows, durations and strategies | `SelectionIsBest`, `OrderRestored`, `JoinedInOrder`, `CurrentPriceInForce` |
| `sources` | two sources with schedules apart, one whose TTL is the whole interval and one with a TTL of zero, and one with a broken schedule; events at any time, one fault or restart | `TypeOK`, `NeverForgotten`, `PricesFresh`, `RefreshedAgain` |
| `jobs` | two occurrences closer together than the window that the webhook admitted, an edit of suspend, window or deadline, under Allow, late and short price feeds | `OncePerOccurrence`, `AnnouncedStartMade`, `HistoryKept`, `TypeOK` |
| `jobs_live` | Forbid and Replace, one fault at any call; two occurrences with caches in step, or one with caches a version behind | `KeepsUp`, `NoOverlap`, `AnnouncedStartMade` |

Runs where the program does not do what its documents say (`expect: violation`; the
findings quote the sentence):

| Run | What happens |
|---|---|
| `race_owner` | both controllers decide on the awake version; B's patch overwrites A's marker; A, from its listing, wakes what is now B's |
| `hpa_stale` | the cached HPA does not show its suspension yet; the wake-up restores nothing, clears the workload's marker, and no later reconcile looks again |
| `jobs_stuck` | the prices of an elapsed window are gone, every pass waits for them and `lastScheduleTime` never advances |
| `prices_edge` | a run that would end with the window is never priced: the point at the end of the window is filtered out, and the last interval has no end without it. A dearer slot is taken, or none when the duration is the whole window |

`SelectionIsBest` is what `selectPricePoint` does with the points it is handed; `BestOfTheWindow`,
in `prices_edge`, is what the documents say of the window.

More that the models do because the code does, noted here because a reader of the
documents would not expect it:

* with two workers, one policy detaches or clamps the HPA and the other clamps it
  from the version before; after a restore the HPA has the clamped
  bounds and no annotation (`HPAOriginalsKept` holds for one worker, `serial`, and
  fails for two, with caps 0 and 1 as with caps 1 and 2);
* a user who puts a sleeping workload back to its original count by hand makes the
  wake-up patch carry no count, and what the other controller lowered meanwhile stays
  (the premise `~NightEdits` of the theorem);
* a workload whose kind is taken out of `workloadTypes`, or whose policy is deleted, while
  it sleeps, stays asleep (the premise `Restorable` of `AwakeInWindows`);
* after an error the status omits workloads that sleep, until the next reconcile
  (`StatusSettles` is about what comes after);
* a window boundary that passes while a reconcile is at work is met up to
  `windowCheckInterval` late, because the delay is computed from the clock read at its start;
* on the day the clocks change a window follows the instants `time.Date` gives, which
  is not always what a clock on the wall shows (`ReadsTheWallClock` leaves that day out);
* a new source has no prices until its schedule first fires, and an expired TTL alone never
  fetches, though `api/v1alpha1/energypricesource_types.go:99` calls it the time "before a forced refresh"; prices
  stay in the status after it;
* a failed fetch is retried after five minutes, when the fire is past: the retry
  waits for the next fire;
* a TTL that, with the time of the fetch, is longer than the interval of the schedule skips every second fire;
* two sources that fire at the same time share one worker: the second may find its
  fire past, and always the same one may lose (the premise `Apart`);
* an unparsable schedule is reconciled about once a second: the error condition carries the
  time, so its patch is an event of its own;
* ENTSO-E and enever keep the order of the response, though
  `internal/providers/interface.go:40` asks for chronological order of all;
* a source with a TTL of zero fetches again and again in the minute before a fire. The
  patch that repeats the status of the same second changes nothing and brings no event, so
  the worker still comes to the other sources;
* the webhook compares the window with the gaps of a sample of occurrences; where a later
  gap is shorter the window reaches beyond the next occurrence, and a Job that starts
  there records a time after it: that occurrence is passed over;
* a pass on a stale version may put a start computed from newer prices over one that was
  announced (`AnnouncedStartMade` is stated of caches in step);
* a Job starts after its window when the prices come late, and after its deadline when
  the time was stored;
* a policy changed to Forbid after a time was stored does not hold that Job back;
* under Replace a dispatch whose status patch is lost is repeated: the running Job is
  deleted and created again under its name.

### Bounds

* One workload and two policies are enough for the races: both controllers treat
  workloads one by one and share no state between them but their own status; `MCKinds` has
  several workloads for what depends on the kind.
* `MaxLag = 1`, with one worker (`kinds`, `hpa_stale`, `jobs_live`): a reconcile may read
  the version before the last write. The runs with two workers have no lag. Safety with two
  workers and any lag is covered by the proofs, which have no bound; liveness with
  two workers *and* a lag is not checked.
* In `serial` the policies of the other controller do not exist, and nobody creates them;
  faults happen with the HibernatePolicies only. The error paths of the other controller
  are in `race`.
* Two replica counts above both caps in `race` and `serial`, so that a lost or mixed-up original shows.
* A day of six units and `windowCheckInterval` of three: windows shorter than, as long as and longer
  than the interval, in each half of a day, over a week and the change of clocks in it.
* The schedules of `sources` have an interval of five seconds for a minute's lead of one: what
  matters is the order of lead, fetch, retry, TTL and interval, and both orders of
  TTL and interval are there, with a TTL of zero as the extreme of one.
* One fault, or two in `serial`: enough for a failure and a failure of the retry.
* Two occurrences before the clock stops and one after it, windows of two or three
  units with the best price inside; `MaxMissed` stands for the code's 100. In `jobs` the
  occurrences are two units apart and the sampled gap (`SampledGap`) is three, so that the
  first window covers the second occurrence.
* Windows are flipped without bound; edits and faults are counted (`MaxEdits`,
  `MaxFaults`).

`OncePerOccurrence` is checked with caches in step and no faults. With either of them a
dispatch "now" may be made twice under two names, which no document excludes. `NoOverlap` is
checked with the cache in step and the concurrency policy fixed. `KeepsUp` with a
lagging cache is checked on one occurrence only, for size.

### Fairness

* A worker goes on with a reconcile it began (`WF` on the progress steps; failures
  are never forced), and watch events arrive.
* Every existing policy is reconciled again: each return of Reconcile asks for a
  requeue, at the latest after `windowCheckInterval`, or returns an error that the
  queue retries. Another policy may take the worker's turn, hence `SF`.
  `MCSerial` states this of two pairs of policies, of each of which one does not exist.
* EnergyAwareCronJob: some step of a pass is enabled in every state and every return
  either requeues, has patched the object (whose watch event brings the next pass)
  or waits for a user; `[]<><<PassStep>>_vars` says that passes go on. Time passes,
  and the price source is refreshed again and again.
* EnergyPriceSource: time passes (`WF` on `Tick`), and the worker takes each source that is ready and goes
  on with it (`WF` on `Reconcile(s)`): the work queue is first come, first served.
  Events, failures and restarts are never forced.

`WindowBoundary`, edits, faults and the end of a Job are never fair.

### What the models leave out

* Policy specs and opt-in annotations are read without lag: a stale read of them
  is the same reconcile a little earlier, as each is read once.
* One HPA for a workload, present throughout; workloads are not deleted (a patch of
  a deleted object is an error the models have). The autoscaler's own writes.
* Users edit sleeping workloads only where `NightEdits` is TRUE.
* Output-only status fields: conditions, `active`, `lastSuccessfulTime`,
  `nextCronWindow`. A patch of these alone is the identity.
* The clock and the prices are read in one step with the decision.
* An EnergyPriceSource is read without lag and not deleted. Which of the token, the provider
  and the fetch failed is one choice.
* Of the providers: the requests, the JSON and XML decoding, size limits and the factories'
  configuration checks, which are success or failure; prices are integers.
* Windows whose times do not parse, which the CRD and the webhook reject.
* Metrics that copy a field of the status.
* Scores are compared before the division by the duration, which is the same for all.
* A namespace annotation and a workload annotation are read one after the other, the
  lists of the four kinds in one step.
* A crash refreshes the caches of workloads and HPAs; in the EnergyAwareCronJob
  module a crash is `Abort`, with the cache left as it was.

## 4. Proofs

Every theorem holds for every value of the constants that the assumptions below
allow: any number of objects, lists of any length, any bounds. The premises are part of
the theorems.

| Theorem | States |
|---|---|
| `HibernationProofs!TypeCorrect` | `Spec => []TypeOK` |
| `HibernationProofs!AlwaysInductive` | `Spec => []Inductive` |
| `HibernationProofs!OriginalsAlwaysKept` | `~NightEdits => (Spec => []OriginalsKept)` |
| `RefinementProofs!Refinement` | `~NightEdits => (Spec => ImplementsSleepAndWake)` |
| `HPAProofs!HPAOriginalsAlwaysKept` | `OneWorker => (Spec => []HPAOriginalsKept)` |
| `HPAProofs!OnlyOwnersWake`, `OwnersAlwaysKept` | `OneWorker => (Spec => OnlyOwnerWakes)`, the same for `OwnerKept` |
| `WindowProofs!WindowsReadAsWritten`, `EveryAdmittedWindowOpens` | `Spec => []ReadsTheWallClock`, `Spec => []AdmittedWindowsOpen` |
| `WindowProofs!BoundaryAlwaysMet` | `SteadyZones => (Spec => []BoundaryMet)` |
| `SourceProofs!TypesKept`, `NoSourceForgotten`, `PricesStayFresh` | `Spec => []` of `TypeOK`, `NeverForgotten`, `PricesFresh` |
| `JobProofs!TypesKept` | `Spec => []TypeOK` |
| `JobProofs!OneJobPerOccurrence` | `Spec => [](lag = 0 /\ faults = 0 => OncePerOccurrence)` |
| `JobProofs!AnnouncedStartsAlwaysMade` | `Spec => AnnouncedStartMade` |
| `JobProofs!HistoryAlwaysKept` | `MaxLag = 0 => (Spec => HistoryKept)` |
| `JobProofs!NeverOverlaps` | `MaxEdits = 0 => (Spec => NoOverlap)` |
| `PriceProofs!SelectionAlwaysBest`, `OrderAlwaysRestored`, `AlwaysJoinedInOrder`, `CurrentPriceAlwaysInForce` | `Spec => []` of the four properties of the run `prices` |

The premises, each needed:

* `~NightEdits`: users leave sleeping workloads alone (the list in section 3 has what happens otherwise);
* `OneWorker`: no ClusterHibernatePolicies and a cache in step; without it the runs
  `race_owner` and `hpa_stale` have the counterexamples;
* `SteadyZones`: no zone of the policy changes its clocks. Across a change, `BoundaryMet` rests on the
  guess of `time.Date`, and only the run `windows` checks it;
* `lag = 0`, `faults = 0`, `MaxLag = 0`: caches in step and no pass cut short; otherwise a dispatch "now" may be
  repeated under another name. And a cache two versions behind may still list as finished a Job
  that was pruned and, after a lost status patch, created again under its name: pruning then deletes the
  running one (TLC finds it with `MaxLag = 2`, one fault and a limit of 0). `NoOverlap` and `AnnouncedStartMade` carry `lag = 0` themselves;
* `MaxEdits = 0`: the user leaves the spec alone, since a policy changed to Forbid does not
  hold back a stored time.

Assumptions, which TLC evaluates on the runs: `ClusterAssumption` (kinds, namespaces, HPA
bounds at least 1 and in order, caps natural numbers or absent), `NoneAssumption` (the absent
value is no value), `LagAssumption`, `WindowAssumption` (a weekday at least and times of the day, which
the schema asks for; a change of clocks of a day at most), `SourceAssumption` (offsets within the period, TTLs of zero or more, a
retry above zero), `EACJAssumption` (specs that the webhook admits, whose windows are no longer than the
sampled gap though the gaps of the schedule may be; an occurrence after the
last moment) and `PricesAssumption` (integer prices).

**Originals.** `OriginalsKept` is not inductive. A wake-up patch carries the replica count only if
it differs from the one that was read; were a sleeping version to run with its
original count already, a patch from it would leave whatever count the live version has.
So the invariant says more of *every version*, cached or live: a sleeping one runs
strictly below the original it stored, an awake one stores none (`Sound`). And
a worker holds a version across other steps, so the invariant says of *the version each
worker will patch from* that it is sound and of the kind its decision was made on
(`ReadyToPatch`): asleep for a wake-up; awake and above the cap for a hibernation.
Two lemmas, `HibernatePatch` and `WakePatch`, are the heart: for any two sound
versions, live and base, the merged version is sound. The rest is one lemma for
each group of actions.

**Refinement.** The argument needs no more of the two controllers than this: a step rewrites the log
of one workload at most (`HPOneAtATime` and its like), and the version the API
server holds afterwards is sound, which is `Inductive` in the next state. Sound versions are the
states of `SleepAndWake`, and each change from one to another is `Sleep`, `Wake` or `Again`; an
edit of an awake workload is `Ask`. A watch event or a crash drops old versions and is a stutter.

**HPA.** With one worker and caches in step nothing writes the HPA between its read and
its patch. The invariant (`HPAReady`) says so: the version the worker patches from is
still the live one, and is suspended exactly when the patch restores. A patch from the
live version is the version wanted (`MergeOwnHPA`), and `suspendHPA` and
`restoreHPA` keep the originals on such versions (`SuspendKnows`, `RestoreKnows`).

**Ownership.** A listing is used for a whole workload type, so the version a workload is patched from may be
old: users change specs meanwhile. But nobody else changes a marker, so `OwnerInv` says that marker and owner
of every listed workload that is still to do are the live ones, except of the one that the
worker itself has just put to sleep and whose HPA it is at (`PutToSleep`). With that, `ownedBy` on the
listed version is `ownedBy` on the one that is overwritten (`OwnPatch`).

**Windows.** The two lookups are turned into arithmetic: a day is a quotient, a clock a
remainder, and within a day without a change `Date` inverts both. `DueInv` says of the last reconcile that
its delay ends at the boundary `windowEnd` or `nextAvailabilityWindowStart` gave for the moment it read, unless
that has passed already. What is left is that these two are the *next* boundary: no window
starts or ends strictly between the reading and what they return, which is where windows that
overlap and that touch have to be considered.

**Price sources.** `NeverForgotten` is inductive with the types. `PricesFresh` needs `FreshInv`: while nothing failed, each
source has a timer that runs out before its next fire (`InTime`); the age its prices will have at that fire is
within the limit; and a source whose TTL is up at every fire was fetched at the last
one (`Young`). Under a TTL of zero prices fetched this very second are expired already; the fire at hand
has been served for them, and the timer may run to the one after it (`TimedBy`).

**Jobs.** `OnceInv` relates the three places a time may be in, the live status, the
pass at work and the Jobs made: each stored, chosen or dispatched time follows (`Follows`) an occurrence after the
recorded one, and no Job is later than what is recorded or about to be.
`HistoryAlwaysKept` needs that what a pass listed is still true of the finished Jobs (`Seen`).
`AnnouncedInv` is why an announced start is not given up: a pass that was begun on the stored time, in step,
leaves it or dispatches it, and the status it patches drops the time only after `CreateJob` made that Job.
`AloneInv` is why the stored time needs no second look under Forbid: until it is used, the only Job that may run is
the one made for it by a pass that was cut short.

**Prices.** The library's induction theorems take an operator, which the provers cannot instantiate.
`SelectionProofs` goes around this: a set of numbers has a least element (`LeastNumber`), hence an induction over
*sets* of numbers (`IntervalInduction`), hence what a loop keeps it has at its end (`Rounds`), and hence a
recursive function over an interval, for which `CHOOSE` stands in TLA+, exists (`Loop`). On these rest
`FilterInWindow`, `SelectsAPoint` and in `PriceProofs` `ScoreMeaning` (the walk over the intervals adds up the price
of every moment of the run), `SelectsTheBest`, `SortRestores` (a list whose times rise strictly has one
sorted order) and `PeriodThins` (filling the gaps of a thinned period gives the period back).

Only model-checked: the liveness properties (fairness is beyond TLAPS), `BoundaryMet` across
a change of clocks, and the findings' counterexamples.

## 5. What is left

To prove: `OncePerOccurrence` is stated for passes that are not cut short; which weaker promise holds with
faults, and `BoundaryMet` across a change of clocks, are open.

Not modelled:

* telemetry, the metrics client and `cmd/main.go`: exporters, flags and
  registration, with no state that the controllers read back; that each controller has one worker, the
  default that start-up leaves, is used by the modules;
* the API types and their generated code: their fields are fields of the records here;
* parsing: cron expressions, time zone names, JSON, XML and quantities. Schedules are sets or
  phases of times, and what does not parse is one value;
* the autoscaler's own writes: it leaves a workload with 0 replicas alone, and what it raises between
  the patch of a workload and the clamp of its HPA it lowers to the cap after it.
