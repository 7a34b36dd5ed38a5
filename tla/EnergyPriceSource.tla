------------------------- MODULE EnergyPriceSource --------------------------
(***************************************************************************)
(* The EnergyPriceSource controller: several sources, the one worker that  *)
(* reconciles them in turn, and the queue that brings them back.  A        *)
(* reconcile fetches only when the cached prices have expired AND the      *)
(* refresh schedule fires now or within a minute; every return asks the    *)
(* queue for a later reconcile, and every status patch brings one at once. *)
(*                                                                         *)
(* Time is kept relative, so that the model has no last moment: the phase  *)
(* of the schedules, the age of each source's prices, the time left of     *)
(* each timer.  A unit is the second that the schedule check allows for.   *)
(***************************************************************************)
EXTENDS Integers, FiniteSets, FiniteSetsExt

CONSTANTS
    Sources,
    Parses,         \* the sources whose refreshSchedule is a cron expression
    Offset,         \* [Sources -> phase at which the schedule fires]
    CacheTTL,       \* [Sources -> how long fetched prices are kept]
    Period,         \* the interval of the schedules
    Ahead,          \* how long before a fire a fetch may begin (a minute)
    Retry,          \* the delay setErrorCondition asks for (five minutes)
    MaxBackoff,     \* how long the queue holds back after an error
    MaxWork,        \* how long a fetch takes at most
    MaxFaults,      \* how many calls fail and processes restart
    None

VARIABLES
    clock,      \* the phase of the schedules
    has,        \* whether status.lastUpdated is set
    age,        \* time since lastUpdated or, without it, since the creation
    queue,      \* the sources that are ready to be reconciled
    timer,      \* time until the queue adds a source, None for never
    work,       \* the fetch in progress: its source and how long it has taken
    stamped,    \* sources whose error condition carries this second
    touched,    \* sources a user has touched in this second
    faults      \* faults so far, at most MaxFaults

vars == <<clock, has, age, queue, timer, work, stamped, touched, faults>>

ASSUME SourceAssumption ==
    /\ Parses \subseteq Sources /\ None \notin Sources \cup Nat
    /\ Period \in Nat \ {0} /\ Offset \in [Sources -> 0 .. (Period - 1)]
    /\ CacheTTL \in [Sources -> Nat]
    /\ Ahead \in Nat /\ Retry \in Nat \ {0}
    /\ MaxBackoff \in Nat /\ MaxWork \in Nat /\ MaxFaults \in Nat

(* Ages are told apart up to here.                                         *)
MaxAge(s) == CacheTTL[s] + Period + Ahead + MaxWork + 1

Idle == [source |-> None, spent |-> 0]

Init ==
    /\ clock \in 0 .. (Period - 1)
    /\ has = [s \in Sources |-> FALSE]
    /\ age = [s \in Sources |-> 0]
    /\ queue = Sources
    /\ timer = [s \in Sources |-> None]
    /\ work = Idle
    /\ stamped = {} /\ touched = {}
    /\ faults = 0

-----------------------------------------------------------------------------
(* The schedule and the queue *)

(* Mutant: a fire in this very second counts as past.                      *)
NextFireMissed(s) == IF clock = Offset[s] THEN Period ELSE (Offset[s] - clock) % Period

(* Time until the first fire that is not in the past ...                   *)
NextFire(s) == (Offset[s] - clock) % Period

(* Mutant: the fire in this very second is taken again.                    *)
NextCronFireAgain(s) == NextFire(s)

(* ... and until the first that is ahead.                                  *)
NextCronFire(s) == IF NextFire(s) = 0 THEN Period ELSE NextFire(s)

(* RequeueAfter: the queue keeps the earlier of two timers of a source.    *)
Sooner(a, b) == IF a = None \/ b < a THEN b ELSE a
RequeueAfter(s, d) == timer' = [timer EXCEPT ![s] = Sooner(@, d)]

(* An error return: the source comes back after a pause of the queue's.    *)
BackOff(s) == \E d \in 1 .. MaxBackoff : RequeueAfter(s, d)

(* Mutant: an error leaves the source to the next event.                   *)
setErrorConditionOnly(s, changed) ==
    /\ UNCHANGED timer
    /\ queue' = IF changed THEN queue \cup {s} ELSE queue \ {s}
    /\ stamped' = stamped \cup {s}

(* The condition is stamped with the second: the patch changes the status, *)
(* and so brings an event, unless it repeats what this second wrote.       *)
setErrorCondition(s, changed) ==
    /\ RequeueAfter(s, Retry)
    /\ queue' = IF changed THEN queue \cup {s} ELSE queue \ {s}
    /\ stamped' = stamped \cup {s}

Fault == faults < MaxFaults /\ faults' = faults + 1

-----------------------------------------------------------------------------
(* Reconcile *)

Begins(s) == work = Idle /\ s \in queue
StillCached(s) == has[s] /\ age[s] < CacheTTL[s]

(* The prices are in their TTL: wait for its end.                          *)
WaitForTTL(s) ==
    /\ Begins(s) /\ StillCached(s)
    /\ RequeueAfter(s, CacheTTL[s] - age[s])
    /\ queue' = queue \ {s}
    /\ UNCHANGED <<clock, has, age, work, stamped, touched, faults>>

Unparsable(s) == Begins(s) /\ ~StillCached(s) /\ s \notin Parses

InvalidSchedule(s) ==
    /\ Unparsable(s)
    /\ setErrorCondition(s, s \notin stamped)
    /\ UNCHANGED <<clock, has, age, work, touched, faults>>

Scheduled(s) == Begins(s) /\ ~StillCached(s) /\ s \in Parses

(* The next fire is more than a minute away: wait for it.                  *)
WaitForFire(s) ==
    /\ Scheduled(s) /\ NextFire(s) > Ahead
    /\ RequeueAfter(s, NextFire(s))
    /\ queue' = queue \ {s}
    /\ UNCHANGED <<clock, has, age, work, stamped, touched, faults>>

(* The token, the provider and the prices are asked for.                   *)
BeginFetch(s) ==
    /\ Scheduled(s) /\ NextFire(s) <= Ahead
    /\ work' = [source |-> s, spent |-> 0]
    /\ queue' = queue \ {s}
    /\ UNCHANGED <<clock, has, age, timer, stamped, touched, faults>>

Fetching(s) == work.source = s

(* resolveToken, readSecretKey, Registry.Get or FetchPrices fails, each    *)
(* with a message of its own.                                              *)
FetchFails(s) ==
    /\ Fetching(s)
    /\ Fault
    /\ \E other \in BOOLEAN : setErrorCondition(s, other \/ s \notin stamped)
    /\ work' = Idle
    /\ UNCHANGED <<clock, has, age, touched>>

(* Mutant: lastUpdated is not set.                                         *)
StoreUndated(s) ==
    /\ UNCHANGED <<has, age>>
    /\ stamped' = stamped \ {s} /\ queue' = queue \cup {s}

(* The prices are stored with the second and Ready replaces an error; the  *)
(* patch brings an event, unless it repeats what this second wrote, which  *)
(* happens with a TTL of zero.                                             *)
Store(s) ==
    /\ has' = [has EXCEPT ![s] = TRUE] /\ age' = [age EXCEPT ![s] = 0]
    /\ stamped' = stamped \ {s}
    /\ queue' = IF has[s] /\ age[s] = 0 /\ s \notin stamped THEN queue ELSE queue \cup {s}

(* The prices arrive and are stored.                                       *)
Refresh(s) ==
    /\ Fetching(s)
    /\ Store(s)
    /\ RequeueAfter(s, NextCronFire(s))
    /\ work' = Idle
    /\ UNCHANGED <<clock, touched, faults>>

(* The patch of the prices fails, though it may have been applied.         *)
PatchFails(s) ==
    /\ Fetching(s)
    /\ Fault
    /\ BackOff(s)
    /\ Store(s) \/ UNCHANGED <<has, age, stamped, queue>>
    /\ work' = Idle
    /\ UNCHANGED <<clock, touched>>

(* The patch of an error condition fails, though it may have been applied. *)
ErrorPatchFails(s) ==
    /\ Unparsable(s) \/ Fetching(s)
    /\ Fault
    /\ BackOff(s)
    /\ \/ queue' = queue \cup {s} /\ stamped' = stamped \cup {s}
       \/ queue' = (IF Fetching(s) THEN queue ELSE queue \ {s}) /\ UNCHANGED stamped
    /\ work' = Idle
    /\ UNCHANGED <<clock, has, age, touched>>

Reconcile(s) ==
    \/ WaitForTTL(s) \/ InvalidSchedule(s) \/ WaitForFire(s) \/ BeginFetch(s)
    \/ Refresh(s)

-----------------------------------------------------------------------------
(* Around the controller *)

(* A user touches the source, or the informer resyncs: at most once in a   *)
(* second.                                                                 *)
Event(s) ==
    /\ s \notin touched
    /\ touched' = touched \cup {s}
    /\ queue' = queue \cup {s}
    /\ UNCHANGED <<clock, has, age, timer, work, stamped, faults>>

(* The manager restarts and finds every source.                            *)
Restart ==
    /\ Fault
    /\ queue' = Sources
    /\ timer' = [s \in Sources |-> None]
    /\ work' = Idle
    /\ UNCHANGED <<clock, has, age, stamped, touched>>

(* A second passes: the worker has taken what was ready, or is busy.       *)
Tick ==
    /\ IF work = Idle THEN queue = {} ELSE work.spent < MaxWork
    /\ clock' = (clock + 1) % Period
    /\ age' = [s \in Sources |-> IF age[s] < MaxAge(s) THEN age[s] + 1 ELSE age[s]]
    /\ LET ringing == {s \in Sources : timer[s] = 1}
       IN  /\ queue' = queue \cup ringing
           /\ timer' = [s \in Sources |-> IF timer[s] = None \/ s \in ringing THEN None
                                          ELSE timer[s] - 1]
    /\ work' = IF work = Idle THEN Idle ELSE [work EXCEPT !.spent = @ + 1]
    /\ stamped' = {} /\ touched' = {}
    /\ UNCHANGED <<has, faults>>

Next ==
    \/ \E s \in Sources :
           \/ Reconcile(s) \/ Event(s)
           \/ FetchFails(s) \/ PatchFails(s) \/ ErrorPatchFails(s)
    \/ Restart \/ Tick

(* Time passes, and the worker takes what is ready and goes on with it.    *)
Fairness ==
    /\ WF_vars(Tick)
    /\ \A s \in Sources : WF_vars(Reconcile(s))

Spec == Init /\ [][Next]_vars /\ Fairness

-----------------------------------------------------------------------------
(* Properties *)

(* The variables have their types; the fetch in progress belongs to a      *)
(* source with a schedule.                                                 *)
TypeOK ==
    /\ clock \in 0 .. (Period - 1)
    /\ has \in [Sources -> BOOLEAN]
    /\ age \in [Sources -> Nat] /\ \A s \in Sources : age[s] <= MaxAge(s)
    /\ queue \subseteq Sources
    /\ timer \in [Sources -> (Nat \ {0}) \cup {None}]
    /\ work \in [source : Parses, spent : 0 .. MaxWork] \cup {Idle}
    /\ stamped \subseteq Sources /\ touched \subseteq Sources
    /\ faults \in 0 .. MaxFaults

(* No source is forgotten: whatever a reconcile returned and whichever     *)
(* call failed, it is queued, timed or being fetched, so that the schedule *)
(* goes on without an event from outside (the returns of Reconcile and of  *)
(* setErrorCondition).                                                     *)
NeverForgotten ==
    \A s \in Sources : s \in queue \/ timer[s] # None \/ work.source = s

(* A fetch of any other source is over, or not begun, when s fires.        *)
Apart(s) ==
    \A r \in Parses \ {s} :
        LET d == (Offset[s] - Offset[r]) % Period IN MaxWork < d /\ d < Period - Ahead

(* Prices stay fresh while nothing fails, for a source whose fires fall    *)
(* apart from those of the others: the first prices come with the first    *)
(* fire and then with every fire when the TTL leaves time for the fetch    *)
(* before the next one; otherwise with the first fire after the TTL.       *)
PricesFresh ==
    \A s \in Parses :
        faults = 0 /\ Apart(s) =>
            age[s] <= MaxWork + (IF ~has[s] THEN Period
                                 ELSE IF CacheTTL[s] + MaxWork <= Period THEN Period + Ahead
                                 ELSE CacheTTL[s] + Period)

(* Every such source is refreshed again and again, though fetches and      *)
(* patches fail and the manager restarts in the middle (the five-minute    *)
(* retry waits for the next fire and does not replace it).                 *)
RefreshedAgain ==
    \A s \in Parses : Apart(s) => []<>(has[s] /\ age[s] = 0)
=============================================================================
