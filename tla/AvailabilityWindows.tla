------------------------ MODULE AvailabilityWindows ------------------------
(***************************************************************************)
(* When a policy is in a window and when it looks again: the window        *)
(* helpers of the hibernation controllers, the validation that admits the  *)
(* windows, and one policy that is reconciled over and over by the delay   *)
(* its reconciles ask for.  Module Hibernation takes the outcome of the    *)
(* helpers, inWindow, as its input.                                        *)
(*                                                                         *)
(* Times are integers from a midnight UTC at the start of a week; a day    *)
(* has DayLength units.  A zone is [before, after, shift]: its offset from *)
(* UTC up to the instant shift and from it on, so a change of the clocks   *)
(* is part of the model.                                                   *)
(***************************************************************************)
EXTENDS Integers, Sequences, FiniteSetsExt

CONSTANTS
    DayLength,              \* units in a day
    Lists,                  \* the lists of windows a user may write
    UnknownZone,            \* a name time.LoadLocation does not know
    windowCheckInterval,    \* the longest a policy waits
    MaxWork,                \* how long a reconcile takes at most
    MaxBackoff,             \* how long the queue holds back a failed policy
    MaxTime                 \* the clock stops here

(* The schema asks for a weekday at least and for times of the day; a       *)
(* zone's clocks never change by more than a day.                           *)
Zones ==
    {z \in [before : Int, after : Int, shift : Int] :
        z.after - z.before \in -DayLength .. DayLength}

ASSUME WindowAssumption ==
    /\ DayLength \in Nat \ {0} /\ windowCheckInterval \in Nat \ {0}
    /\ MaxWork \in Nat /\ MaxBackoff \in Nat /\ MaxTime \in Nat
    /\ \A list \in Lists : DOMAIN list \subseteq Nat /\ \A i \in DOMAIN list :
          LET w == list[i]
          IN  /\ w.weekdays \subseteq 0 .. 6 /\ w.weekdays # {}
              /\ w.from \in 0 .. (DayLength - 1) /\ w.until \in 0 .. (DayLength - 1)
              /\ w.zone # UnknownZone => w.zone \in Zones

VARIABLES
    now,        \* the clock
    windows,    \* spec.availabilityWindows of the policy
    rec,        \* the reconcile in progress: what it read, and when
    due,        \* when the queue hands the policy out again
    last        \* the last reconcile: whether it succeeded, its times and its decision

vars == <<now, windows, rec, due, last>>

-----------------------------------------------------------------------------
(* Calendar *)

Offset(z, t) == IF t < z.shift THEN z.before ELSE z.after
Day(z, t) == (t + Offset(z, t)) \div DayLength
Clock(z, t) == (t + Offset(z, t)) % DayLength

(* time.Date: the instant at which the clocks of z show `clock` on a day.  *)
(* It tries the offset in force at that time read as UTC, and another one  *)
(* when the result lies across the change.                                 *)
Date(z, day, clock) ==
    LET wall == day * DayLength + clock
        utc == wall - Offset(z, wall)
    IN  wall - Offset(z, utc)

(* Mutant: the time is taken for UTC.                                      *)
parseHHMMUTC(hhmm, t, z) == Day(z, t) * DayLength + hhmm

parseHHMM(hhmm, t, z) == Date(z, Day(z, t), hhmm)

containsWeekday(weekdays, day) == day % 7 \in weekdays

-----------------------------------------------------------------------------
(* The helpers *)

(* The body of the loop of isInAvailabilityWindow.                         *)
Covers(w, t) ==
    /\ w.zone # UnknownZone
    /\ containsWeekday(w.weekdays, Day(w.zone, t))
    /\ parseHHMM(w.from, t, w.zone) <= t /\ t < parseHHMM(w.until, t, w.zone)

Covering(list, t) == {i \in DOMAIN list : Covers(list[i], t)}

isInAvailabilityWindow(list, t) == Covering(list, t) # {}

(* The end that comes with it, of the first window that covers t.          *)
windowEnd(list, t) ==
    LET w == list[Min(Covering(list, t))] IN parseHHMM(w.until, t, w.zone)

(* The starts of w after t, by how many days ahead they are.               *)
StartOn(w, t, daysAhead) ==
    LET candidate == Date(w.zone, Day(w.zone, t) + daysAhead, Clock(w.zone, t))
    IN  parseHHMM(w.from, candidate, w.zone)

DaysToStart(w, t) ==
    {n \in 0 .. 7 :
        LET candidate == Date(w.zone, Day(w.zone, t) + n, Clock(w.zone, t))
        IN  /\ containsWeekday(w.weekdays, Day(w.zone, candidate))
            /\ StartOn(w, t, n) > t}

Starts(list, t) ==
    {StartOn(list[i], t, Min(DaysToStart(list[i], t))) :
        i \in {j \in DOMAIN list : list[j].zone # UnknownZone /\ DaysToStart(list[j], t) # {}}}

(* The earliest of them; the zero time of the code is an empty set.        *)
nextAvailabilityWindowStart(list, t) ==
    {s \in Starts(list, t) : \A r \in Starts(list, t) : s <= r}

(* Mutant: overnight windows are admitted.                                 *)
validateZonesOnly(list) == \A i \in DOMAIN list : list[i].zone # UnknownZone

(* ValidateCreate and ValidateUpdate of both policy kinds.                 *)
validateAvailabilityWindows(list) ==
    \A i \in DOMAIN list : list[i].zone # UnknownZone /\ list[i].from < list[i].until

-----------------------------------------------------------------------------
(* A policy and the queue *)

Waiting == [pc |-> "waiting", read |-> 0, in |-> FALSE]

Init ==
    /\ now = 0
    /\ windows \in {list \in Lists : validateAvailabilityWindows(list)}
    /\ rec = Waiting
    /\ due = 0
    /\ last = [ok |-> FALSE, read |-> 0, at |-> 0, in |-> FALSE]

(* The queue hands the policy out when it is due, or earlier for a watch   *)
(* event; the reconcile reads the clock once.                              *)
Reconcile ==
    /\ rec.pc = "waiting"
    /\ rec' = [pc |-> "running", read |-> now, in |-> isInAvailabilityWindow(windows, now)]
    /\ UNCHANGED <<now, windows, due, last>>

(* The boundary this reconcile knows of, computed from the clock it read.  *)
NextBoundary ==
    IF rec.in THEN {windowEnd(windows, rec.read)}
    ELSE nextAvailabilityWindowStart(windows, rec.read)

(* Mutant: the next boundary is not looked at.                             *)
requeueAfterInterval == windowCheckInterval

(* The delay, measured from the end of the reconcile: up to the boundary   *)
(* when that is ahead and near.                                            *)
requeueAfter ==
    LET near == {b - now : b \in NextBoundary} \cap 1 .. (windowCheckInterval - 1)
    IN  IF near = {} THEN windowCheckInterval ELSE Min(near)

Finish ==
    /\ rec.pc = "running"
    /\ due' = now + requeueAfter
    /\ last' = [ok |-> TRUE, read |-> rec.read, at |-> now, in |-> rec.in]
    /\ rec' = Waiting
    /\ UNCHANGED <<now, windows>>

(* With an error the delay is ignored and the queue backs off.             *)
Fail ==
    /\ rec.pc = "running"
    /\ \E b \in 0 .. MaxBackoff : due' = now + b
    /\ last' = [ok |-> FALSE, read |-> rec.read, at |-> now, in |-> rec.in]
    /\ rec' = Waiting
    /\ UNCHANGED <<now, windows>>

(* Time passes, but not over a timer that has run out or a reconcile that  *)
(* has taken MaxWork.                                                      *)
Tick ==
    /\ now < MaxTime
    /\ rec.pc = "waiting" => now < due
    /\ rec.pc = "running" => now < rec.read + MaxWork
    /\ now' = now + 1
    /\ UNCHANGED <<windows, rec, due, last>>

Next == Reconcile \/ Finish \/ Fail \/ Tick

Spec == Init /\ [][Next]_vars

-----------------------------------------------------------------------------
(* Properties *)

(* No window opened or closed while the last reconcile was at work.        *)
QuietReconcile ==
    \A t \in last.read .. last.at, i \in DOMAIN windows :
        Covers(windows[i], t) = Covers(windows[i], last.read)

(* No start or end of a window, of any of the listed ones, in any zone and *)
(* across a change of the clocks, falls into the time a reconcile asked to *)
(* wait (requeueAfter): its decision stays right until the next one.  Only *)
(* when a window opens or closes during the reconcile may the change be    *)
(* met late, at the latest windowCheckInterval after the reconcile ended.  *)
BoundaryMet ==
    rec.pc = "waiting" /\ last.ok /\ now < due
    => \/ isInAvailabilityWindow(windows, now) = last.in
       \/ ~QuietReconcile /\ now < last.at + windowCheckInterval

(* The day the clocks of w change.                                         *)
ShiftDay(w, t) == Day(w.zone, t) \in {Day(w.zone, w.zone.shift - 1), Day(w.zone, w.zone.shift)}

(* What a user reads in a window: its weekday and wall-clock times.        *)
OnTheWall(w, t) ==
    /\ Day(w.zone, t) % 7 \in w.weekdays
    /\ w.from <= Clock(w.zone, t) /\ Clock(w.zone, t) < w.until

(* README: weekdays, from and until are wall-clock times "in the given     *)
(* timezone": isInAvailabilityWindow agrees with a clock on the wall on    *)
(* every day but the one on which the clocks change.                       *)
ReadsTheWallClock ==
    \A i \in DOMAIN windows :
        ~ShiftDay(windows[i], now) => (Covers(windows[i], now) = OnTheWall(windows[i], now))

(* Every admitted window opens: within a week without a change of clocks   *)
(* some moment is inside it, so a policy that passed the webhook does not  *)
(* keep its workloads asleep for ever (validateAvailabilityWindows).       *)
AdmittedWindowsOpen ==
    \A i \in DOMAIN windows :
        LET week == now .. (now + 7 * DayLength - 1)
        IN  \E t \in week : Covers(windows[i], t) \/ ShiftDay(windows[i], t)
=============================================================================
