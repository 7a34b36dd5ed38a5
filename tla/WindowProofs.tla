---------------------------- MODULE WindowProofs ----------------------------
(***************************************************************************)
(* Proofs about the availability windows, for days, windows and zones of   *)
(* any kind.                                                               *)
(***************************************************************************)
EXTENDS AvailabilityWindows, WellFoundedInduction, TLAPS

USE WindowAssumption

-----------------------------------------------------------------------------
(* Days and clocks.                                                        *)

Clocks == 0 .. (DayLength - 1)

LEMMA DaysApart ==
    ASSUME NEW a \in Int, NEW b \in Int
    PROVE  /\ a * DayLength \in Int
           /\ a < b => a * DayLength + DayLength <= b * DayLength
           /\ (a + 1) * DayLength = a * DayLength + DayLength
           /\ (a + 7) * DayLength = a * DayLength + 7 * DayLength
  OBVIOUS

(* A time is a day and a clock.                                            *)
LEMMA TimeSplits ==
    ASSUME NEW x \in Int
    PROVE  /\ x \div DayLength \in Int /\ x % DayLength \in Clocks
           /\ x = (x \div DayLength) * DayLength + (x % DayLength)
  BY DEF Clocks

LEMMA TimeJoins ==
    ASSUME NEW day \in Int, NEW clock \in Clocks
    PROVE  LET x == day * DayLength + clock
           IN  x \div DayLength = day /\ x % DayLength = clock
  BY DEF Clocks

LEMMA OffsetTyped ==
    ASSUME NEW z \in Zones, NEW t \in Int
    PROVE  /\ Offset(z, t) \in Int /\ Day(z, t) \in Int /\ Clock(z, t) \in Clocks
           /\ t + Offset(z, t) = Day(z, t) * DayLength + Clock(z, t)
  <1>1. Offset(z, t) \in Int
    BY DEF Offset, Zones
  <1> DEFINE x == t + Offset(z, t)
  <1>2. x \in Int
    BY <1>1
  <1>3. Day(z, t) = x \div DayLength /\ Clock(z, t) = x % DayLength
    BY DEF Day, Clock
  <1> HIDE DEF x
  <1>4. /\ x \div DayLength \in Int /\ x % DayLength \in Clocks
        /\ x = (x \div DayLength) * DayLength + (x % DayLength)
    BY <1>2, TimeSplits
  <1>5. x = Day(z, t) * DayLength + Clock(z, t)
    BY <1>3, <1>4
  <1> QED BY <1>1, <1>3, <1>4, <1>5 DEF x

(* Days are in the order of their times.                                   *)
LEMMA DayOrder ==
    ASSUME NEW d \in Int, NEW e \in Int, NEW c \in Clocks, NEW b \in Clocks,
           d * DayLength + c <= e * DayLength + b
    PROVE  d <= e
  <1>1. e < d => e * DayLength + DayLength <= d * DayLength
    BY DaysApart
  <1>2. d * DayLength \in Int /\ e * DayLength \in Int
    BY DaysApart
  <1> QED BY <1>1, <1>2 DEF Clocks

ShiftDays(z) == {Day(z, z.shift - 1), Day(z, z.shift)}

(* Before and after the days on which the clocks change, every time of the *)
(* day has the offset of the day.                                          *)
LEMMA OffsetOfDay ==
    ASSUME NEW z \in Zones, NEW t \in Int, Day(z, t) \notin ShiftDays(z), NEW clock \in Clocks
    PROVE  Date(z, Day(z, t), clock) = (Day(z, t) * DayLength + clock) - Offset(z, t)
  <1> DEFINE d == Day(z, t)
             a == Day(z, z.shift - 1)
             b == Day(z, z.shift)
             wall == d * DayLength + clock
  <1> SUFFICES Date(z, d, clock) = wall - Offset(z, t)
    OBVIOUS
  <1>1. /\ z.before \in Int /\ z.after \in Int /\ z.shift \in Int
        /\ z.after - z.before <= DayLength /\ z.before - z.after <= DayLength
    BY DEF Zones
  <1>2. /\ d \in Int /\ Clock(z, t) \in Clocks
        /\ t + Offset(z, t) = d * DayLength + Clock(z, t)
    BY OffsetTyped
  <1>3. /\ a \in Int /\ Clock(z, z.shift - 1) \in Clocks
        /\ z.shift - 1 + z.before = a * DayLength + Clock(z, z.shift - 1)
    <2>1. z.shift - 1 \in Int /\ Offset(z, z.shift - 1) = z.before
      BY <1>1 DEF Offset
    <2> QED BY <2>1, OffsetTyped
  <1>4. /\ b \in Int /\ Clock(z, z.shift) \in Clocks
        /\ z.shift + z.after = b * DayLength + Clock(z, z.shift)
    <2>1. Offset(z, z.shift) = z.after
      BY <1>1 DEF Offset
    <2> QED BY <1>1, <2>1, OffsetTyped
  <1>5. d # a /\ d # b
    BY DEF ShiftDays
  <1> HIDE DEF d, a, b
  <1>6. d * DayLength \in Int /\ a * DayLength \in Int /\ b * DayLength \in Int
    BY <1>2, <1>3, <1>4, DaysApart
  <1>7. wall \in Int
    BY <1>6 DEF Clocks
  <1>8. CASE z.shift <= t
    <2>1. Offset(z, t) = z.after
      BY <1>1, <1>8 DEF Offset
    <2>2. b < d
      <3>1. b * DayLength + Clock(z, z.shift) <= d * DayLength + Clock(z, t)
        BY <1>1, <1>2, <1>4, <1>8, <2>1
      <3>2. b <= d
        BY <1>2, <1>4, <3>1, DayOrder
      <3> QED BY <1>2, <1>4, <1>5, <3>2
    <2>3. a < d
      <3>1. a <= b + 1
        <4>1. (b + 2) * DayLength = b * DayLength + DayLength + DayLength
          BY <1>4
        <4>2. CASE b + 2 <= a
          <5>1. (b + 2) * DayLength <= a * DayLength
            BY <1>3, <1>4, <4>2, DaysApart
          <5> QED BY <1>1, <1>3, <1>4, <1>6, <4>1, <5>1 DEF Clocks
        <4> QED BY <1>3, <1>4, <4>2
      <3> QED BY <1>2, <1>3, <1>4, <1>5, <2>2, <3>1
    <2>4. /\ a * DayLength + DayLength <= d * DayLength
          /\ b * DayLength + DayLength <= d * DayLength
      BY <1>2, <1>3, <1>4, <2>2, <2>3, DaysApart
    <2>5. wall - z.before >= z.shift /\ wall - z.after >= z.shift
      BY <1>1, <1>3, <1>4, <1>6, <2>4 DEF Clocks
    <2>6. Date(z, d, clock) = wall - z.after
      <3>1. Offset(z, wall) \in {z.before, z.after}
        BY DEF Offset
      <3>2. Offset(z, wall - Offset(z, wall)) = z.after
        BY <1>1, <1>7, <2>5, <3>1 DEF Offset
      <3> QED BY <3>2 DEF Date
    <2> QED BY <2>1, <2>6
  <1>9. CASE t < z.shift
    <2>1. Offset(z, t) = z.before
      BY <1>1, <1>9 DEF Offset
    <2>2. d < a
      <3>1. d * DayLength + Clock(z, t) <= a * DayLength + Clock(z, z.shift - 1)
        BY <1>1, <1>2, <1>3, <1>9, <2>1
      <3> QED BY <1>2, <1>3, <1>5, <3>1, DayOrder
    <2>3. d < b
      <3>1. a <= b + 1
        <4>1. (b + 2) * DayLength = b * DayLength + DayLength + DayLength
          BY <1>4
        <4>2. CASE b + 2 <= a
          <5>1. (b + 2) * DayLength <= a * DayLength
            BY <1>3, <1>4, <4>2, DaysApart
          <5> QED BY <1>1, <1>3, <1>4, <1>6, <4>1, <5>1 DEF Clocks
        <4> QED BY <1>3, <1>4, <4>2
      <3> QED BY <1>2, <1>3, <1>4, <1>5, <2>2, <3>1
    <2>4. /\ d * DayLength + DayLength <= a * DayLength
          /\ d * DayLength + DayLength <= b * DayLength
      BY <1>2, <1>3, <1>4, <2>2, <2>3, DaysApart
    <2>5. wall - z.before < z.shift /\ wall - z.after < z.shift
      BY <1>1, <1>3, <1>4, <1>6, <2>4 DEF Clocks
    <2>6. Date(z, d, clock) = wall - z.before
      <3>1. Offset(z, wall) \in {z.before, z.after}
        BY DEF Offset
      <3>2. Offset(z, wall - Offset(z, wall)) = z.before
        BY <1>1, <1>7, <2>5, <3>1 DEF Offset
      <3> QED BY <3>2 DEF Date
    <2> QED BY <2>1, <2>6
  <1> QED BY <1>1, <1>8, <1>9

(* A listed window with a known zone.                                      *)
IsWindow(w) ==
    /\ w.weekdays \subseteq 0 .. 6 /\ w.weekdays # {}
    /\ w.from \in Clocks /\ w.until \in Clocks
    /\ w.zone \in Zones /\ w.zone # UnknownZone

(* The window a user reads is the one that is looked up.                   *)
LEMMA CoversOnTheWall ==
    ASSUME NEW w, IsWindow(w), NEW t \in Int, Day(w.zone, t) \notin ShiftDays(w.zone)
    PROVE  Covers(w, t) = OnTheWall(w, t)
  <1> DEFINE z == w.zone
             d == Day(z, t)
             c == Clock(z, t)
             o == Offset(z, t)
  <1>1. /\ d \in Int /\ c \in Clocks /\ o \in Int
        /\ t + o = d * DayLength + c
    BY OffsetTyped DEF IsWindow
  <1>2. /\ parseHHMM(w.from, t, z) = (d * DayLength + w.from) - o
        /\ parseHHMM(w.until, t, z) = (d * DayLength + w.until) - o
    BY OffsetOfDay DEF IsWindow, parseHHMM
  <1>3. d * DayLength \in Int /\ w.from \in Int /\ w.until \in Int
    BY <1>1, DaysApart DEF IsWindow, Clocks
  <1> HIDE DEF d, c, o
  <1>4. /\ parseHHMM(w.from, t, z) <= t <=> w.from <= c
        /\ t < parseHHMM(w.until, t, z) <=> c < w.until
    BY <1>1, <1>2, <1>3 DEF Clocks
  <1> QED BY <1>4 DEF Covers, OnTheWall, containsWeekday, IsWindow, d, c

-----------------------------------------------------------------------------
(* Windows as they are written.                                            *)

(* The clock runs, and the windows were admitted.                          *)
Admitted == now \in Nat /\ windows \in {list \in Lists : validateAvailabilityWindows(list)}

LEMMA AlwaysAdmitted == Spec => []Admitted
  <1>1. Init => Admitted
    BY DEF Init, Admitted
  <1>2. Admitted /\ [Next]_vars => Admitted'
    BY DEF Admitted, Next, vars, Reconcile, Finish, Fail, Tick
  <1> QED BY <1>1, <1>2, PTL DEF Spec

LEMMA AdmittedAreWindows ==
    ASSUME Admitted, NEW i \in DOMAIN windows
    PROVE  IsWindow(windows[i]) /\ windows[i].from < windows[i].until
  BY DEF Admitted, validateAvailabilityWindows, IsWindow, Clocks

LEMMA ShiftDayIs ==
    ASSUME NEW w, NEW t
    PROVE  ShiftDay(w, t) <=> Day(w.zone, t) \in ShiftDays(w.zone)
  BY DEF ShiftDay, ShiftDays

(* On every day but those of a change of the clocks, isInAvailabilityWindow *)
(* agrees with a clock on the wall, for windows and zones of any kind.      *)
THEOREM WindowsReadAsWritten == Spec => []ReadsTheWallClock
  <1>1. Admitted => ReadsTheWallClock
    <2> SUFFICES ASSUME Admitted, NEW i \in DOMAIN windows, ~ShiftDay(windows[i], now)
                 PROVE  Covers(windows[i], now) = OnTheWall(windows[i], now)
      BY DEF ReadsTheWallClock
    <2>1. now \in Int
      BY DEF Admitted
    <2> QED BY <2>1, AdmittedAreWindows, ShiftDayIs, CoversOnTheWall
  <1> QED BY <1>1, AlwaysAdmitted, PTL

(* A time on a wall is an instant, while the offset stays.                 *)
LEMMA WallInstant ==
    ASSUME NEW z \in Zones, NEW day \in Int, NEW clock \in Clocks, NEW t \in Int,
           t + Offset(z, t) = day * DayLength + clock
    PROVE  Day(z, t) = day /\ Clock(z, t) = clock
  BY TimeJoins DEF Day, Clock

(* Within a week a weekday comes, at a time of the day that is still to    *)
(* come.                                                                   *)
LEMMA WeekdayComes ==
    ASSUME NEW n \in Int, NEW weekday \in 0 .. 6, NEW clock \in Clocks
    PROVE  \E day \in Int :
              /\ day % 7 = weekday
              /\ n <= day * DayLength + clock
              /\ day * DayLength + clock <= n + 7 * DayLength - 1
  <1> DEFINE d == n \div DayLength
             c == n % DayLength
             k == (weekday - d) % 7
  <1>1. d \in Int /\ c \in Clocks /\ n = d * DayLength + c
    BY TimeSplits
  <1> HIDE DEF d, c
  <1>2. k \in 0 .. 6 /\ (d + k) % 7 = weekday /\ (d + 7) % 7 = d % 7 /\ (k = 0 => d % 7 = weekday)
    BY <1>1
  <1> HIDE DEF k
  <1>3. CASE k # 0
    <2>1. d + k \in Int /\ d < d + k /\ d + k < d + 7
      BY <1>1, <1>2, <1>3
    <2>2. /\ d * DayLength + DayLength <= (d + k) * DayLength
          /\ (d + k) * DayLength + DayLength <= (d + 7) * DayLength
          /\ (d + k) * DayLength \in Int /\ d * DayLength \in Int
          /\ (d + 7) * DayLength = d * DayLength + 7 * DayLength
      BY <1>1, <2>1, DaysApart
    <2>3. /\ n <= (d + k) * DayLength + clock
          /\ (d + k) * DayLength + clock <= n + 7 * DayLength - 1
      BY <1>1, <2>2 DEF Clocks
    <2> QED BY <1>2, <2>1, <2>3
  <1>4. CASE k = 0 /\ c <= clock
    <2>1. d * DayLength \in Int
      BY <1>1, DaysApart
    <2>2. n <= d * DayLength + clock /\ d * DayLength + clock <= n + 7 * DayLength - 1
      BY <1>1, <1>4, <2>1 DEF Clocks
    <2> QED BY <1>1, <1>2, <1>4, <2>2
  <1>5. CASE k = 0 /\ clock < c
    <2>1. d * DayLength \in Int /\ (d + 7) * DayLength = d * DayLength + 7 * DayLength
      BY <1>1, DaysApart
    <2>2. /\ n <= (d + 7) * DayLength + clock
          /\ (d + 7) * DayLength + clock <= n + 7 * DayLength - 1
      BY <1>1, <1>5, <2>1 DEF Clocks
    <2>3. d + 7 \in Int /\ (d + 7) % 7 = weekday
      BY <1>1, <1>2, <1>5
    <2> QED BY <2>2, <2>3
  <1> QED BY <1>1, <1>3, <1>4, <1>5 DEF Clocks

(* Every window that passed the webhook opens within a week, in any zone,   *)
(* unless the clocks change in that week: an admitted policy does not keep  *)
(* its workloads asleep for ever (validateAvailabilityWindows).             *)
THEOREM EveryAdmittedWindowOpens == Spec => []AdmittedWindowsOpen
  <1>1. Admitted => AdmittedWindowsOpen
    <2> SUFFICES ASSUME Admitted, NEW i \in DOMAIN windows
                 PROVE  \E t \in now .. (now + 7 * DayLength - 1) :
                           Covers(windows[i], t) \/ ShiftDay(windows[i], t)
      BY DEF AdmittedWindowsOpen
    <2> DEFINE w == windows[i]
               z == w.zone
               week == now .. (now + 7 * DayLength - 1)
    <2>1. IsWindow(w) /\ w.from < w.until /\ now \in Int /\ z \in Zones /\ z.shift \in Int
      BY AdmittedAreWindows DEF Admitted, IsWindow, Zones
    <2> HIDE DEF w
    <2>2. CASE z.shift \in week
      <3>1. ShiftDay(w, z.shift)
        BY DEF ShiftDay
      <3> QED BY <2>2, <3>1 DEF w
    <2>3. CASE z.shift \notin week
      <3> DEFINE o == Offset(z, now)
      <3>1. o \in Int /\ \A t \in week : Offset(z, t) = o
        BY <2>1, <2>3, OffsetTyped DEF Offset
      <3>2. PICK weekday \in w.weekdays : weekday \in 0 .. 6
        BY <2>1 DEF IsWindow
      <3> HIDE DEF o
      <3>3. w.from \in Clocks /\ now + o \in Int
        BY <2>1, <3>1 DEF IsWindow
      <3>4. PICK day \in Int :
               /\ day % 7 = weekday
               /\ now + o <= day * DayLength + w.from
               /\ day * DayLength + w.from <= now + o + 7 * DayLength - 1
        BY <3>2, <3>3, WeekdayComes
      <3> DEFINE t == (day * DayLength + w.from) - o
      <3>5. t \in week /\ t \in Int
        <4>1. day * DayLength \in Int /\ w.from \in Int
          BY <3>3, DaysApart DEF Clocks
        <4> QED BY <2>1, <3>1, <3>4, <4>1
      <3>6. t + o = day * DayLength + w.from
        <4>1. day * DayLength \in Int /\ w.from \in Int
          BY <3>3, DaysApart DEF Clocks
        <4> QED BY <3>1, <4>1
      <3> HIDE DEF t
      <3>7. Day(z, t) = day /\ Clock(z, t) = w.from
        <4>1. t + Offset(z, t) = day * DayLength + w.from
          BY <3>1, <3>5, <3>6
        <4> QED BY <2>1, <3>3, <3>5, <4>1, WallInstant
      <3>8. OnTheWall(w, t)
        <4>1. w.from <= w.from
          BY <3>3 DEF Clocks
        <4> QED BY <2>1, <3>4, <3>7, <4>1 DEF OnTheWall
      <3>9. Covers(w, t) \/ ShiftDay(w, t)
        BY <2>1, <3>5, <3>8, ShiftDayIs, CoversOnTheWall
      <3> QED BY <3>5, <3>9 DEF w
    <2> QED BY <2>2, <2>3
  <1> QED BY <1>1, AlwaysAdmitted, PTL

-----------------------------------------------------------------------------
(* Starts and ends of a window in a zone whose clocks do not change.       *)

Steady(w) == IsWindow(w) /\ w.from < w.until /\ w.zone.before = w.zone.after

(* The instant of a time on the wall.                                      *)
Instant(w, day, clock) == (day * DayLength + clock) - w.zone.before

LEMMA SteadyClock ==
    ASSUME NEW w, Steady(w), NEW t \in Int
    PROVE  /\ w.zone \in Zones /\ w.zone.before \in Int /\ Offset(w.zone, t) = w.zone.before
           /\ Day(w.zone, t) \in Int /\ Clock(w.zone, t) \in Clocks
           /\ t = Instant(w, Day(w.zone, t), Clock(w.zone, t))
  <1>1. w.zone \in Zones /\ w.zone.before \in Int /\ Offset(w.zone, t) = w.zone.before
    BY DEF Steady, IsWindow, Zones, Offset
  <1>2. /\ Day(w.zone, t) \in Int /\ Clock(w.zone, t) \in Clocks
        /\ t + w.zone.before = Day(w.zone, t) * DayLength + Clock(w.zone, t)
    BY <1>1, OffsetTyped
  <1>3. t = Instant(w, Day(w.zone, t), Clock(w.zone, t))
    <2>1. Day(w.zone, t) * DayLength \in Int /\ Clock(w.zone, t) \in Int
      BY <1>2, DaysApart DEF Clocks
    <2> QED BY <1>1, <1>2, <2>1 DEF Instant
  <1> QED BY <1>1, <1>2, <1>3

LEMMA SteadyInstant ==
    ASSUME NEW w, Steady(w), NEW day \in Int, NEW clock \in Clocks
    PROVE  /\ Instant(w, day, clock) \in Int
           /\ Date(w.zone, day, clock) = Instant(w, day, clock)
           /\ Day(w.zone, Instant(w, day, clock)) = day
           /\ Clock(w.zone, Instant(w, day, clock)) = clock
  <1>1. w.zone \in Zones /\ w.zone.before \in Int /\ w.zone.after = w.zone.before
    BY DEF Steady, IsWindow, Zones
  <1>2. day * DayLength \in Int /\ clock \in Int
    BY DaysApart DEF Clocks
  <1>3. Instant(w, day, clock) \in Int
    BY <1>1, <1>2 DEF Instant
  <1>4. \A x : Offset(w.zone, x) = w.zone.before
    BY <1>1 DEF Offset
  <1>5. Date(w.zone, day, clock) = Instant(w, day, clock)
    BY <1>4 DEF Date, Instant
  <1>6. Instant(w, day, clock) + Offset(w.zone, Instant(w, day, clock)) = day * DayLength + clock
    BY <1>1, <1>2, <1>4 DEF Instant
  <1> QED BY <1>1, <1>3, <1>5, <1>6, WallInstant

(* Instants are ordered by their days, and on a day by their clocks.       *)
LEMMA InstantOrder ==
    ASSUME NEW w, Steady(w), NEW d \in Int, NEW e \in Int, NEW b \in Clocks, NEW c \in Clocks
    PROVE  /\ d < e => Instant(w, d, b) < Instant(w, e, c)
           /\ b <= c <=> Instant(w, d, b) <= Instant(w, d, c)
  <1>1. w.zone.before \in Int
    BY DEF Steady, IsWindow, Zones
  <1>2. /\ d * DayLength \in Int /\ e * DayLength \in Int /\ b \in Int /\ c \in Int
        /\ d < e => d * DayLength + DayLength <= e * DayLength
    BY DaysApart DEF Clocks
  <1>3. d < e => Instant(w, d, b) < Instant(w, e, c)
    BY <1>1, <1>2 DEF Instant, Clocks
  <1>4. b <= c <=> Instant(w, d, b) <= Instant(w, d, c)
    BY <1>1, <1>2 DEF Instant
  <1> QED BY <1>3, <1>4

LEMMA SteadyCovers ==
    ASSUME NEW w, Steady(w), NEW t \in Int
    PROVE  /\ parseHHMM(w.until, t, w.zone) = Instant(w, Day(w.zone, t), w.until)
           /\ Covers(w, t) <=> /\ Day(w.zone, t) % 7 \in w.weekdays
                               /\ w.from <= Clock(w.zone, t) /\ Clock(w.zone, t) < w.until
  <1> DEFINE d == Day(w.zone, t)
             c == Clock(w.zone, t)
  <1>1. d \in Int /\ c \in Clocks /\ t = Instant(w, d, c)
    BY SteadyClock
  <1>2. w.from \in Clocks /\ w.until \in Clocks /\ w.zone # UnknownZone
    BY DEF Steady, IsWindow
  <1>3. /\ parseHHMM(w.from, t, w.zone) = Instant(w, d, w.from)
        /\ parseHHMM(w.until, t, w.zone) = Instant(w, d, w.until)
    BY <1>1, <1>2, SteadyInstant DEF parseHHMM
  <1>4. /\ Instant(w, d, w.from) \in Int /\ Instant(w, d, w.until) \in Int
        /\ c \in Int /\ w.until \in Int
    BY <1>1, <1>2, SteadyInstant DEF Clocks
  <1>5. w.from <= c <=> Instant(w, d, w.from) <= Instant(w, d, c)
    BY <1>1, <1>2, InstantOrder
  <1>6. w.until <= c <=> Instant(w, d, w.until) <= Instant(w, d, c)
    BY <1>1, <1>2, InstantOrder
  <1> HIDE DEF d, c
  <1>7. w.from <= c <=> parseHHMM(w.from, t, w.zone) <= t
    BY <1>1, <1>3, <1>5
  <1>8. c < w.until <=> t < parseHHMM(w.until, t, w.zone)
    BY <1>1, <1>3, <1>4, <1>6
  <1> QED BY <1>2, <1>3, <1>7, <1>8 DEF Covers, containsWeekday, d, c

(* A window stays open until its end of the day.                           *)
LEMMA OpenUntilEnd ==
    ASSUME NEW w, Steady(w), NEW t \in Int, Covers(w, t)
    PROVE  LET end == parseHHMM(w.until, t, w.zone)
           IN  /\ end \in Int /\ t < end /\ ~Covers(w, end)
               /\ \A u \in t .. (end - 1) : Covers(w, u)
  <1> DEFINE d == Day(w.zone, t)
             c == Clock(w.zone, t)
             end == Instant(w, d, w.until)
  <1>1. d \in Int /\ c \in Clocks /\ t = Instant(w, d, c)
    BY SteadyClock
  <1>2. w.from \in Clocks /\ w.until \in Clocks /\ parseHHMM(w.until, t, w.zone) = end
    BY SteadyCovers DEF Steady, IsWindow
  <1>3. d % 7 \in w.weekdays /\ w.from <= c /\ c < w.until
    BY SteadyCovers
  <1>4. end \in Int /\ Day(w.zone, end) = d /\ Clock(w.zone, end) = w.until
    BY <1>1, <1>2, SteadyInstant
  <1> HIDE DEF d, c, end
  <1>5. t < end /\ ~Covers(w, end)
    <2>1. ~(w.until <= c) /\ ~(w.until < w.until)
      BY <1>1, <1>2, <1>3 DEF Clocks
    <2>2. ~(end <= t)
      BY <1>1, <1>2, <2>1, InstantOrder DEF end
    <2> QED BY <1>4, <2>1, <2>2, SteadyCovers
  <1>6. ASSUME NEW u \in t .. (end - 1) PROVE Covers(w, u)
    <2> DEFINE e == Day(w.zone, u)
               b == Clock(w.zone, u)
    <2>1. u \in Int /\ t <= u /\ u < end
      BY <1>4
    <2>2. e \in Int /\ b \in Clocks /\ u = Instant(w, e, b)
      BY <2>1, SteadyClock
    <2> HIDE DEF e, b
    <2>3. e = d
      <3>1. ~(e < d)
        BY <1>1, <2>1, <2>2, InstantOrder
      <3>2. ~(d < e)
        <4>1. d < e => end < u
          BY <1>1, <1>2, <2>2, InstantOrder DEF end
        <4> QED BY <1>4, <2>1, <4>1
      <3> QED BY <1>1, <2>2, <3>1, <3>2
    <2>4. c <= b
      BY <1>1, <2>1, <2>2, <2>3, InstantOrder
    <2>5. ~(w.until <= b)
      <3>1. w.until <= b => end <= u
        BY <1>1, <1>2, <2>2, <2>3, InstantOrder DEF end
      <3> QED BY <1>4, <2>1, <3>1
    <2>6. w.from <= b /\ b < w.until
      BY <1>1, <1>2, <1>3, <2>2, <2>4, <2>5 DEF Clocks
    <2> QED BY <1>3, <2>1, <2>3, <2>6, SteadyCovers DEF e, b
  <1> QED BY <1>2, <1>4, <1>5, <1>6

(* The days ahead on which a window starts, and when.                      *)
LEMMA SteadyStarts ==
    ASSUME NEW w, Steady(w), NEW t \in Int, NEW n \in Nat
    PROVE  /\ StartOn(w, t, n) = Instant(w, Day(w.zone, t) + n, w.from)
           /\ StartOn(w, t, n) \in Int
           /\ n \in DaysToStart(w, t) <=> /\ n \in 0 .. 7
                                          /\ (Day(w.zone, t) + n) % 7 \in w.weekdays
                                          /\ StartOn(w, t, n) > t
  <1> DEFINE d == Day(w.zone, t)
             c == Clock(w.zone, t)
             candidate == Date(w.zone, d + n, c)
  <1>1. d \in Int /\ c \in Clocks /\ w.from \in Clocks
    BY SteadyClock DEF Steady, IsWindow
  <1>2. d + n \in Int
    BY <1>1
  <1> HIDE DEF c
  <1>3. Day(w.zone, candidate) = d + n
    <2>1. ASSUME NEW e \in Int, NEW b \in Clocks PROVE Day(w.zone, Date(w.zone, e, b)) = e
      <3>1. Date(w.zone, e, b) = Instant(w, e, b)
        BY SteadyInstant
      <3>2. Day(w.zone, Instant(w, e, b)) = e
        BY SteadyInstant
      <3> QED BY <3>1, <3>2
    <2> HIDE DEF d
    <2> QED BY <1>1, <1>2, <2>1
  <1>4. StartOn(w, t, n) = Date(w.zone, Day(w.zone, candidate), w.from)
    BY DEF StartOn, parseHHMM, c
  <1>5. StartOn(w, t, n) = Instant(w, d + n, w.from) /\ StartOn(w, t, n) \in Int
    <2> HIDE DEF d, candidate
    <2> QED BY <1>1, <1>2, <1>3, <1>4, SteadyInstant
  <1>6. n \in DaysToStart(w, t) <=> /\ n \in 0 .. 7
                                    /\ Day(w.zone, candidate) % 7 \in w.weekdays
                                    /\ StartOn(w, t, n) > t
    BY DEF DaysToStart, containsWeekday, c
  <1> QED BY <1>3, <1>5, <1>6

(* A start opens the window.                                               *)
LEMMA StartOpens ==
    ASSUME NEW w, Steady(w), NEW t \in Int, NEW n \in DaysToStart(w, t)
    PROVE  /\ StartOn(w, t, n) \in Int /\ StartOn(w, t, n) > t
           /\ Covers(w, StartOn(w, t, n))
  <1>1. n \in Nat
    BY DEF DaysToStart
  <1> DEFINE e == Day(w.zone, t) + n
             s == StartOn(w, t, n)
  <1>2. s = Instant(w, e, w.from) /\ s \in Int /\ e % 7 \in w.weekdays /\ s > t
    BY <1>1, SteadyStarts
  <1>3. e \in Int /\ w.from \in Clocks /\ w.until \in Clocks /\ w.from < w.until
    BY <1>1, SteadyClock DEF Steady, IsWindow
  <1> HIDE DEF e, s
  <1>4. Day(w.zone, s) = e /\ Clock(w.zone, s) = w.from /\ w.from <= w.from
    BY <1>2, <1>3, SteadyInstant DEF Clocks
  <1>5. Covers(w, s)
    BY <1>2, <1>3, <1>4, SteadyCovers
  <1> QED BY <1>2, <1>5 DEF s

(* A set of numbers has a least one.                                       *)
LEMMA MinIsLeast ==
    ASSUME NEW T, T \subseteq Nat, T # {}
    PROVE  Min(T) \in T /\ \A k \in T : Min(T) <= k
  <1>1. \E x \in T : \A y \in T : ~(<<y, x>> \in OpToRel(<, Nat))
    BY NatLessThanWellFounded, WFMin
  <1>2. PICK x \in T : \A y \in T : ~(<<y, x>> \in OpToRel(<, Nat))
    BY <1>1
  <1>3. \A y \in T : ~(y < x)
    BY <1>2 DEF OpToRel
  <1>4. \A y \in T : x <= y
    BY <1>3
  <1> QED BY <1>4 DEF Min

(* A window that is open later and not now starts in between, within the   *)
(* days nextAvailabilityWindowStart looks at.                              *)
LEMMA StartsBetween ==
    ASSUME NEW w, Steady(w), NEW t \in Int, NEW u \in Int, t <= u, ~Covers(w, t), Covers(w, u)
    PROVE  DaysToStart(w, t) # {} /\ StartOn(w, t, Min(DaysToStart(w, t))) <= u
  <1> DEFINE d == Day(w.zone, t)
             c == Clock(w.zone, t)
             e == Day(w.zone, u)
             b == Clock(w.zone, u)
  <1>1. /\ d \in Int /\ c \in Clocks /\ t = Instant(w, d, c)
        /\ e \in Int /\ b \in Clocks /\ u = Instant(w, e, b)
        /\ w.from \in Clocks /\ w.until \in Clocks
    BY SteadyClock DEF Steady, IsWindow
  <1>2. e % 7 \in w.weekdays /\ w.from <= b /\ b < w.until
    BY SteadyCovers
  <1>3. ~(d % 7 \in w.weekdays /\ w.from <= c /\ c < w.until)
    BY SteadyCovers
  <1>4. \A n \in Nat :
           /\ StartOn(w, t, n) = Instant(w, d + n, w.from) /\ StartOn(w, t, n) \in Int
           /\ n \in DaysToStart(w, t) <=> /\ n \in 0 .. 7 /\ (d + n) % 7 \in w.weekdays
                                          /\ StartOn(w, t, n) > t
    BY SteadyStarts
  <1> HIDE DEF d, c, e, b
  <1>5. d <= e
    <2>1. ~(e < d)
      BY <1>1, InstantOrder
    <2> QED BY <1>1, <2>1
  <1>6. Instant(w, e, w.from) <= u /\ Instant(w, e, w.from) \in Int
    BY <1>1, <1>2, InstantOrder, SteadyInstant
  <1>7. \E k \in DaysToStart(w, t) : k \in Nat /\ d + k <= e
    <2>1. CASE d = e
      <3>1. c <= b
        BY <1>1, <2>1, InstantOrder
      <3>2. ~(w.from <= c)
        BY <1>1, <1>2, <1>3, <2>1, <3>1 DEF Clocks
      <3>3. ~(Instant(w, d, w.from) <= t)
        BY <1>1, <3>2, InstantOrder
      <3>4. d + 0 = d
        BY <1>1
      <3>5. StartOn(w, t, 0) = Instant(w, d, w.from) /\ StartOn(w, t, 0) \in Int
        BY <1>4, <3>4
      <3>6. 0 \in DaysToStart(w, t)
        BY <1>2, <1>4, <2>1, <3>3, <3>4, <3>5
      <3> QED BY <1>1, <1>5, <3>4, <3>6
    <2>2. CASE d < e
      <3> DEFINE k == ((e - d - 1) % 7) + 1
      <3>1. k \in 1 .. 7 /\ d + k <= e /\ (d + k) % 7 = e % 7
        BY <1>1, <2>2
      <3> HIDE DEF k
      <3>2. d + k \in Int /\ d < d + k /\ k \in Nat /\ k \in 0 .. 7
        BY <1>1, <3>1
      <3>3. t < Instant(w, d + k, w.from)
        BY <1>1, <3>2, InstantOrder
      <3>4. StartOn(w, t, k) > t
        BY <1>4, <3>2, <3>3
      <3>5. k \in DaysToStart(w, t)
        BY <1>2, <1>4, <3>1, <3>2, <3>4
      <3> QED BY <3>1, <3>2, <3>5
    <2> QED BY <1>1, <1>5, <2>1, <2>2
  <1>8. PICK k \in DaysToStart(w, t) : k \in Nat /\ d + k <= e
    BY <1>7
  <1> DEFINE m == Min(DaysToStart(w, t))
  <1>9. m \in DaysToStart(w, t) /\ m <= k /\ m \in Nat
    <2>1. DaysToStart(w, t) \subseteq Nat
      BY DEF DaysToStart
    <2> QED BY <1>8, <2>1, MinIsLeast
  <1> HIDE DEF m
  <1>10. StartOn(w, t, m) = Instant(w, d + m, w.from) /\ StartOn(w, t, m) \in Int
    BY <1>4, <1>9
  <1>11. d + m \in Int /\ d + m <= e
    BY <1>1, <1>8, <1>9
  <1>12. Instant(w, d + m, w.from) <= Instant(w, e, w.from)
    <2>1. CASE d + m = e
      BY <1>6, <2>1
    <2>2. CASE d + m < e
      <3>1. Instant(w, d + m, w.from) < Instant(w, e, w.from)
        BY <1>1, <1>11, <2>2, InstantOrder
      <3> QED BY <1>6, <1>10, <3>1
    <2> QED BY <1>1, <1>11, <2>1, <2>2
  <1>13. StartOn(w, t, m) <= u
    BY <1>6, <1>10, <1>12
  <1> QED BY <1>8, <1>13 DEF m

-----------------------------------------------------------------------------
(* The delay a reconcile asks for.                                         *)

(* No zone changes its clocks.                                             *)
SteadyZones ==
    \A list \in Lists : \A i \in DOMAIN list :
        list[i].zone # UnknownZone => list[i].zone.before = list[i].zone.after

(* The boundary that comes next for a policy that was looked up at t.      *)
BoundaryAfter(t, in) ==
    IF in THEN {windowEnd(windows, t)} ELSE nextAvailabilityWindowStart(windows, t)

(* The last reconcile decided by the clock it read, and asked for a delay  *)
(* that ends at the next boundary at the latest, if that is ahead.         *)
DueInv ==
    /\ Admitted
    /\ rec.pc = "running" => /\ rec.read \in Nat /\ rec.read <= now
                             /\ rec.in = isInAvailabilityWindow(windows, rec.read)
    /\ last.ok =>
          /\ last.read \in Nat /\ last.at \in Nat /\ due \in Nat
          /\ last.read <= last.at /\ last.at <= now
          /\ last.in = isInAvailabilityWindow(windows, last.read)
          /\ due <= last.at + windowCheckInterval
          /\ \A b \in BoundaryAfter(last.read, last.in) : b <= last.at \/ due <= b

LEMMA AdmittedAreSteady ==
    ASSUME SteadyZones, Admitted, NEW i \in DOMAIN windows
    PROVE  Steady(windows[i]) /\ i \in Nat
  <1>1. IsWindow(windows[i]) /\ windows[i].from < windows[i].until
    BY AdmittedAreWindows
  <1>2. windows \in Lists
    BY DEF Admitted
  <1>3. i \in Nat /\ windows[i].zone.before = windows[i].zone.after
    BY <1>1, <1>2 DEF SteadyZones, IsWindow
  <1> QED BY <1>1, <1>3 DEF Steady

(* The end of the window a policy is in.                                   *)
LEMMA EndOfWindow ==
    ASSUME SteadyZones, Admitted, NEW t \in Int, isInAvailabilityWindow(windows, t)
    PROVE  \E i \in DOMAIN windows :
              /\ Covers(windows[i], t)
              /\ windowEnd(windows, t) = parseHHMM(windows[i].until, t, windows[i].zone)
  <1> DEFINE T == Covering(windows, t)
  <1>1. T # {} /\ T \subseteq Nat
    BY AdmittedAreSteady DEF isInAvailabilityWindow, Covering
  <1>2. Min(T) \in T
    <2> HIDE DEF T
    <2> QED BY <1>1, MinIsLeast
  <1> QED BY <1>2 DEF Covering, windowEnd

(* The starts a policy waits for.                                          *)
LEMMA StartsAhead ==
    ASSUME SteadyZones, Admitted, NEW t \in Nat, NEW s \in Starts(windows, t)
    PROVE  s \in Nat /\ s > t /\ \E i \in DOMAIN windows : Covers(windows[i], s)
  <1>1. PICK i \in DOMAIN windows : /\ DaysToStart(windows[i], t) # {}
                                    /\ s = StartOn(windows[i], t, Min(DaysToStart(windows[i], t)))
    BY DEF Starts
  <1> DEFINE T == DaysToStart(windows[i], t)
             m == Min(T)
  <1>2. T \subseteq Nat /\ T # {}
    BY <1>1 DEF DaysToStart
  <1>3. m \in T
    <2> HIDE DEF T
    <2> QED BY <1>2, MinIsLeast
  <1>4. Steady(windows[i]) /\ s = StartOn(windows[i], t, m) /\ t \in Int
    BY <1>1, AdmittedAreSteady
  <1> HIDE DEF m
  <1>5. s \in Int /\ s > t /\ Covers(windows[i], s)
    BY <1>3, <1>4, StartOpens
  <1> QED BY <1>5

LEMMA BoundaryTyped ==
    ASSUME SteadyZones, Admitted, NEW t \in Nat, NEW in,
           in = isInAvailabilityWindow(windows, t), NEW b \in BoundaryAfter(t, in)
    PROVE  b \in Int
  <1>1. CASE in
    <2>1. PICK i \in DOMAIN windows :
             /\ Covers(windows[i], t)
             /\ windowEnd(windows, t) = parseHHMM(windows[i].until, t, windows[i].zone)
      <3>1. t \in Int
        OBVIOUS
      <3> QED BY <1>1, <3>1, EndOfWindow
    <2>2. b = parseHHMM(windows[i].until, t, windows[i].zone)
      BY <1>1, <2>1 DEF BoundaryAfter
    <2> QED BY <2>1, <2>2, AdmittedAreSteady, OpenUntilEnd
  <1>2. CASE ~in
    BY <1>2, StartsAhead DEF BoundaryAfter, nextAvailabilityWindowStart
  <1> QED BY <1>1, <1>2

(* The delay never reaches over a boundary that is ahead.                  *)
LEMMA DelayMeets ==
    ASSUME SteadyZones, DueInv, rec.pc = "running"
    PROVE  /\ requeueAfter \in 1 .. windowCheckInterval
           /\ \A b \in NextBoundary : b <= now \/ now + requeueAfter <= b
  <1> DEFINE I == windowCheckInterval
             near == {b - now : b \in NextBoundary} \cap 1 .. (I - 1)
  <1>1. now \in Nat /\ I \in Nat \ {0} /\ Admitted
    BY DEF DueInv, Admitted
  <1>2. NextBoundary = BoundaryAfter(rec.read, rec.in)
    BY DEF NextBoundary, BoundaryAfter
  <1>3. \A b \in NextBoundary : b \in Int
    BY <1>1, <1>2, BoundaryTyped DEF DueInv
  <1>4. requeueAfter = IF near = {} THEN I ELSE Min(near)
    BY DEF requeueAfter
  <1>5. near \subseteq 1 .. (I - 1) /\ \A b \in NextBoundary : b - now \in 1 .. (I - 1) => b - now \in near
    OBVIOUS
  <1> HIDE DEF near, I
  <1>6. CASE near = {}
    BY <1>1, <1>3, <1>4, <1>5, <1>6 DEF I
  <1>7. CASE near # {}
    <2>1. Min(near) \in near /\ \A k \in near : Min(near) <= k
      <3>1. near \subseteq Nat
        BY <1>5
      <3> QED BY <1>7, <3>1, MinIsLeast
    <2> DEFINE m == Min(near)
    <2>2. m \in 1 .. (I - 1) /\ requeueAfter = m
      BY <1>4, <1>5, <1>7, <2>1
    <2>3. ASSUME NEW b \in NextBoundary PROVE b <= now \/ now + m <= b
      <3>1. CASE b - now \in 1 .. (I - 1)
        <4>1. m <= b - now
          BY <1>5, <2>1, <3>1
        <4> HIDE DEF m
        <4> QED BY <1>1, <1>3, <2>2, <4>1
      <3>2. CASE b - now \notin 1 .. (I - 1)
        <4> HIDE DEF m
        <4> QED BY <1>1, <1>3, <2>2, <3>2
      <3> QED BY <3>1, <3>2
    <2> HIDE DEF m
    <2> QED BY <1>1, <2>2, <2>3 DEF I
  <1> QED BY <1>6, <1>7

LEMMA DueStarts ==
    ASSUME Init
    PROVE  DueInv
  BY DEF Init, DueInv, Admitted, Waiting

LEMMA DueKept ==
    ASSUME SteadyZones, DueInv, Next
    PROVE  DueInv'
  <1>1. CASE Reconcile
    <2>1. /\ rec' = [pc |-> "running", read |-> now, in |-> isInAvailabilityWindow(windows, now)]
          /\ UNCHANGED <<now, windows, due, last>>
      BY <1>1 DEF Reconcile
    <2>2. now \in Nat
      BY DEF DueInv, Admitted
    <2>3. Admitted' /\ \A t, in : BoundaryAfter(t, in)' = BoundaryAfter(t, in)
      BY <2>1 DEF DueInv, Admitted, BoundaryAfter
    <2> QED BY <2>1, <2>2, <2>3 DEF DueInv, BoundaryAfter
  <1>2. CASE Finish
    <2>1. /\ rec.pc = "running" /\ due' = now + requeueAfter
          /\ last' = [ok |-> TRUE, read |-> rec.read, at |-> now, in |-> rec.in]
          /\ rec'.pc = "waiting" /\ UNCHANGED <<now, windows>>
      BY <1>2 DEF Finish, Waiting
    <2>2. /\ requeueAfter \in 1 .. windowCheckInterval
          /\ \A b \in NextBoundary : b <= now \/ now + requeueAfter <= b
      BY <2>1, DelayMeets
    <2>3. NextBoundary = BoundaryAfter(rec.read, rec.in)
      BY DEF NextBoundary, BoundaryAfter
    <2>4. /\ Admitted /\ now \in Nat /\ rec.read \in Nat /\ rec.read <= now
          /\ rec.in = isInAvailabilityWindow(windows, rec.read)
      BY <2>1 DEF DueInv, Admitted
    <2>5. due' \in Nat /\ due' <= now + windowCheckInterval
      BY <2>1, <2>2, <2>4
    <2>6. BoundaryAfter(last.read, last.in)' = BoundaryAfter(rec.read, rec.in)
      BY <2>1 DEF BoundaryAfter
    <2>7. Admitted'
      BY <2>1, <2>4 DEF Admitted
    <2> QED BY <2>1, <2>2, <2>3, <2>4, <2>5, <2>6, <2>7 DEF DueInv
  <1>3. CASE Fail
    BY <1>3 DEF Fail, DueInv, Admitted, Waiting
  <1>4. CASE Tick
    <2>1. now \in Nat /\ now' = now + 1 /\ UNCHANGED <<windows, rec, due, last>>
      BY <1>4 DEF Tick, DueInv, Admitted
    <2>2. BoundaryAfter(last.read, last.in)' = BoundaryAfter(last.read, last.in)
      BY <2>1 DEF BoundaryAfter
    <2> QED BY <2>1, <2>2 DEF DueInv, Admitted
  <1> QED BY <1>1, <1>2, <1>3, <1>4 DEF Next

(* A decision that has become wrong was overtaken during its reconcile.    *)
LEMMA DueEnough ==
    ASSUME SteadyZones, DueInv
    PROVE  BoundaryMet
  <1> SUFFICES ASSUME rec.pc = "waiting", last.ok, now < due,
                      isInAvailabilityWindow(windows, now) # last.in
               PROVE  ~QuietReconcile /\ now < last.at + windowCheckInterval
    BY DEF BoundaryMet
  <1> DEFINE r == last.read
  <1>1. /\ Admitted /\ now \in Nat /\ r \in Nat /\ last.at \in Nat /\ due \in Nat
        /\ r <= last.at /\ last.at <= now /\ due <= last.at + windowCheckInterval
        /\ last.in = isInAvailabilityWindow(windows, r)
        /\ \A b \in BoundaryAfter(r, last.in) : b <= last.at \/ due <= b
    BY DEF DueInv, Admitted
  <1> HIDE DEF r
  <1>2. r \in Int /\ now \in Int /\ r <= now /\ now < last.at + windowCheckInterval
    BY <1>1
  <1>3. \A i \in DOMAIN windows : Steady(windows[i])
    BY <1>1, AdmittedAreSteady
  <1>6. last.in \in BOOLEAN
    BY <1>1 DEF isInAvailabilityWindow
  <1>4. CASE last.in
    <2>1. PICK i \in DOMAIN windows :
             /\ Covers(windows[i], r)
             /\ windowEnd(windows, r) = parseHHMM(windows[i].until, r, windows[i].zone)
      BY <1>1, <1>2, <1>4, EndOfWindow
    <2> DEFINE end == parseHHMM(windows[i].until, r, windows[i].zone)
    <2>2. /\ end \in Int /\ r < end /\ ~Covers(windows[i], end)
          /\ \A u \in r .. (end - 1) : Covers(windows[i], u)
      BY <1>2, <1>3, <2>1, OpenUntilEnd
    <2>3. end \in BoundaryAfter(r, last.in)
      BY <1>4, <2>1 DEF BoundaryAfter
    <2> HIDE DEF end
    <2>4. end <= now
      <3>1. ~Covers(windows[i], now)
        BY <1>4 DEF isInAvailabilityWindow, Covering
      <3>2. now \notin r .. (end - 1)
        BY <2>2, <3>1
      <3> QED BY <1>1, <1>2, <2>2, <3>2
    <2>5. end <= last.at
      BY <1>1, <2>2, <2>3, <2>4
    <2>6. end \in r .. last.at
      BY <1>1, <2>2, <2>5
    <2> QED BY <1>2, <2>1, <2>2, <2>6 DEF QuietReconcile, r
  <1>5. CASE ~last.in
    <2>1. \A i \in DOMAIN windows : ~Covers(windows[i], r)
      BY <1>1, <1>5 DEF isInAvailabilityWindow, Covering
    <2>2. PICK i \in DOMAIN windows : Covers(windows[i], now)
      <3>1. \E i \in DOMAIN windows : Covers(windows[i], now)
        <4> SUFFICES ASSUME ~\E i \in DOMAIN windows : Covers(windows[i], now)
                     PROVE  FALSE
          OBVIOUS
        <4>1. Covering(windows, now) = {}
          BY DEF Covering
        <4>2. isInAvailabilityWindow(windows, now) = FALSE
          BY <4>1 DEF isInAvailabilityWindow
        <4>3. last.in = FALSE
          BY <1>5, <1>6
        <4> QED BY <4>2, <4>3
      <3> QED BY <3>1
    <2> DEFINE first == StartOn(windows[i], r, Min(DaysToStart(windows[i], r)))
    <2>3. DaysToStart(windows[i], r) # {} /\ first <= now
      BY <1>2, <1>3, <2>1, <2>2, StartsBetween
    <2>4. first \in Starts(windows, r)
      <3>1. windows[i].zone # UnknownZone
        BY <1>3 DEF Steady, IsWindow
      <3> QED BY <2>3, <3>1 DEF Starts
    <2> HIDE DEF first
    <2>5. PICK s \in Starts(windows, r) : \A q \in Starts(windows, r) : s <= q
      <3> DEFINE T == Starts(windows, r)
      <3>1. T \subseteq Nat /\ T # {}
        BY <1>1, <2>4, StartsAhead
      <3> HIDE DEF T
      <3>2. Min(T) \in T /\ \A k \in T : Min(T) <= k
        BY <3>1, MinIsLeast
      <3> QED BY <3>2 DEF T
    <2>6. s \in BoundaryAfter(r, last.in)
      BY <1>5, <2>5 DEF BoundaryAfter, nextAvailabilityWindowStart
    <2>7. s \in Nat /\ s > r /\ \E j \in DOMAIN windows : Covers(windows[j], s)
      BY <1>1, StartsAhead
    <2>8. s <= now
      <3>1. first \in Nat
        BY <1>1, <2>4, StartsAhead
      <3> QED BY <1>1, <2>3, <2>4, <2>5, <2>7, <3>1
    <2>9. s \in r .. last.at
      BY <1>1, <2>6, <2>7, <2>8
    <2> QED BY <1>2, <2>1, <2>7, <2>9 DEF QuietReconcile, r
  <1> QED BY <1>4, <1>5, <1>6

(* In zones whose clocks do not change, no start or end of any window falls *)
(* into the time a reconcile asked to wait, for windows of any number and   *)
(* kind, any interval and any duration of the reconcile: the delay that     *)
(* windowEnd and nextAvailabilityWindowStart give ends at the next boundary *)
(* at the latest, and only one that fell into the reconcile itself is met   *)
(* late, within windowCheckInterval.                                        *)
THEOREM BoundaryAlwaysMet == SteadyZones => (Spec => []BoundaryMet)
  <1> SUFFICES ASSUME SteadyZones PROVE Spec => []BoundaryMet
    OBVIOUS
  <1>1. Init => DueInv
    BY DueStarts
  <1>2. DueInv /\ [Next]_vars => DueInv'
    <2> SUFFICES ASSUME DueInv, [Next]_vars PROVE DueInv'
      OBVIOUS
    <2>1. CASE Next
      BY <2>1, DueKept
    <2>2. CASE UNCHANGED vars
      BY <2>2 DEF vars, DueInv, Admitted, BoundaryAfter
    <2> QED BY <2>1, <2>2
  <1>3. DueInv => BoundaryMet
    BY DueEnough
  <1> QED BY <1>1, <1>2, <1>3, PTL DEF Spec
=============================================================================
