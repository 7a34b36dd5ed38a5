---------------------------- MODULE SourceProofs ----------------------------
(***************************************************************************)
(* Proofs about the EnergyPriceSource controller, for any number of        *)
(* sources, schedules, TTLs, delays and faults: its types, that no source  *)
(* is forgotten, and that prices are as fresh as schedule and TTL allow.   *)
(***************************************************************************)
EXTENDS EnergyPriceSource, TLAPS

USE SourceAssumption

(* The time to the next fire goes down by one with every second.            *)
LEMMA NextFireType ==
    ASSUME NEW s \in Sources, clock \in 0 .. (Period - 1)
    PROVE  /\ NextFire(s) \in 0 .. (Period - 1)
           /\ NextFire(s) = IF Offset[s] >= clock THEN Offset[s] - clock
                            ELSE Offset[s] - clock + Period
  <1> DEFINE o == Offset[s]
  <1>1. o \in 0 .. (Period - 1)
    OBVIOUS
  <1> HIDE DEF o
  <1>2. (o - clock) % Period = IF o >= clock THEN o - clock ELSE o - clock + Period
    BY <1>1
  <1> QED BY <1>1, <1>2 DEF NextFire, o

(* A timer is set to a delay and keeps an earlier one.                      *)
LEMMA TimerSet ==
    ASSUME TypeOK, NEW s \in Sources, NEW d \in Nat \ {0}, RequeueAfter(s, d)
    PROVE  /\ timer' \in [Sources -> (Nat \ {0}) \cup {None}]
           /\ timer'[s] \in Nat \ {0} /\ timer'[s] <= d
           /\ \A r \in Sources \ {s} : timer'[r] = timer[r]
  BY DEF TypeOK, RequeueAfter, Sooner

(* Every delay that a return asks for is positive.                          *)
LEMMA Delays ==
    ASSUME TypeOK, NEW s \in Sources
    PROVE  /\ StillCached(s) => CacheTTL[s] - age[s] \in Nat \ {0}
           /\ NextFire(s) > Ahead => NextFire(s) \in Nat \ {0}
           /\ NextCronFire(s) \in Nat \ {0}
  <1>1. NextFire(s) \in 0 .. (Period - 1)
    BY NextFireType DEF TypeOK
  <1> QED BY <1>1 DEF TypeOK, StillCached, NextCronFire

LEMMA InitTypes == Init => TypeOK
  BY DEF Init, TypeOK, Idle, MaxAge

LEMMA ReturnTypes ==
    ASSUME TypeOK, NEW s \in Sources,
           WaitForTTL(s) \/ InvalidSchedule(s) \/ WaitForFire(s)
    PROVE  TypeOK'
  <1>1. CASE WaitForTTL(s)
    BY <1>1, Delays, TimerSet DEF WaitForTTL, TypeOK, MaxAge
  <1>2. CASE InvalidSchedule(s)
    BY <1>2, TimerSet DEF InvalidSchedule, setErrorCondition, TypeOK, MaxAge
  <1>3. CASE WaitForFire(s)
    BY <1>3, Delays, TimerSet DEF WaitForFire, TypeOK, MaxAge
  <1> QED BY <1>1, <1>2, <1>3

LEMMA StoreTypes ==
    ASSUME TypeOK, NEW s \in Sources, Store(s) \/ UNCHANGED <<has, age, stamped, queue>>
    PROVE  /\ has' \in [Sources -> BOOLEAN]
           /\ queue' \subseteq Sources /\ stamped' \subseteq Sources
           /\ age' \in [Sources -> Nat] /\ \A r \in Sources : age'[r] <= MaxAge(r)
  <1>1. CASE Store(s)
    BY <1>1 DEF Store, TypeOK, MaxAge
  <1>2. CASE UNCHANGED <<has, age, stamped, queue>>
    BY <1>2 DEF TypeOK
  <1> QED BY <1>1, <1>2

LEMMA FetchTypes ==
    ASSUME TypeOK, NEW s \in Sources, BeginFetch(s) \/ Refresh(s) \/ FetchFails(s)
    PROVE  TypeOK'
  <1>1. CASE BeginFetch(s)
    BY <1>1 DEF BeginFetch, Scheduled, TypeOK, MaxAge
  <1>2. CASE Refresh(s)
    BY <1>2, StoreTypes, Delays, TimerSet DEF Refresh, TypeOK, MaxAge, Idle
  <1>3. CASE FetchFails(s)
    BY <1>3, TimerSet DEF FetchFails, setErrorCondition, Fault, TypeOK, MaxAge, Idle
  <1> QED BY <1>1, <1>2, <1>3

LEMMA PatchTypes ==
    ASSUME TypeOK, NEW s \in Sources, PatchFails(s) \/ ErrorPatchFails(s)
    PROVE  TypeOK'
  <1>1. timer' \in [Sources -> (Nat \ {0}) \cup {None}]
    <2>1. PICK d \in 1 .. MaxBackoff : RequeueAfter(s, d)
      BY DEF PatchFails, ErrorPatchFails, BackOff
    <2> QED BY <2>1, TimerSet
  <1>2. CASE PatchFails(s)
    BY <1>1, <1>2, StoreTypes DEF PatchFails, Fault, TypeOK, MaxAge, Idle
  <1>3. CASE ErrorPatchFails(s)
    BY <1>1, <1>3 DEF ErrorPatchFails, Fault, TypeOK, MaxAge, Idle
  <1> QED BY <1>2, <1>3

LEMMA AroundTypes ==
    ASSUME TypeOK, (\E s \in Sources : Event(s)) \/ Restart \/ Tick
    PROVE  TypeOK'
  <1>1. ASSUME NEW s \in Sources, Event(s) PROVE TypeOK'
    BY <1>1 DEF Event, TypeOK, MaxAge
  <1>2. CASE Restart
    BY <1>2 DEF Restart, Fault, TypeOK, MaxAge, Idle
  <1>3. CASE Tick
    <2>1. clock' \in 0 .. (Period - 1)
      BY <1>3 DEF Tick, TypeOK
    <2>2. age' \in [Sources -> Nat] /\ \A s \in Sources : age'[s] <= MaxAge(s)
      BY <1>3 DEF Tick, TypeOK, MaxAge
    <2>3. timer' \in [Sources -> (Nat \ {0}) \cup {None}] /\ queue' \subseteq Sources
      BY <1>3 DEF Tick, TypeOK
    <2>4. work' \in [source : Parses, spent : 0 .. MaxWork] \cup {Idle}
      BY <1>3 DEF Tick, TypeOK, Idle
    <2> QED BY <1>3, <2>1, <2>2, <2>3, <2>4 DEF Tick, TypeOK, MaxAge
  <1> QED BY <1>1, <1>2, <1>3

LEMMA NextTypes == TypeOK /\ [Next]_vars => TypeOK'
  <1> SUFFICES ASSUME TypeOK, [Next]_vars PROVE TypeOK'
    OBVIOUS
  <1>1. CASE UNCHANGED vars
    BY <1>1 DEF vars, TypeOK, MaxAge
  <1> QED BY <1>1, ReturnTypes, FetchTypes, PatchTypes, AroundTypes DEF Next, Reconcile

(* Every variable keeps its type (EnergyPriceSource), for any sources.      *)
THEOREM TypesKept == Spec => []TypeOK
  BY InitTypes, NextTypes, PTL DEF Spec

-----------------------------------------------------------------------------
(* No source is forgotten *)

LEMMA NextRemembers == TypeOK /\ NeverForgotten /\ [Next]_vars => NeverForgotten'
  <1> SUFFICES ASSUME TypeOK, NeverForgotten, [Next]_vars, NEW r \in Sources
               PROVE  r \in queue' \/ timer'[r] # None \/ work'.source = r
    BY DEF NeverForgotten
  <1>0. r \in queue \/ timer[r] # None \/ work.source = r
    BY DEF NeverForgotten
  <1>1. ASSUME NEW s \in Sources, NEW d \in Nat \ {0}, RequeueAfter(s, d)
        PROVE  timer'[s] # None /\ (timer[r] # None => timer'[r] # None)
    BY <1>1, TimerSet DEF TypeOK
  <1>2. ASSUME NEW s \in Sources, Reconcile(s)
        PROVE  r \in queue' \/ timer'[r] # None \/ work'.source = r
    <2>1. CASE WaitForTTL(s)
      BY <1>0, <1>1, <2>1, Delays DEF WaitForTTL
    <2>2. CASE InvalidSchedule(s)
      BY <1>0, <1>1, <2>2 DEF InvalidSchedule, setErrorCondition
    <2>3. CASE WaitForFire(s)
      BY <1>0, <1>1, <2>3, Delays DEF WaitForFire
    <2>4. CASE BeginFetch(s)
      BY <1>0, <2>4 DEF BeginFetch, Scheduled, Begins, Idle
    <2>5. CASE Refresh(s)
      BY <1>0, <1>1, <2>5, Delays DEF Refresh, Store, Fetching
    <2> QED BY <1>2, <2>1, <2>2, <2>3, <2>4, <2>5 DEF Reconcile
  <1>3. ASSUME NEW s \in Sources, FetchFails(s) \/ PatchFails(s) \/ ErrorPatchFails(s)
        PROVE  r \in queue' \/ timer'[r] # None \/ work'.source = r
    <2>1. CASE FetchFails(s)
      BY <1>0, <1>1, <2>1 DEF FetchFails, setErrorCondition, Fetching
    <2>2. CASE PatchFails(s)
      BY <1>0, <1>1, <2>2 DEF PatchFails, Store, BackOff, Fetching
    <2>3. CASE ErrorPatchFails(s)
      BY <1>0, <1>1, <2>3 DEF ErrorPatchFails, BackOff, Fetching, Unparsable, Begins, Idle
    <2> QED BY <1>3, <2>1, <2>2, <2>3
  <1>4. ASSUME NEW s \in Sources, Event(s)
        PROVE  r \in queue' \/ timer'[r] # None \/ work'.source = r
    BY <1>0, <1>4 DEF Event
  <1>5. CASE Restart
    BY <1>5 DEF Restart
  <1>6. CASE Tick
    BY <1>0, <1>6 DEF Tick, TypeOK, Idle
  <1>7. CASE UNCHANGED vars
    BY <1>0, <1>7 DEF vars
  <1> QED BY <1>2, <1>3, <1>4, <1>5, <1>6, <1>7 DEF Next

(* Whatever a reconcile returned and whichever call failed, every source is *)
(* queued, timed or being fetched (the returns of Reconcile and of          *)
(* setErrorCondition).                                                      *)
THEOREM NoSourceForgotten == Spec => []NeverForgotten
  <1>1. Init => NeverForgotten
    BY DEF Init, NeverForgotten
  <1> QED BY <1>1, NextRemembers, TypesKept, PTL DEF Spec

-----------------------------------------------------------------------------
(* Prices stay fresh *)

(* A fetch runs from at most Ahead before a fire to MaxWork after it.       *)
NearFire(s) == NextFire(s) <= Ahead \/ NextFire(s) + work.spent >= Period

(* A source that waits is timed for the end of its TTL or, without prices   *)
(* in their TTL, for its next fire, or for an earlier moment.  Prices of    *)
(* this second (and a TTL of zero) have made use of the fire in it.         *)
TimedBy(s) ==
    IF StillCached(s) THEN CacheTTL[s] - age[s]
    ELSE IF has[s] /\ age[s] = 0 THEN NextCronFire(s) ELSE NextFire(s)
InTime(s) == Fetching(s) \/ s \in queue \/ (timer[s] # None /\ timer[s] <= TimedBy(s))

(* How old prices may be when a fetch begins.                               *)
EveryFire(s) == CacheTTL[s] + MaxWork <= Period
Limit(s) ==
    IF ~has[s] THEN Period
    ELSE IF EveryFire(s) THEN Period + Ahead ELSE CacheTTL[s] + Period

(* What the age will be at the next fire is within the limit, and when the  *)
(* TTL skips that fire although it is short, the prices were fetched just   *)
(* before it.                                                               *)
AtNextFire(s) == age[s] + NextFire(s)
Young(s) ==
    IF Fetching(s) THEN age[s] <= Limit(s) + work.spent
    ELSE /\ AtNextFire(s) <= Limit(s)
         /\ has[s] /\ EveryFire(s) /\ AtNextFire(s) < CacheTTL[s] => AtNextFire(s) <= Ahead

FreshInv ==
    /\ \A s \in Parses : Fetching(s) => NearFire(s) /\ ~StillCached(s)
    /\ faults = 0 => \A s \in Parses : InTime(s) /\ (Apart(s) => Young(s))

(* While the clock stands still the next fire is as far as it was.          *)
LEMMA SameFire ==
    ASSUME NEW s \in Sources, clock' = clock
    PROVE  NextFire(s)' = NextFire(s)
  BY DEF NextFire

(* A second brings it nearer, or is the one in which it fires.              *)
LEMMA FireNears ==
    ASSUME TypeOK, NEW s \in Sources, Tick
    PROVE  NextFire(s)' = IF NextFire(s) = 0 THEN Period - 1 ELSE NextFire(s) - 1
  <1>1. clock' = IF clock + 1 = Period THEN 0 ELSE clock + 1
    BY DEF Tick, TypeOK
  <1>2. clock' \in 0 .. (Period - 1) /\ Offset[s] \in 0 .. (Period - 1)
    BY <1>1 DEF TypeOK
  <1>3. NextFire(s)' = IF Offset[s] >= clock' THEN Offset[s] - clock'
                       ELSE Offset[s] - clock' + Period
    BY <1>2 DEF NextFire
  <1> QED BY <1>1, <1>2, <1>3, NextFireType DEF TypeOK

(* When s fires, no source from which it is apart is being fetched.         *)
LEMMA OthersQuiet ==
    ASSUME TypeOK, NEW s \in Parses, NEW r \in Parses \ {s}, Apart(s), NextFire(s) = 0,
           Fetching(r), NearFire(r)
    PROVE  FALSE
  <1> DEFINE o == Offset[s]
             q == Offset[r]
             d == (o - q) % Period
  <1>1. o \in 0 .. (Period - 1) /\ q \in 0 .. (Period - 1)
    OBVIOUS
  <1>2. clock = o
    BY <1>1, NextFireType DEF TypeOK
  <1>3. NextFire(r) = IF q >= o THEN q - o ELSE q - o + Period
    BY <1>2, NextFireType DEF TypeOK
  <1>4. d = IF o >= q THEN o - q ELSE o - q + Period
    <2> HIDE DEF o, q
    <2> QED BY <1>1
  <1>5. MaxWork < d /\ d < Period - Ahead
    BY DEF Apart
  <1>6. work.spent \in 0 .. MaxWork
    BY DEF TypeOK, Idle
  <1> HIDE DEF o, q, d
  <1> QED BY <1>1, <1>3, <1>4, <1>5, <1>6 DEF NearFire

(* A step of a reconcile that fetches nothing sets a timer at most.         *)
LEMMA WaitKeepsFresh ==
    ASSUME TypeOK, FreshInv, NEW s \in Sources,
           WaitForTTL(s) \/ InvalidSchedule(s) \/ WaitForFire(s) \/ Event(s)
    PROVE  FreshInv'
  <1>1. UNCHANGED <<clock, has, age, work, faults>>
    BY DEF WaitForTTL, InvalidSchedule, WaitForFire, Event
  <1>2. ASSUME NEW r \in Sources
        PROVE  /\ Fetching(r)' = Fetching(r) /\ NearFire(r)' = NearFire(r)
               /\ Apart(r)' = Apart(r) /\ Young(r)' = Young(r) /\ TimedBy(r)' = TimedBy(r)
               /\ StillCached(r)' = StillCached(r)
    BY <1>1 DEF Fetching, NearFire, NextFire, NextCronFire, Apart, Young, AtNextFire, EveryFire,
                Limit, TimedBy, StillCached
  <1>3. ASSUME NEW r \in Parses, InTime(r) PROVE InTime(r)'
    <2>1. CASE Event(s)
      BY <1>2, <1>3, <2>1 DEF InTime, Event
    <2>2. CASE ~Event(s) /\ r # s
      BY <1>2, <1>3, <2>2, Delays, TimerSet
         DEF InTime, WaitForTTL, InvalidSchedule, WaitForFire, setErrorCondition
    <2>3. CASE WaitForTTL(s) /\ r = s
      <3>1. timer'[s] \in Nat \ {0} /\ timer'[s] <= CacheTTL[s] - age[s]
        BY <2>3, Delays, TimerSet DEF WaitForTTL
      <3> QED BY <1>2, <2>3, <3>1 DEF InTime, TimedBy, WaitForTTL
    <2>4. CASE WaitForFire(s) /\ r = s
      <3>1. timer'[s] \in Nat \ {0} /\ timer'[s] <= NextFire(s)
        BY <2>4, Delays, TimerSet DEF WaitForFire
      <3> QED BY <1>2, <2>4, <3>1 DEF InTime, TimedBy, NextCronFire, WaitForFire, Scheduled
    <2>5. CASE InvalidSchedule(s) /\ r = s
      BY <2>5 DEF InvalidSchedule, Unparsable
    <2> QED BY <2>1, <2>2, <2>3, <2>4, <2>5
  <1> QED BY <1>1, <1>2, <1>3 DEF FreshInv

LEMMA BeginKeepsFresh ==
    ASSUME TypeOK, FreshInv, NEW s \in Sources, BeginFetch(s)
    PROVE  FreshInv'
  <1>1. /\ UNCHANGED <<clock, has, age, timer, faults>> /\ queue' = queue \ {s}
        /\ \A r \in Sources : ~Fetching(r) /\ (Fetching(r)' <=> r = s)
        /\ work'.spent = 0 /\ s \in Parses /\ NextFire(s) <= Ahead /\ ~StillCached(s)
    BY DEF BeginFetch, Scheduled, Begins, Fetching, Idle
  <1>2. ASSUME NEW r \in Sources
        PROVE  /\ NextFire(r)' = NextFire(r) /\ TimedBy(r)' = TimedBy(r) /\ Apart(r)' = Apart(r)
               /\ Limit(r)' = Limit(r) /\ AtNextFire(r)' = AtNextFire(r)
               /\ StillCached(r)' = StillCached(r)
    BY <1>1 DEF NextFire, NextCronFire, Apart, AtNextFire, EveryFire, Limit, TimedBy, StillCached
  <1>3. NearFire(s)' /\ ~StillCached(s)'
    BY <1>1, <1>2 DEF NearFire
  <1>4. ASSUME NEW r \in Parses, InTime(r) PROVE InTime(r)'
    BY <1>1, <1>2, <1>4 DEF InTime
  <1>5. ASSUME NEW r \in Parses, Young(r) PROVE Young(r)'
    <2>1. CASE r = s
      <3>1. age[s] + NextFire(s) <= Limit(s)
        BY <1>1, <1>5, <2>1 DEF Young, AtNextFire
      <3>2. age[s] \in Nat /\ NextFire(s) \in Nat /\ Limit(s) \in Nat
        BY NextFireType DEF TypeOK, Limit
      <3>3. age[s] <= Limit(s)
        BY <3>1, <3>2
      <3> QED BY <1>1, <1>2, <2>1, <3>2, <3>3 DEF Young
    <2>2. CASE r # s
      BY <1>1, <1>2, <1>5, <2>2 DEF Young, EveryFire
    <2> QED BY <2>1, <2>2
  <1> QED BY <1>1, <1>2, <1>3, <1>4, <1>5 DEF FreshInv

LEMMA RefreshKeepsFresh ==
    ASSUME TypeOK, FreshInv, NEW s \in Sources, Refresh(s)
    PROVE  FreshInv'
  <1>1. /\ UNCHANGED <<clock, faults>> /\ queue \subseteq queue'
        /\ s \in Parses /\ Fetching(s)
        /\ \A r \in Sources : ~Fetching(r)' /\ (r # s => ~Fetching(r))
    BY DEF Refresh, Store, Fetching, Idle, TypeOK
  <1>2. /\ has'[s] /\ age'[s] = 0
        /\ \A r \in Sources \ {s} : /\ has'[r] = has[r] /\ age'[r] = age[r]
                                     /\ timer'[r] = timer[r]
    BY Delays, TimerSet DEF Refresh, Store, TypeOK
  <1>3. ASSUME NEW r \in Parses PROVE Apart(r)' = Apart(r) /\ NextFire(r)' = NextFire(r)
    BY <1>1 DEF Apart, NextFire
  <1>4. ASSUME NEW r \in Parses, InTime(r) PROVE InTime(r)'
    <2>1. NextCronFire(r)' = NextCronFire(r)
      BY <1>3 DEF NextCronFire
    <2>2. CASE r # s
      BY <1>1, <1>2, <1>3, <1>4, <2>1, <2>2 DEF InTime, TimedBy, StillCached
    <2>3. CASE r = s /\ s \notin queue'
      <3>1. has[s] /\ age[s] = 0
        BY <2>3 DEF Refresh, Store
      <3>2. ~StillCached(s)
        BY <1>1 DEF FreshInv
      <3>3. ~StillCached(s)'
        BY <1>2, <3>1, <3>2 DEF StillCached
      <3>4. TimedBy(s)' = NextCronFire(s)
        BY <1>2, <2>1, <2>3, <3>3 DEF TimedBy
      <3>5. timer'[s] \in Nat \ {0} /\ timer'[s] <= NextCronFire(s)
        BY Delays, TimerSet DEF Refresh
      <3> QED BY <2>3, <3>4, <3>5 DEF InTime
    <2> QED BY <2>2, <2>3 DEF InTime
  <1>5. ASSUME NEW r \in Parses, r # s, Young(r) PROVE Young(r)'
    BY <1>1, <1>2, <1>3, <1>5 DEF Young, AtNextFire, Limit, EveryFire
  <1>6. Young(s)'
    <2>1. NearFire(s)
      BY <1>1 DEF FreshInv
    <2>2. /\ NextFire(s) \in 0 .. (Period - 1) /\ work.spent \in 0 .. MaxWork
          /\ CacheTTL[s] \in Nat
      BY NextFireType DEF TypeOK, Idle
    <2>3. AtNextFire(s)' = NextFire(s)
      BY <1>1, <1>2, <1>3, <2>2 DEF AtNextFire
    <2>4. Limit(s)' = IF EveryFire(s) THEN Period + Ahead ELSE CacheTTL[s] + Period
      BY <1>2 DEF Limit, EveryFire
    <2>5. NextFire(s) <= IF EveryFire(s) THEN Period + Ahead ELSE CacheTTL[s] + Period
      BY <2>2
    <2>6. EveryFire(s) /\ NextFire(s) < CacheTTL[s] => NextFire(s) <= Ahead
      BY <2>1, <2>2 DEF NearFire, EveryFire
    <2> QED BY <1>1, <1>2, <2>3, <2>4, <2>5, <2>6 DEF Young, EveryFire
  <1> QED BY <1>1, <1>3, <1>4, <1>5, <1>6 DEF FreshInv

(* A second passes for the source r.                                        *)
LEMMA TickKeepsNear ==
    ASSUME TypeOK, Tick, NEW r \in Parses, Fetching(r)',
           Fetching(r) => NearFire(r) /\ ~StillCached(r)
    PROVE  /\ Fetching(r) /\ work'.spent = work.spent + 1
           /\ NearFire(r)' /\ ~StillCached(r)'
  <1>1. work # Idle /\ Fetching(r) /\ work'.spent = work.spent + 1
    BY DEF Tick, Fetching, Idle, TypeOK
  <1>2. work.spent \in Nat /\ NextFire(r) \in 0 .. (Period - 1)
    BY NextFireType DEF TypeOK, Idle
  <1>3. NearFire(r)'
    BY <1>1, <1>2, FireNears DEF NearFire
  <1>4. ~StillCached(r)'
    <2>1. /\ age[r] \in Nat /\ CacheTTL[r] \in Nat /\ has' = has
          /\ age'[r] = IF age[r] < MaxAge(r) THEN age[r] + 1 ELSE age[r]
      BY DEF Tick, TypeOK
    <2> QED BY <1>1, <2>1 DEF StillCached
  <1> QED BY <1>1, <1>3, <1>4

LEMMA TickKeepsTime ==
    ASSUME TypeOK, Tick, NEW r \in Parses, InTime(r)
    PROVE  InTime(r)'
  <1>1. CASE Fetching(r)
    BY <1>1 DEF Tick, Fetching, Idle, TypeOK, InTime
  <1>2. CASE r \in queue
    BY <1>2 DEF Tick, InTime
  <1>3. CASE timer[r] = 1
    BY <1>3 DEF Tick, InTime
  <1>4. CASE timer[r] # None /\ timer[r] # 1 /\ timer[r] <= TimedBy(r)
    <2>1. timer[r] \in Nat \ {0} /\ timer'[r] = timer[r] - 1 /\ timer'[r] # None
      <3>1. timer[r] \in (Nat \ {0}) \cup {None}
        BY DEF TypeOK
      <3>2. timer'[r] = timer[r] - 1
        BY <1>4 DEF Tick
      <3> QED BY <1>4, <3>1, <3>2
    <2>2. /\ age[r] \in Nat /\ age[r] <= MaxAge(r) /\ CacheTTL[r] \in Nat
          /\ NextFire(r) \in 0 .. (Period - 1)
      BY NextFireType DEF TypeOK
    <2>3. has' = has /\ age'[r] = IF age[r] < MaxAge(r) THEN age[r] + 1 ELSE age[r]
      BY DEF Tick
    <2>4. CASE StillCached(r)
      <3>1. age[r] < CacheTTL[r] /\ has[r] /\ timer[r] <= CacheTTL[r] - age[r]
        BY <1>4, <2>4 DEF StillCached, TimedBy
      <3>2. age'[r] = age[r] + 1
        BY <2>2, <2>3, <3>1 DEF MaxAge
      <3>3. StillCached(r)' /\ TimedBy(r)' = CacheTTL[r] - age'[r]
        BY <1>4, <2>1, <2>2, <2>3, <3>1, <3>2 DEF StillCached, TimedBy
      <3> QED BY <2>1, <2>2, <3>1, <3>2, <3>3 DEF InTime
    <2>5. CASE ~StillCached(r)
      <3>1. ~StillCached(r)'
        BY <2>2, <2>3, <2>5 DEF StillCached
      <3>2. timer[r] <= NextCronFire(r) /\ NextCronFire(r) \in Nat
        BY <1>4, <2>1, <2>2, <2>5 DEF TimedBy, NextCronFire
      <3>3. age'[r] # 0
        BY <2>2, <2>3 DEF MaxAge
      <3>4. TimedBy(r)' = NextFire(r)'
        BY <3>1, <3>3 DEF TimedBy
      <3>5. NextFire(r)' = NextCronFire(r) - 1
        BY FireNears DEF NextCronFire
      <3> QED BY <2>1, <3>2, <3>4, <3>5 DEF InTime
    <2> QED BY <2>4, <2>5
  <1> QED BY <1>1, <1>2, <1>3, <1>4 DEF InTime

LEMMA TickKeepsYoung ==
    ASSUME TypeOK, FreshInv, faults = 0, Tick, NEW r \in Parses, Apart(r)
    PROVE  Young(r)'
  <1>1. /\ age[r] \in Nat /\ CacheTTL[r] \in Nat /\ work.spent \in 0 .. MaxWork
        /\ NextFire(r) \in 0 .. (Period - 1)
    BY NextFireType DEF TypeOK, Idle
  <1>2. InTime(r) /\ Young(r)
    BY DEF FreshInv
  <1>3. has' = has /\ age'[r] <= age[r] + 1 /\ age'[r] \in Nat
        /\ (age[r] < MaxAge(r) => age'[r] = age[r] + 1)
    BY <1>1 DEF Tick, MaxAge
  <1>4. Limit(r)' = Limit(r) /\ Limit(r) \in Nat
    BY <1>1, <1>3 DEF Limit, EveryFire
  <1>5. CASE Fetching(r)
    <2>1. Fetching(r)' /\ work'.spent = work.spent + 1
      BY <1>5 DEF Tick, Fetching, Idle, TypeOK
    <2> QED BY <1>1, <1>2, <1>3, <1>4, <1>5, <2>1 DEF Young
  <1>6. CASE ~Fetching(r)
    <2>1. ~Fetching(r)'
      BY <1>6 DEF Tick, Fetching, Idle, TypeOK
    <2>2. /\ age[r] + NextFire(r) <= Limit(r)
          /\ has[r] /\ EveryFire(r) /\ age[r] + NextFire(r) < CacheTTL[r]
                => age[r] + NextFire(r) <= Ahead
      BY <1>2, <1>6 DEF Young, AtNextFire
    <2>3. age'[r] = age[r] + 1
      BY <1>1, <1>3, <1>4, <2>2 DEF Limit, MaxAge
    <2>4. CASE NextFire(r) # 0
      <3>1. AtNextFire(r)' = age[r] + NextFire(r)
        BY <1>1, <2>3, <2>4, FireNears DEF AtNextFire
      <3> QED BY <1>3, <1>4, <2>1, <2>2, <3>1 DEF Young, EveryFire
    <2>5. CASE NextFire(r) = 0
      <3>1. StillCached(r) \/ (has[r] /\ age[r] = 0)
        <4> SUFFICES ASSUME ~StillCached(r), ~(has[r] /\ age[r] = 0) PROVE FALSE
          OBVIOUS
        <4>1. r \in queue
          BY <1>2, <1>6, <2>5 DEF InTime, TimedBy, TypeOK
        <4>2. work # Idle
          BY <4>1 DEF Tick
        <4>3. PICK q \in Parses : Fetching(q)
          BY <4>2 DEF Tick, TypeOK, Fetching, Idle
        <4> QED BY <1>6, <2>5, <4>3, OthersQuiet DEF FreshInv
      <3>2. has[r] /\ (age[r] < CacheTTL[r] \/ age[r] = 0)
        BY <3>1 DEF StillCached
      <3>3. AtNextFire(r)' = age[r] + Period
        BY <1>1, <2>3, <2>5, FireNears DEF AtNextFire
      <3>4. age[r] + Period <= Limit(r)
        BY <1>1, <2>2, <2>5, <3>2 DEF Limit
      <3>5. EveryFire(r) => ~(age[r] + Period < CacheTTL[r])
        BY <1>1 DEF EveryFire
      <3> QED BY <1>3, <1>4, <2>1, <3>3, <3>4, <3>5 DEF Young, EveryFire
    <2> QED BY <2>4, <2>5
  <1> QED BY <1>5, <1>6

LEMMA TickKeepsFresh ==
    ASSUME TypeOK, FreshInv, Tick
    PROVE  FreshInv'
  <1>1. ASSUME NEW r \in Parses, Fetching(r)' PROVE NearFire(r)' /\ ~StillCached(r)'
    BY <1>1, TickKeepsNear DEF FreshInv
  <1>2. faults' = faults /\ \A r \in Parses : Apart(r)' = Apart(r)
    BY DEF Tick, Apart
  <1>3. ASSUME faults = 0, NEW r \in Parses PROVE InTime(r)' /\ (Apart(r) => Young(r)')
    BY <1>3, TickKeepsTime, TickKeepsYoung DEF FreshInv
  <1> QED BY <1>1, <1>2, <1>3 DEF FreshInv

(* A fault ends the fetch, and what it delays is no longer promised.        *)
LEMMA FaultKeepsFresh ==
    ASSUME TypeOK, Fault, work' = Idle
    PROVE  FreshInv'
  <1>1. faults' # 0
    BY DEF Fault, TypeOK
  <1>2. \A r \in Parses : ~Fetching(r)'
    BY DEF Fetching, Idle
  <1> QED BY <1>1, <1>2 DEF FreshInv

LEMMA InitFresh == Init => FreshInv
  <1> SUFFICES ASSUME Init, NEW s \in Parses
               PROVE  ~Fetching(s) /\ InTime(s) /\ Young(s)
    BY DEF FreshInv
  <1>1. ~Fetching(s) /\ s \in queue /\ ~has[s] /\ age[s] = 0
    BY DEF Init, Fetching, Idle
  <1>2. NextFire(s) \in 0 .. (Period - 1)
    BY NextFireType DEF Init
  <1> QED BY <1>1, <1>2 DEF InTime, Young, AtNextFire, Limit

LEMMA NextFresh == TypeOK /\ FreshInv /\ [Next]_vars => FreshInv'
  <1> SUFFICES ASSUME TypeOK, FreshInv, [Next]_vars PROVE FreshInv'
    OBVIOUS
  <1>1. ASSUME NEW s \in Sources, Reconcile(s) \/ Event(s) PROVE FreshInv'
    BY <1>1, WaitKeepsFresh, BeginKeepsFresh, RefreshKeepsFresh DEF Reconcile
  <1>2. ASSUME NEW s \in Sources, FetchFails(s) \/ PatchFails(s) \/ ErrorPatchFails(s)
        PROVE  FreshInv'
    BY <1>2, FaultKeepsFresh DEF FetchFails, PatchFails, ErrorPatchFails
  <1>3. CASE Restart
    BY <1>3, FaultKeepsFresh DEF Restart
  <1>4. CASE UNCHANGED vars
    BY <1>4 DEF vars, FreshInv, Fetching, NearFire, NextFire, NextCronFire, InTime, TimedBy, StillCached,
                Apart, Young, AtNextFire, Limit, EveryFire
  <1> QED BY <1>1, <1>2, <1>3, <1>4, TickKeepsFresh DEF Next

(* Prices stay fresh while nothing fails, for every source whose fires fall *)
(* apart from those of the others: Reconcile's two conditions, the TTL and  *)
(* the schedule, together never let a fire pass that should have fetched.   *)
THEOREM PricesStayFresh == Spec => []PricesFresh
  <1>1. TypeOK /\ FreshInv => PricesFresh
    <2> SUFFICES ASSUME TypeOK, FreshInv, faults = 0, NEW s \in Parses, Apart(s)
                 PROVE  age[s] <= MaxWork + Limit(s)
      BY DEF PricesFresh, Limit, EveryFire
    <2>1. /\ age[s] \in Nat /\ CacheTTL[s] \in Nat /\ work.spent \in 0 .. MaxWork
          /\ NextFire(s) \in Nat /\ Limit(s) \in Nat
      BY NextFireType DEF TypeOK, Idle, Limit
    <2> QED BY <2>1 DEF FreshInv, Young, AtNextFire
  <1> QED BY <1>1, InitFresh, NextFresh, TypesKept, PTL DEF Spec
=============================================================================
