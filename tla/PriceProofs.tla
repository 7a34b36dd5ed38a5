----------------------------- MODULE PriceProofs ----------------------------
(***************************************************************************)
(* Proofs about the way of the prices, for lists of any length, any prices *)
(* and any times.                                                          *)
(***************************************************************************)
EXTENDS MCPrices, SelectionProofs, FiniteSetTheorems

USE PricesAssumption

-----------------------------------------------------------------------------
(* The published list.                                                     *)

PricePoints == [at : Int, price : Int]

(* What the proofs need of a list of points.                               *)
Chronological(points) == points \in Seq(PricePoints) /\ Ordered(points)

(* The market's list is in order, and at times a monitoring may look at.   *)
ListInv ==
    /\ Chronological(list)
    /\ \A i \in DOMAIN list : list[i].at \in 0 .. Horizon

LEMMA ListStarts == Init => ListInv
  <1> SUFFICES ASSUME Init PROVE ListInv
    OBVIOUS
  <1>1. list = <<>>
    BY DEF Init
  <1>2. list \in Seq(PricePoints)
    <2> HIDE DEF PricePoints
    <2> QED BY <1>1
  <1> QED BY <1>1, <1>2 DEF ListInv, Chronological, Ordered

LEMMA AppendInOrder ==
    ASSUME NEW points, Chronological(points), NEW p \in PricePoints,
           points # <<>> => p.at > points[Len(points)].at
    PROVE  /\ Chronological(Append(points, p))
           /\ Len(Append(points, p)) = Len(points) + 1
           /\ \A i \in DOMAIN points : Append(points, p)[i] = points[i]
           /\ Append(points, p)[Len(points) + 1] = p
  <1> DEFINE n == Len(points)
             q == Append(points, p)
  <1>1. points \in Seq(PricePoints) /\ p.at \in Int
    BY DEF Chronological, PricePoints
  <1>2. /\ q \in Seq(PricePoints) /\ DOMAIN points = 1 .. n /\ DOMAIN q = 1 .. (n + 1)
        /\ n \in Nat /\ Len(q) = n + 1 /\ q[n + 1] = p
        /\ \A i \in 1 .. n : q[i] = points[i]
    <2> HIDE DEF PricePoints
    <2> QED BY <1>1
  <1>3. \A i \in 1 .. n : points[i] \in PricePoints
    <2> HIDE DEF PricePoints
    <2> QED BY <1>1
  <1>4. \A i \in 1 .. n : points[i].at \in Int
    BY <1>3 DEF PricePoints
  <1>5. \A i \in 1 .. n : points[i].at < p.at
    <2> SUFFICES ASSUME NEW i \in 1 .. n PROVE points[i].at < p.at
      OBVIOUS
    <2>1. n \in 1 .. n /\ points # <<>>
      BY <1>1, <1>2
    <2>2. i < n => points[i].at < points[n].at
      BY <1>2, <2>1 DEF Chronological, Ordered
    <2> QED BY <1>1, <1>2, <1>4, <2>1, <2>2
  <1> HIDE DEF q, n
  <1>6. ASSUME NEW i \in 1 .. (n + 1), NEW j \in 1 .. (n + 1), i < j
        PROVE  q[i].at < q[j].at
    <2>1. i \in 1 .. n
      BY <1>2, <1>6
    <2>2. CASE j = n + 1
      BY <1>2, <1>5, <2>1, <2>2
    <2>3. CASE j # n + 1
      <3>1. j \in 1 .. n
        BY <1>2, <2>3
      <3> QED BY <1>2, <1>6, <2>1, <3>1 DEF Chronological, Ordered
    <2> QED BY <2>2, <2>3
  <1>7. Ordered(q)
    BY <1>2, <1>6 DEF Ordered
  <1> QED BY <1>2, <1>7 DEF Chronological, q, n

LEMMA ListKept == ListInv /\ [Next]_list => ListInv'
  <1> SUFFICES ASSUME ListInv, [Next]_list PROVE ListInv'
    OBVIOUS
  <1>1. CASE list' = list
    BY <1>1 DEF ListInv, Chronological, Ordered
  <1>2. ASSUME NEW t \in 0 .. Horizon, NEW p \in Prices, Publish(t, p) PROVE ListInv'
    <2> DEFINE new == [at |-> t, price |-> p]
    <2>1. new \in PricePoints /\ new.at = t
      BY DEF PricePoints
    <2>2. list' = Append(list, new) /\ (list # <<>> => new.at > list[Len(list)].at)
      BY <1>2 DEF Publish
    <2> HIDE DEF new
    <2>3. /\ Chronological(list') /\ Len(list') = Len(list) + 1
          /\ \A i \in DOMAIN list : list'[i] = list[i]
          /\ list'[Len(list) + 1] = new
      BY <2>1, <2>2, AppendInOrder DEF ListInv
    <2>4. DOMAIN list = 1 .. Len(list) /\ DOMAIN list' = 1 .. (Len(list) + 1) /\ Len(list) \in Nat
      <3> HIDE DEF PricePoints
      <3> QED BY <2>3 DEF ListInv, Chronological
    <2>5. ASSUME NEW i \in DOMAIN list' PROVE list'[i].at \in 0 .. Horizon
      <3>1. i \in DOMAIN list \/ i = Len(list) + 1
        BY <2>4
      <3> QED BY <2>1, <2>3, <3>1 DEF ListInv
    <2> QED BY <2>3, <2>5 DEF ListInv, Chronological, Ordered
  <1> QED BY <1>1, <1>2 DEF Next

LEMMA ListAlways == Spec => []ListInv
  BY ListStarts, ListKept, PTL DEF Spec

(* The parts of a list in order.                                           *)
LEMMA PointsTyped ==
    ASSUME NEW points, Chronological(points)
    PROVE  /\ Len(points) \in Nat /\ DOMAIN points = 1 .. Len(points)
           /\ points = [i \in 1 .. Len(points) |-> points[i]]
           /\ (points = <<>>) = (Len(points) = 0)
           /\ \A i \in 1 .. Len(points) :
                 points[i].at \in Int /\ points[i].price \in Int
                 /\ points[i] = [at |-> points[i].at, price |-> points[i].price]
           /\ \A i, j \in 1 .. Len(points) : i < j <=> points[i].at < points[j].at
  <1>1. points \in Seq(PricePoints) /\ Ordered(points)
    BY DEF Chronological
  <1>2. /\ Len(points) \in Nat /\ DOMAIN points = 1 .. Len(points)
        /\ points = [i \in 1 .. Len(points) |-> points[i]]
        /\ (points = <<>>) = (Len(points) = 0)
        /\ \A i \in 1 .. Len(points) : points[i] \in PricePoints
    <2> HIDE DEF PricePoints
    <2> QED BY <1>1
  <1>3. \A i \in 1 .. Len(points) :
           points[i].at \in Int /\ points[i].price \in Int
           /\ points[i] = [at |-> points[i].at, price |-> points[i].price]
    BY <1>2 DEF PricePoints
  <1>4. \A i, j \in 1 .. Len(points) : i < j => points[i].at < points[j].at
    BY <1>1, <1>2 DEF Ordered
  <1>5. \A i, j \in 1 .. Len(points) : points[i].at < points[j].at => i < j
    BY <1>2, <1>3, <1>4
  <1> QED BY <1>2, <1>3, <1>4, <1>5

-----------------------------------------------------------------------------
(* Prices and costs.                                                       *)

(* From a point on, and before the next one, its price is in force.        *)
LEMMA PriceInForce ==
    ASSUME NEW points, Chronological(points), NEW i \in 1 .. Len(points), NEW t \in Int,
           points[i].at <= t, i < Len(points) => t < points[i + 1].at
    PROVE  PriceAt(points, t) = points[i].price
  <1> DEFINE S == {j \in DOMAIN points : points[j].at <= t}
  <1>1. /\ Len(points) \in Nat /\ DOMAIN points = 1 .. Len(points)
        /\ \A j \in 1 .. Len(points) : points[j].at \in Int
        /\ \A j, k \in 1 .. Len(points) : j < k <=> points[j].at < points[k].at
    BY PointsTyped
  <1>2. i \in S
    BY <1>1
  <1>3. \A j \in S : j <= i
    <2> SUFFICES ASSUME NEW j \in S, j > i PROVE FALSE
      BY <1>1
    <2>1. i + 1 \in 1 .. Len(points) /\ j \in 1 .. Len(points) /\ i < Len(points)
      BY <1>1
    <2>2. points[i + 1].at <= points[j].at
      BY <1>1, <2>1
    <2> QED BY <1>1, <2>1, <2>2
  <1>4. S \subseteq Int
    BY <1>1
  <1>5. Max(S) = i
    <2> HIDE DEF S
    <2> QED BY <1>2, <1>3, <1>4 DEF Max
  <1> QED BY <1>5 DEF PriceAt

(* The cost of the first k moments of a run.                               *)
IsSum(sum, points, t, duration) ==
    /\ sum \in [0 .. duration -> Int]
    /\ sum[0] = 0
    /\ \A k \in 1 .. duration : sum[k] = sum[k - 1] + PriceAt(points, t + (k - 1))

LEMMA CostIsSum ==
    ASSUME NEW points, NEW t \in Int, NEW duration \in Nat, duration > 0,
           \A k \in 1 .. duration : PriceAt(points, t + (k - 1)) \in Int
    PROVE  \E sum :
              IsSum(sum, points, t, duration) /\ Cost(points, t, duration) = sum[duration]
  <1> DEFINE V == Int
             At(k) == PriceAt(points, t + (k - 1))
             body == [k \in 1 .. duration |-> [v \in V |-> v + At(k)]]
             Sum(f) == f = [k \in 0 .. duration |-> IF k = 0 THEN 0 ELSE f[k - 1] + At(k)]
  <1>1. body \in Bodies(duration, V) /\ 0 \in V
    <2>1. \A k \in 1 .. duration : At(k) \in Int
      OBVIOUS
    <2> HIDE DEF At
    <2> QED BY <2>1 DEF Bodies
  <1> HIDE DEF At
  <1>2. PICK f : LoopValues(duration, V, 0, body, f)
    <2> HIDE DEF body, V
    <2> QED BY <1>1, Loop
  <1>3. /\ f \in [0 .. duration -> V] /\ f[0] = 0
        /\ \A k \in 1 .. duration : f[k] = f[k - 1] + At(k)
    <2>1. f \in [0 .. duration -> V] /\ f[0] = 0
          /\ \A k \in 1 .. duration : f[k] = body[k][f[k - 1]]
      BY <1>2 DEF LoopValues
    <2>2. \A k \in 1 .. duration : f[k - 1] \in V
      BY <2>1
    <2> QED BY <2>1, <2>2
  <1>4. Sum(f)
    <2>1. \A k \in 0 .. duration : k # 0 => k \in 1 .. duration
      OBVIOUS
    <2> QED BY <1>3, <2>1
  <1>5. PICK g : Sum(g) /\ g = CHOOSE h : Sum(h)
    BY <1>4
  <1>6. g[0] = 0 /\ \A k \in 1 .. duration : g[k] = g[k - 1] + At(k)
    BY <1>5
  <1>7. g \in [0 .. duration -> Int]
    <2>1. \A k \in 1 .. duration : At(k) \in Int
      BY DEF At
    <2>2. \A k \in 1 .. duration : g[k - 1] \in V => g[k] \in V
      BY <1>6, <2>1
    <2>3. g[0] \in V
      BY <1>6
    <2>4. \A k \in 0 .. duration : g[k] \in V
      <3> HIDE DEF V
      <3> QED BY <2>2, <2>3, Rounds
    <2> QED BY <1>5, <2>4
  <1>8. Cost(points, t, duration) = (CHOOSE h : Sum(h))[duration]
    BY DEF Cost, At
  <1> QED BY <1>5, <1>6, <1>7, <1>8 DEF IsSum, At

-----------------------------------------------------------------------------
(* The walk of pricePointScore over the intervals.                         *)

Scores == [ok : BOOLEAN, covered : Int, weighted : Int]

(* Where the interval of point i ends for a run from point s.              *)
To(prices, s, duration, i, w) ==
    IF i = Len(prices) THEN prices[s].at + w.covered
    ELSE IF prices[i + 1].at > prices[s].at + duration THEN prices[s].at + duration
    ELSE prices[i + 1].at

WalkStep(prices, s, duration, i, w) ==
    LET from == prices[s].at + w.covered
        to == To(prices, s, duration, i, w)
    IN  IF ~w.ok \/ w.covered >= duration THEN w
        ELSE IF prices[i].at > from \/ to <= from THEN Fails
        ELSE [ok |-> TRUE, covered |-> w.covered + (to - from),
              weighted |-> w.weighted + prices[i].price * (to - from)]

IsWalk(g, prices, s, duration) ==
    /\ g[s - 1] = Starts
    /\ \A i \in s .. Len(prices) : g[i] = WalkStep(prices, s, duration, i, g[i - 1])

ScoreOf(g, prices, s, duration, windowEnd) ==
    IF prices[s].at + duration > windowEnd \/ g[Len(prices)].covered # duration
    THEN Fails ELSE g[Len(prices)]

LEMMA StepTyped ==
    ASSUME NEW prices, Chronological(prices), NEW s \in 1 .. Len(prices), NEW duration \in Nat,
           NEW i \in s .. Len(prices), NEW w \in Scores
    PROVE  WalkStep(prices, s, duration, i, w) \in Scores
  <1> DEFINE n == Len(prices)
             from == prices[s].at + w.covered
             to == To(prices, s, duration, i, w)
  <1>1. n \in Nat /\ \A k \in 1 .. n : prices[k].at \in Int /\ prices[k].price \in Int
    BY PointsTyped
  <1>2. w.covered \in Int /\ w.weighted \in Int /\ w.ok \in BOOLEAN
    BY DEF Scores
  <1>3. from \in Int /\ to \in Int /\ prices[i].price \in Int
    <2>1. s \in 1 .. n /\ i \in 1 .. n /\ (i # n => i + 1 \in 1 .. n)
      BY <1>1
    <2> QED BY <1>1, <1>2, <2>1 DEF To
  <1>4. WalkStep(prices, s, duration, i, w) =
           IF ~w.ok \/ w.covered >= duration THEN w
           ELSE IF prices[i].at > from \/ to <= from THEN Fails
           ELSE [ok |-> TRUE, covered |-> w.covered + (to - from),
                 weighted |-> w.weighted + prices[i].price * (to - from)]
    BY DEF WalkStep
  <1> HIDE DEF from, to
  <1>5. w.covered + (to - from) \in Int /\ w.weighted + prices[i].price * (to - from) \in Int
    BY <1>2, <1>3
  <1>6. Fails \in Scores
    BY DEF Fails, Scores
  <1>7. [ok |-> TRUE, covered |-> w.covered + (to - from),
         weighted |-> w.weighted + prices[i].price * (to - from)] \in Scores
    BY <1>5 DEF Scores
  <1> QED BY <1>4, <1>6, <1>7

LEMMA WalkLoop ==
    ASSUME NEW prices, Chronological(prices), NEW s \in 1 .. Len(prices), NEW duration \in Nat,
           duration > 0, NEW windowEnd
    PROVE  \E g \in [(s - 1) .. Len(prices) -> Scores] :
              /\ IsWalk(g, prices, s, duration)
              /\ pricePointScore(prices, s, duration, windowEnd) =
                    ScoreOf(g, prices, s, duration, windowEnd)
  <1> DEFINE n == Len(prices)
             m == n - (s - 1)
             Step(i, w) == WalkStep(prices, s, duration, i, w)
             body == [k \in 1 .. m |-> [w \in Scores |-> Step(k + (s - 1), w)]]
             Walk(f) == f = [i \in (s - 1) .. n |-> IF i < s THEN Starts ELSE Step(i, f[i - 1])]
  <1>1. n \in Nat /\ m \in Nat /\ s \in Nat /\ s >= 1 /\ s <= n
    BY PointsTyped
  <1>2. \A i \in s .. n : \A w \in Scores : Step(i, w) \in Scores
    BY StepTyped
  <1>3. Starts \in Scores
    BY DEF Starts, Scores
  <1> HIDE DEF Step
  <1>4. body \in Bodies(m, Scores)
    <2>1. \A k \in 1 .. m : k + (s - 1) \in s .. n
      BY <1>1
    <2> QED BY <1>2, <2>1 DEF Bodies
  <1>5. PICK f : LoopValues(m, Scores, Starts, body, f)
    <2> DEFINE V == Scores
               v == Starts
    <2>1. v \in V /\ body \in Bodies(m, V)
      BY <1>3, <1>4
    <2> HIDE DEF body, m, V, v
    <2>2. \E f : LoopValues(m, V, v, body, f)
      BY <1>1, <2>1, Loop
    <2> QED BY <2>2 DEF V, v
  <1>6. /\ f \in [0 .. m -> Scores] /\ f[0] = Starts
        /\ \A k \in 1 .. m : f[k] = Step(k + (s - 1), f[k - 1])
    <2>1. /\ f \in [0 .. m -> Scores] /\ f[0] = Starts
          /\ \A k \in 1 .. m : f[k] = body[k][f[k - 1]]
      BY <1>5 DEF LoopValues
    <2>2. \A k \in 1 .. m : f[k - 1] \in Scores
      <3>1. \A k \in 1 .. m : k - 1 \in 0 .. m
        BY <1>1
      <3> HIDE DEF m
      <3> QED BY <2>1, <3>1
    <2> QED BY <2>1, <2>2
  <1> DEFINE h == [i \in (s - 1) .. n |-> f[i - (s - 1)]]
  <1>7. Walk(h)
    <2>1. ASSUME NEW i \in (s - 1) .. n, ~(i < s) PROVE h[i] = Step(i, h[i - 1])
      <3> DEFINE k == i - (s - 1)
      <3>1. k \in 1 .. m /\ k + (s - 1) = i /\ i - 1 \in (s - 1) .. n
            /\ (i - 1) - (s - 1) = k - 1
        BY <1>1, <2>1
      <3>2. h[i] = f[k] /\ h[i - 1] = f[k - 1]
        BY <3>1
      <3> HIDE DEF k, h, m
      <3> QED BY <1>6, <3>1, <3>2
    <2>2. ASSUME NEW i \in (s - 1) .. n, i < s PROVE h[i] = Starts
      <3>1. i - (s - 1) = 0
        BY <1>1, <2>2
      <3> QED BY <1>6, <3>1
    <2>3. h = [i \in (s - 1) .. n |-> h[i]]
      OBVIOUS
    <2> HIDE DEF h
    <2> QED BY <2>1, <2>2, <2>3
  <1>8. PICK g : Walk(g) /\ g = CHOOSE z : Walk(z)
    <2> HIDE DEF h
    <2>1. \E z : Walk(z)
      BY <1>7
    <2> QED BY <2>1
  <1>9. /\ g = [i \in (s - 1) .. n |-> g[i]] /\ g[s - 1] = Starts
        /\ \A i \in s .. n : g[i] = Step(i, g[i - 1])
    <2>1. \A i \in s .. n : i \in (s - 1) .. n /\ ~(i < s)
      BY <1>1
    <2>2. s - 1 \in (s - 1) .. n /\ s - 1 < s
      BY <1>1
    <2> HIDE DEF n
    <2> QED BY <1>8, <2>1, <2>2
  <1>10. \A i \in (s - 1) .. n : g[i] \in Scores
    <2> DEFINE S == {k \in 0 .. m : g[k + (s - 1)] \in Scores}
    <2>1. 0 \in S
      <3>1. 0 \in 0 .. m /\ 0 + (s - 1) = s - 1
        BY <1>1
      <3> QED BY <1>3, <1>9, <3>1
    <2>2. ASSUME NEW k \in 0 .. m, k < m, k \in S PROVE k + 1 \in S
      <3> DEFINE i == (k + 1) + (s - 1)
      <3>1. i \in s .. n /\ i - 1 = k + (s - 1) /\ k + 1 \in 0 .. m
        BY <1>1, <2>2
      <3>2. g[i - 1] \in Scores
        BY <2>2, <3>1
      <3>3. g[i] \in Scores
        <4> HIDE DEF i
        <4> QED BY <1>2, <1>9, <3>1, <3>2
      <3> QED BY <3>1, <3>3
    <2>3. \A k \in 0 .. m : k \in S
      <3> HIDE DEF S, m
      <3> QED BY <1>1, <2>1, <2>2, IntervalInduction
    <2> SUFFICES ASSUME NEW i \in (s - 1) .. n PROVE g[i] \in Scores
      OBVIOUS
    <2>4. i - (s - 1) \in 0 .. m /\ (i - (s - 1)) + (s - 1) = i
      BY <1>1
    <2> QED BY <2>3, <2>4
  <1>11. g \in [(s - 1) .. n -> Scores]
    BY <1>9, <1>10
  <1>12. pricePointScore(prices, s, duration, windowEnd) =
            IF prices[s].at + duration > windowEnd \/ (CHOOSE z : Walk(z))[n].covered # duration
            THEN Fails ELSE (CHOOSE z : Walk(z))[n]
    <2>1. ~(duration <= 0)
      OBVIOUS
    <2> QED BY <2>1 DEF pricePointScore, Step, WalkStep, To
  <1> QED BY <1>8, <1>9, <1>11, <1>12 DEF IsWalk, Step, ScoreOf

-----------------------------------------------------------------------------
(* What the walk computes.                                                 *)

(* Every moment after a point lies in the interval of one.                 *)
LEMMA IntervalOf ==
    ASSUME NEW points, Chronological(points), NEW s \in 1 .. Len(points), NEW t \in Int,
           points[s].at <= t
    PROVE  \E i \in 1 .. Len(points) :
              points[i].at <= t /\ (i < Len(points) => t < points[i + 1].at)
  <1> DEFINE n == Len(points)
             U == {j \in 1 .. n : points[j].at > t}
  <1>1. n \in Nat /\ \A j \in 1 .. n : points[j].at \in Int
    BY PointsTyped
  <1>2. CASE U = {}
    <2>1. n \in 1 .. n /\ n \notin U
      BY <1>1, <1>2
    <2>2. points[n].at <= t
      BY <1>1, <2>1
    <2> QED BY <1>1, <2>1, <2>2
  <1>3. CASE U # {}
    <2>1. PICK j \in U : \A k \in U : j <= k
      <3>1. U \subseteq Nat
        BY <1>1
      <3> HIDE DEF U
      <3> QED BY <1>3, <3>1, LeastNumber
    <2>2. s \notin U /\ s \in 1 .. n
      BY <1>1
    <2>3. j # 1
      <3>1. \A i, k \in 1 .. n : i < k <=> points[i].at < points[k].at
        BY PointsTyped
      <3> SUFFICES ASSUME j = 1 PROVE FALSE
        OBVIOUS
      <3>2. s = 1 \/ points[1].at < points[s].at
        BY <1>1, <2>1, <2>2, <3>1
      <3> QED BY <1>1, <2>1, <2>2, <3>2
    <2>4. j - 1 \in 1 .. n /\ j - 1 \notin U /\ (j - 1) + 1 = j
      BY <1>1, <2>1, <2>3
    <2> QED BY <1>1, <2>1, <2>4
  <1> QED BY <1>2, <1>3

LEMMA PriceTyped ==
    ASSUME NEW points, Chronological(points), NEW s \in 1 .. Len(points), NEW t \in Int,
           points[s].at <= t
    PROVE  PriceAt(points, t) \in Int
  <1>1. PICK i \in 1 .. Len(points) :
           points[i].at <= t /\ (i < Len(points) => t < points[i + 1].at)
    BY IntervalOf
  <1>2. PriceAt(points, t) = points[i].price
    BY <1>1, PriceInForce
  <1>3. \A k \in 1 .. Len(points) : points[k].price \in Int
    BY PointsTyped
  <1> QED BY <1>2, <1>3

(* The moments a .. b - 1 of a run from t are in the interval of point i.  *)
Within(points, t, duration, i, a, b) ==
    /\ i \in 1 .. Len(points) /\ a \in 0 .. duration /\ b \in 0 .. duration /\ a <= b
    /\ points[i].at <= t + a /\ (i < Len(points) => t + b <= points[i + 1].at)

Adds(sum, points, i, a, b) == sum[b] = sum[a] + points[i].price * (b - a)

(* Within an interval a run costs its price for every moment.              *)
LEMMA IntervalCost ==
    ASSUME NEW points, Chronological(points), NEW t \in Int, NEW duration \in Nat,
           NEW sum, IsSum(sum, points, t, duration),
           NEW i, NEW a, NEW b, Within(points, t, duration, i, a, b)
    PROVE  Adds(sum, points, i, a, b)
  <1>s. sum \in [0 .. duration -> Int]
    BY DEF IsSum
  <1>0. /\ i \in 1 .. Len(points) /\ a \in 0 .. duration /\ b \in 0 .. duration /\ a <= b
        /\ points[i].at <= t + a /\ (i < Len(points) => t + b <= points[i + 1].at)
    BY DEF Within
  <1> DEFINE p == points[i].price
             m == b - a
             S == {d \in 0 .. m : sum[a + d] = sum[a] + p * d}
  <1>1. /\ m \in Nat /\ p \in Int /\ points[i].at \in Int
        /\ (i < Len(points) => points[i + 1].at \in Int)
    <2>1. /\ Len(points) \in Nat
          /\ \A k \in 1 .. Len(points) : points[k].at \in Int /\ points[k].price \in Int
      BY <1>s, <1>0, PointsTyped
    <2>2. i < Len(points) => i + 1 \in 1 .. Len(points)
      BY <1>s, <1>0, <2>1
    <2> QED BY <1>s, <1>0, <2>1, <2>2
  <1>2. 0 \in S
    <2>1. 0 \in 0 .. m /\ a + 0 = a /\ sum[a] \in Int
      BY <1>s, <1>0, <1>1
    <2> HIDE DEF p, m
    <2> QED BY <1>s, <1>0, <1>1, <2>1
  <1>3. ASSUME NEW d \in 0 .. m, d < m, d \in S PROVE d + 1 \in S
    <2> DEFINE k == a + (d + 1)
    <2>1. k \in 1 .. duration /\ k - 1 = a + d /\ k - 1 \in 0 .. duration /\ d + 1 \in 0 .. m
      BY <1>s, <1>0, <1>1, <1>3
    <2>2. t + (k - 1) \in Int /\ points[i].at <= t + (k - 1)
          /\ (i < Len(points) => t + (k - 1) < points[i + 1].at)
      <3> DEFINE u == a + d
      <3>1. u \in Int /\ a <= u /\ u < b
        <4>1. d \in Nat /\ d < b - a
          BY <1>s, <1>0, <1>1, <1>3
        <4> QED BY <1>s, <1>0, <4>1
      <3>2. k - 1 = u
        BY <2>1
      <3>3. points[i].at <= t + u /\ (i < Len(points) => t + u < points[i + 1].at)
        <4> HIDE DEF u, p, m, k
        <4>1. a \in Int /\ b \in Int
          BY <1>0
        <4>2. points[i].at \in Int /\ points[i].at <= t + a
          BY <1>s, <1>0, <1>1
        <4>3. points[i].at <= t + u
          BY <3>1, <4>1, <4>2
        <4>4. ASSUME i < Len(points) PROVE t + u < points[i + 1].at
          <5>1. points[i + 1].at \in Int /\ t + b <= points[i + 1].at
            BY <1>s, <1>0, <1>1, <4>4
          <5> QED BY <3>1, <4>1, <5>1
        <4> QED BY <4>3, <4>4
      <3> HIDE DEF u, k
      <3> QED BY <3>1, <3>2, <3>3
    <2>3. PriceAt(points, t + (k - 1)) = p
      <3> HIDE DEF k
      <3> QED BY <1>s, <1>0, <2>2, PriceInForce
    <2>4. sum[k] = sum[k - 1] + p
      <3> HIDE DEF k
      <3> QED BY <1>s, <1>0, <2>1, <2>3 DEF IsSum
    <2>5. sum[k - 1] = sum[a] + p * d
      BY <1>s, <1>0, <1>3, <2>1
    <2>6. sum[k] = sum[a] + p * (d + 1)
      <3>1. sum[a] \in Int /\ d \in Int
        BY <1>s, <1>0, <1>1
      <3> HIDE DEF k, p
      <3> QED BY <1>s, <1>0, <1>1, <2>4, <2>5, <3>1
    <2> QED BY <1>s, <1>0, <2>1, <2>6
  <1>4. m \in S
    <2> HIDE DEF S, m
    <2>1. \A d \in 0 .. m : d \in S
      BY <1>s, <1>0, <1>1, <1>2, <1>3, IntervalInduction
    <2> QED BY <1>s, <1>0, <1>1, <2>1
  <1>5. a + m = b
    BY <1>0
  <1> QED BY <1>s, <1>0, <1>4, <1>5 DEF Adds

(* How much of the run lies before a point.                                *)
Reach(prices, s, duration, i) ==
    IF prices[i].at > prices[s].at + duration THEN duration ELSE prices[i].at - prices[s].at

(* Before the last point, the walk has added up the cost of the run up to  *)
(* the next point.                                                         *)
LEMMA WalkReaches ==
    ASSUME NEW prices, Chronological(prices), NEW s \in 1 .. Len(prices), NEW duration \in Nat,
           duration > 0,
           NEW g \in [(s - 1) .. Len(prices) -> Scores], IsWalk(g, prices, s, duration),
           NEW sum, IsSum(sum, prices, prices[s].at, duration)
    PROVE  \A i \in s .. Len(prices) :
              LET r == Reach(prices, s, duration, i)
              IN  g[i - 1] = [ok |-> TRUE, covered |-> r, weighted |-> sum[r]]
  <1> DEFINE n == Len(prices)
             start == prices[s].at
             R(i) == Reach(prices, s, duration, i)
             Reached(i) == g[i - 1] = [ok |-> TRUE, covered |-> R(i), weighted |-> sum[R(i)]]
             S == {k \in 0 .. (n - s) : Reached(k + s)}
  <1>s. sum \in [0 .. duration -> Int]
    BY DEF IsSum
  <1>1. /\ n \in Nat /\ s \in Nat /\ s >= 1 /\ s <= n /\ start \in Int
        /\ \A i \in 1 .. n : prices[i].at \in Int /\ prices[i].price \in Int
        /\ \A i, j \in 1 .. n : i < j <=> prices[i].at < prices[j].at
    <2>1. /\ n \in Nat
          /\ \A i \in 1 .. n : prices[i].at \in Int /\ prices[i].price \in Int
          /\ \A i, j \in 1 .. n : i < j <=> prices[i].at < prices[j].at
      BY PointsTyped
    <2>2. s \in Nat /\ s >= 1 /\ s <= n
      BY <2>1
    <2> QED BY <2>1, <2>2
  <1>0. \A i, a, b : Within(prices, start, duration, i, a, b) => Adds(sum, prices, i, a, b)
    <2> TAKE i, a, b
    <2> HAVE Within(prices, start, duration, i, a, b)
    <2>1. start \in Int /\ IsSum(sum, prices, start, duration)
      BY <1>1
    <2> HIDE DEF start
    <2> QED BY <2>1, IntervalCost
  <1>2. \A i \in s .. n : R(i) \in 0 .. duration
    <2> SUFFICES ASSUME NEW i \in s .. n PROVE R(i) \in 0 .. duration
      OBVIOUS
    <2>1. i \in 1 .. n /\ prices[s].at <= prices[i].at
      BY <1>1
    <2> QED BY <1>1, <2>1 DEF Reach
  <1>3. 0 \in S
    <2>1. R(s) = 0 /\ 0 \in 0 .. (n - s) /\ 0 + s = s
      BY <1>1 DEF Reach
    <2>2. Reached(s)
      <3>1. g[s - 1] = Starts /\ sum[0] = 0
        BY DEF IsWalk, IsSum
      <3> HIDE DEF R
      <3> QED BY <2>1, <3>1 DEF Starts
    <2> HIDE DEF Reached
    <2> QED BY <2>1, <2>2
  <1>4. ASSUME NEW i \in s .. n, i < n, Reached(i) PROVE Reached(i + 1)
    <2> DEFINE a == R(i)
               b == R(i + 1)
               w == g[i - 1]
    <2>1. /\ i \in 1 .. n /\ i + 1 \in 1 .. n /\ i + 1 \in s .. n /\ i # n
          /\ start <= prices[i].at /\ prices[i].at < prices[i + 1].at
      <3>1. i \in 1 .. n /\ i + 1 \in 1 .. n /\ i + 1 \in s .. n /\ i # n /\ i < i + 1
        BY <1>1, <1>4
      <3>2. prices[i].at < prices[i + 1].at
        BY <1>1, <3>1
      <3>3. s = i \/ prices[s].at < prices[i].at
        BY <1>1, <3>1
      <3> QED BY <1>1, <3>1, <3>2, <3>3
    <2> DEFINE this == prices[i].at
               next == prices[i + 1].at
    <2>0. this \in Int /\ next \in Int /\ start \in Int /\ this < next
      BY <1>1, <2>1
    <2>2. a \in 0 .. duration /\ b \in 0 .. duration
      BY <1>2, <2>1
    <2>3. w = [ok |-> TRUE, covered |-> a, weighted |-> sum[a]]
      BY <1>4
    <2>4. g[i] = WalkStep(prices, s, duration, i, w)
      BY DEF IsWalk
    <2>5. CASE a >= duration
      <3>1. b = a
        <4>1. this >= start + duration
          <5>1. a = IF this > start + duration THEN duration ELSE this - start
            BY DEF Reach
          <5> HIDE DEF a, this, start
          <5> QED BY <2>0, <2>5, <5>1
        <4>2. next > start + duration
          <5> HIDE DEF this, next, start
          <5> QED BY <2>0, <4>1
        <4>3. b = duration
          BY <4>2 DEF Reach
        <4> HIDE DEF a, b
        <4> QED BY <2>2, <2>5, <4>3
      <3>2. g[i] = w
        <4> HIDE DEF a, w
        <4> QED BY <2>3, <2>4, <2>5 DEF WalkStep
      <3>3. (i + 1) - 1 = i
        BY <2>1
      <3> HIDE DEF w, R
      <3> QED BY <2>3, <3>1, <3>2, <3>3
    <2>6. CASE a < duration
      <3> DEFINE from == start + w.covered
                 to == To(prices, s, duration, i, w)
      <3>1. a = prices[i].at - start /\ from = prices[i].at
        <4>1. a = prices[i].at - start
          BY <1>1, <2>1, <2>6 DEF Reach
        <4>2. w.covered = a
          <5> HIDE DEF a, w
          <5> QED BY <2>3
        <4> HIDE DEF a, w
        <4> QED BY <1>1, <2>1, <4>1, <4>2
      <3>2. to = start + b
        BY <1>1, <2>1 DEF To, Reach
      <3>3. a < b
        BY <1>1, <2>1, <2>6 DEF Reach
      <3>4. start + b <= prices[i + 1].at
        BY <1>1, <2>1 DEF Reach
      <3>5. sum[b] = sum[a] + prices[i].price * (b - a)
        <4> HIDE DEF a, b
        <4>1. prices[i].at <= start + a /\ a <= b
          BY <1>1, <2>1, <2>2, <3>1, <3>3
        <4>2. IsSum(sum, prices, start, duration) /\ start \in Int
          BY <1>1
        <4>3. i \in 1 .. Len(prices) /\ a \in 0 .. duration /\ b \in 0 .. duration
          BY <2>1, <2>2
        <4>4. Within(prices, start, duration, i, a, b)
          BY <3>4, <4>1, <4>3 DEF Within
        <4> HIDE DEF start
        <4> QED BY <1>0, <4>4 DEF Adds
      <3> DEFINE x == w.covered + (to - from)
                 y == w.weighted + prices[i].price * (to - from)
      <3>6. g[i] = [ok |-> TRUE, covered |-> x, weighted |-> y]
        <4>1. w.ok /\ ~(w.covered >= duration)
          <5> HIDE DEF a, w
          <5> QED BY <2>2, <2>3, <2>6
        <4>2. ~(prices[i].at > from \/ to <= from)
          <5>1. a = this - start /\ from = this /\ to = start + b
            BY <3>1, <3>2
          <5>2. ~(this > from \/ to <= from)
            <6> HIDE DEF from, to, a, b, this, start
            <6> QED BY <2>0, <2>2, <3>3, <5>1
          <5> QED BY <5>2
        <4>3. /\ from = prices[s].at + w.covered
          OBVIOUS
        <4> HIDE DEF w
        <4> QED BY <2>4, <4>1, <4>2 DEF WalkStep
      <3>7. w.covered = a /\ w.weighted = sum[a]
        <4> HIDE DEF a, w
        <4> QED BY <2>3
      <3>8. to - from = b - a
        <4>1. a = this - start /\ from = this /\ to = start + b
          BY <3>1, <3>2
        <4> HIDE DEF to, from, a, b, this, start
        <4> QED BY <2>0, <2>2, <4>1
      <3>9. x = b /\ y = sum[b]
        <4> HIDE DEF to, from, a, b, w
        <4> QED BY <2>2, <3>5, <3>7, <3>8
      <3>10. (i + 1) - 1 = i
        BY <2>1
      <3> HIDE DEF x, y, to, from, w, R
      <3> QED BY <3>6, <3>9, <3>10
    <2> QED BY <2>2, <2>5, <2>6
  <1>5. ASSUME NEW k \in 0 .. (n - s), k < n - s, k \in S PROVE k + 1 \in S
    <2>1. k + s \in s .. n /\ k + s < n /\ (k + 1) + s = (k + s) + 1 /\ k + 1 \in 0 .. (n - s)
      BY <1>1, <1>5
    <2> HIDE DEF Reached
    <2>2. Reached((k + s) + 1)
      BY <1>4, <1>5, <2>1
    <2> QED BY <2>1, <2>2
  <1>6. \A k \in 0 .. (n - s) : k \in S
    <2> DEFINE m == n - s
    <2>1. m \in Nat
      BY <1>1
    <2> HIDE DEF m, S
    <2>2. \A k \in 0 .. m : k < m /\ k \in S => k + 1 \in S
      BY <1>5 DEF m
    <2>3. \A k \in 0 .. m : k \in S
      BY <1>3, <2>1, <2>2, IntervalInduction
    <2> QED BY <2>3 DEF m
  <1>7. ASSUME NEW i \in s .. n PROVE Reached(i)
    <2>1. i - s \in 0 .. (n - s) /\ (i - s) + s = i
      BY <1>1
    <2> HIDE DEF Reached
    <2> QED BY <1>6, <2>1
  <1> QED BY <1>7

(* A point has a score when a run may start there, and it is its cost.     *)
LEMMA ScoreMeaning ==
    ASSUME NEW prices, Chronological(prices), NEW s \in 1 .. Len(prices), NEW duration \in Nat,
           NEW windowEnd \in Int
    PROVE  LET score == pricePointScore(prices, s, duration, windowEnd)
               t == prices[s].at
           IN  /\ score.ok <=> MayStart(prices, t, duration, windowEnd)
               /\ score.ok => /\ score.weighted = Cost(prices, t, duration)
                              /\ score.weighted \in Int
  <1> DEFINE n == Len(prices)
             t == prices[s].at
             score == pricePointScore(prices, s, duration, windowEnd)
             end == t + duration
  <1>1. /\ n \in Nat /\ DOMAIN prices = 1 .. n
        /\ \A i \in 1 .. n : prices[i].at \in Int /\ prices[i].price \in Int
        /\ \A i, j \in 1 .. n : i < j <=> prices[i].at < prices[j].at
    BY PointsTyped
  <1>2. t \in Int /\ t \in Times(prices) /\ prices[s].price \in Int
    BY <1>1 DEF Times
  <1>3. CASE duration = 0
    <2>1. PriceAt(prices, t) = prices[s].price
      <3>1. s < n => t < prices[s + 1].at
        <4>1. s < n => s + 1 \in 1 .. n /\ s < s + 1
          BY <1>1
        <4> QED BY <1>1, <4>1
      <3>2. prices[s].at <= t
        BY <1>2
      <3> HIDE DEF t
      <3> QED BY <1>2, <3>1, <3>2, PriceInForce
    <2>2. score = [ok |-> t <= windowEnd, covered |-> 0, weighted |-> prices[s].price]
      BY <1>3 DEF pricePointScore
    <2>3. score.ok = (t <= windowEnd) /\ score.weighted = prices[s].price
      <3> HIDE DEF score
      <3> QED BY <2>2
    <2>4. Cost(prices, t, duration) = prices[s].price
      BY <1>3, <2>1 DEF Cost
    <2>5. MayStart(prices, t, duration, windowEnd) <=> t <= windowEnd
      BY <1>2, <1>3 DEF MayStart
    <2> HIDE DEF score, t
    <2> QED BY <1>2, <2>3, <2>4, <2>5 DEF score, t
  <1>4. CASE duration > 0
    <2>1. PICK sum : /\ IsSum(sum, prices, t, duration)
                     /\ Cost(prices, t, duration) = sum[duration]
      <3>1. \A k \in 1 .. duration : PriceAt(prices, t + (k - 1)) \in Int
        <4> SUFFICES ASSUME NEW k \in 1 .. duration PROVE PriceAt(prices, t + (k - 1)) \in Int
          OBVIOUS
        <4> DEFINE u == t + (k - 1)
        <4>1. u \in Int /\ prices[s].at <= u
          BY <1>2
        <4> HIDE DEF u
        <4>2. PriceAt(prices, u) \in Int
          BY <4>1, PriceTyped
        <4> QED BY <4>2 DEF u
      <3> HIDE DEF t
      <3> QED BY <1>2, <1>4, <3>1, CostIsSum
    <2>2. PICK g \in [(s - 1) .. n -> Scores] :
             /\ IsWalk(g, prices, s, duration)
             /\ score = IF end > windowEnd \/ g[n].covered # duration THEN Fails ELSE g[n]
      <3>1. \E g \in [(s - 1) .. Len(prices) -> Scores] :
               /\ IsWalk(g, prices, s, duration)
               /\ pricePointScore(prices, s, duration, windowEnd) =
                     ScoreOf(g, prices, s, duration, windowEnd)
        BY <1>4, WalkLoop
      <3> QED BY <3>1 DEF ScoreOf
    <2> DEFINE r == Reach(prices, s, duration, n)
               w == g[n - 1]
    <2>3. w = [ok |-> TRUE, covered |-> r, weighted |-> sum[r]]
      <3>1. \A i \in s .. Len(prices) :
               LET q == Reach(prices, s, duration, i)
               IN  g[i - 1] = [ok |-> TRUE, covered |-> q, weighted |-> sum[q]]
        BY <1>4, <2>1, <2>2, WalkReaches
      <3>2. n \in s .. n
        BY <1>1
      <3> QED BY <3>1, <3>2
    <2>4. n \in 1 .. n /\ n \in s .. n /\ prices[n].at \in Int
      BY <1>1
    <2>5. g[n] = WalkStep(prices, s, duration, n, w)
      BY <2>2, <2>4 DEF IsWalk
    <2>6. r = IF prices[n].at > end THEN duration ELSE prices[n].at - t
      BY DEF Reach
    <2>7. w.ok /\ w.covered = r /\ w.weighted = sum[r]
      <3> HIDE DEF w, r
      <3> QED BY <2>3
    <2>8. (\E u \in Times(prices) : u >= end) <=> prices[n].at >= end
      <3>1. prices[n].at \in Times(prices)
        BY <1>1, <2>4 DEF Times
      <3>2. \A i \in 1 .. n : prices[i].at <= prices[n].at
        BY <1>1, <2>4
      <3>3. ASSUME NEW u \in Times(prices), u >= end PROVE prices[n].at >= end
        <4>1. PICK i \in 1 .. n : u = prices[i].at
          BY <1>1 DEF Times
        <4>2. u \in Int /\ u <= prices[n].at /\ end \in Int
          BY <1>1, <1>2, <3>2, <4>1
        <4> HIDE DEF end
        <4> QED BY <2>4, <3>3, <4>2
      <3> QED BY <3>1, <3>3
    <2>9. MayStart(prices, t, duration, windowEnd) <=> end <= windowEnd /\ prices[n].at >= end
      BY <1>2, <1>4, <2>8 DEF MayStart
    <2>10. CASE prices[n].at >= end
      <3>1. r = duration
        <4> HIDE DEF r
        <4> QED BY <1>2, <2>4, <2>6, <2>10
      <3>2. g[n] = w
        <4> HIDE DEF w, r
        <4> QED BY <2>5, <2>7, <3>1 DEF WalkStep
      <3>3. score = IF end > windowEnd THEN Fails ELSE w
        <4> HIDE DEF w, r, score, end
        <4> QED BY <2>2, <2>7, <3>1, <3>2
      <3>4. sum[duration] \in Int
        BY <2>1 DEF IsSum
      <3>5. end \in Int
        BY <1>2
      <3>6. CASE end > windowEnd
        <4>1. score = Fails
          BY <3>3, <3>6
        <4>2. ~score.ok
          <5> HIDE DEF score
          <5> QED BY <4>1 DEF Fails
        <4>3. ~MayStart(prices, t, duration, windowEnd)
          BY <2>9, <3>5, <3>6
        <4> QED BY <4>2, <4>3
      <3>7. CASE ~(end > windowEnd)
        <4>1. score = w
          BY <3>3, <3>7
        <4>2. score.ok /\ score.weighted = sum[duration]
          <5> HIDE DEF score, w, r
          <5> QED BY <2>7, <3>1, <4>1
        <4>3. MayStart(prices, t, duration, windowEnd)
          BY <2>9, <2>10, <3>5, <3>7
        <4> HIDE DEF score
        <4> QED BY <2>1, <3>4, <4>2, <4>3 DEF score
      <3> QED BY <3>6, <3>7
    <2>11. CASE ~(prices[n].at >= end)
      <3>1. r = prices[n].at - t /\ r < duration
        <4> HIDE DEF r
        <4> QED BY <1>2, <2>4, <2>6, <2>11
      <3>2. g[n] = Fails
        <4>1. To(prices, s, duration, n, w) = prices[s].at + w.covered
          BY DEF To
        <4>2. ~(w.covered >= duration)
          <5> HIDE DEF w, r
          <5> QED BY <1>2, <2>4, <2>7, <3>1
        <4>3. w.covered \in Int
          <5> HIDE DEF w, r
          <5> QED BY <1>2, <2>4, <2>7, <3>1
        <4> HIDE DEF w, r
        <4> QED BY <1>2, <2>5, <2>7, <4>1, <4>2, <4>3 DEF WalkStep
      <3>3. g[n].covered # duration
        BY <1>4, <3>2 DEF Fails
      <3>4. score = Fails
        <4> HIDE DEF score, end
        <4> QED BY <2>2, <3>3
      <3>5. ~score.ok
        <4> HIDE DEF score
        <4> QED BY <3>4 DEF Fails
      <3>6. ~MayStart(prices, t, duration, windowEnd)
        BY <2>9, <2>11
      <3> QED BY <3>5, <3>6
    <2> QED BY <2>10, <2>11
  <1> QED BY <1>3, <1>4

-----------------------------------------------------------------------------
(* The search of selectPricePoint.                                         *)

May(prices, duration, windowEnd, i) == MayStart(prices, prices[i].at, duration, windowEnd)
CostFrom(prices, duration, i) == Cost(prices, prices[i].at, duration)

(* Point b is the first of the best among the first i points.              *)
BestOf(prices, strategy, duration, windowEnd, i, b) ==
    IF b = 0 THEN \A j \in 1 .. i : ~May(prices, duration, windowEnd, j)
    ELSE /\ b \in 1 .. i /\ May(prices, duration, windowEnd, b)
         /\ \A j \in 1 .. i : May(prices, duration, windowEnd, j) =>
               LET a == CostFrom(prices, duration, b)
                   c == CostFrom(prices, duration, j)
               IN  ~Better(strategy, c, a) /\ (a = c => b <= j)

LEMMA BetterOrders ==
    ASSUME NEW strategy, NEW a \in Int, NEW b \in Int, NEW c \in Int
    PROVE  /\ ~Better(strategy, a, a)
           /\ Better(strategy, a, b) => ~Better(strategy, b, a) /\ a # b
           /\ Better(strategy, a, b) /\ ~Better(strategy, c, b) => ~Better(strategy, c, a) /\ a # c
  BY DEF Better

LEMMA SelectsTheBest ==
    ASSUME NEW prices, Chronological(prices), NEW strategy, NEW duration \in Nat,
           NEW windowEnd \in Int
    PROVE  \E b \in 0 .. Len(prices) :
              /\ BestOf(prices, strategy, duration, windowEnd, Len(prices), b)
              /\ selectPricePoint(prices, strategy, duration, windowEnd) =
                    IF b = 0 THEN NoPoint ELSE prices[b]
  <1> DEFINE n == Len(prices)
             M(i) == May(prices, duration, windowEnd, i)
             C(i) == CostFrom(prices, duration, i)
             Win(i, b) == Wins(prices, strategy, duration, windowEnd, i, b)
             Best(i, b) == BestOf(prices, strategy, duration, windowEnd, i, b)
  <1>1. n \in Nat
    BY PointsTyped
  <1>2. PICK f \in [0 .. n -> Nat] : SelectValues(f, prices, strategy, duration, windowEnd)
    <2> DEFINE P == PricePoints
    <2>1. prices \in Seq(P)
      BY DEF Chronological
    <2> HIDE DEF P
    <2> QED BY <2>1, SelectLoop
  <1>3. ASSUME NEW i \in 1 .. n
        PROVE  /\ pricePointScore(prices, i, duration, windowEnd).ok <=> M(i)
               /\ M(i) => /\ pricePointScore(prices, i, duration, windowEnd).weighted = C(i)
                          /\ C(i) \in Int
    BY ScoreMeaning DEF May, CostFrom
  <1>4. ASSUME NEW i \in 1 .. n, NEW b \in 0 .. n, b # 0 => M(b)
        PROVE  Win(i, b) <=> M(i) /\ (b = 0 \/ Better(strategy, C(i), C(b)))
    <2> HIDE DEF M, C
    <2>1. CASE b = 0
      BY <1>3, <2>1 DEF Wins
    <2>2. CASE b # 0
      <3>1. b \in 1 .. n
        BY <1>1, <2>2
      <3> QED BY <1>3, <1>4, <2>2, <3>1 DEF Wins
    <2> QED BY <2>1, <2>2
  <1> DEFINE S == {i \in 0 .. n : f[i] \in 0 .. i /\ Best(i, f[i])}
  <1>5. 0 \in S
    <2>1. f[0] = 0 /\ 0 \in 0 .. n
      BY <1>1, <1>2 DEF SelectValues
    <2> QED BY <2>1 DEF BestOf
  <1>6. ASSUME NEW k \in 0 .. n, k < n, k \in S PROVE k + 1 \in S
    <2> DEFINE i == k + 1
               b == f[k]
    <2>1. i \in 1 .. n /\ i - 1 = k /\ b \in 0 .. k /\ Best(k, b) /\ b \in 0 .. n /\ i \in 0 .. n
      BY <1>1, <1>6
    <2>2. f[i] = IF Win(i, b) THEN i ELSE b
      <3> HIDE DEF i, Win
      <3> QED BY <1>2, <2>1 DEF SelectValues, Win
    <2>3. b # 0 => /\ b \in 1 .. k /\ M(b)
                   /\ \A j \in 1 .. k : M(j) => ~Better(strategy, C(j), C(b)) /\ (C(b) = C(j) => b <= j)
      <3> HIDE DEF b
      <3> QED BY <2>1 DEF BestOf
    <2>4. b = 0 => \A j \in 1 .. k : ~M(j)
      <3> HIDE DEF b
      <3> QED BY <2>1 DEF BestOf
    <2>5. \A j \in 1 .. i : j \in 1 .. n /\ (j = i \/ j \in 1 .. k)
      BY <1>1, <2>1
    <2>6. \A j \in 1 .. n : M(j) => C(j) \in Int
      <3> HIDE DEF M, C
      <3> QED BY <1>3
    <2>7. Win(i, b) <=> M(i) /\ (b = 0 \/ Better(strategy, C(i), C(b)))
      <3> HIDE DEF i, b, Win, M, C
      <3> QED BY <1>4, <2>1, <2>3
    <2> HIDE DEF b
    <2>8. CASE Win(i, b)
      <3>1. f[i] = i
        <4> HIDE DEF i, Win
        <4> QED BY <2>2, <2>8
      <3>2. M(i) /\ i # 0 /\ i \in 1 .. i
        <4>1. M(i)
          <5> HIDE DEF i, Win, M, C
          <5> QED BY <2>7, <2>8
        <4> QED BY <2>1, <4>1
      <3>3. ASSUME NEW j \in 1 .. i, M(j)
            PROVE  ~Better(strategy, C(j), C(i)) /\ (C(i) = C(j) => i <= j)
        <4>1. C(j) \in Int /\ C(i) \in Int
          <5> HIDE DEF i, M, C
          <5> QED BY <2>1, <2>5, <2>6, <3>2, <3>3
        <4>2. CASE j = i
          <5>1. ~Better(strategy, C(i), C(i))
            <6> HIDE DEF i, M, C
            <6> QED BY <4>1, BetterOrders
          <5> QED BY <2>1, <4>2, <5>1
        <4>3. CASE j # i
          <5> HIDE DEF i, M, C, Win
          <5>1. j \in 1 .. k
            BY <2>5, <4>3
          <5>2. b # 0
            BY <2>4, <3>3, <5>1
          <5>3. Better(strategy, C(i), C(b)) /\ ~Better(strategy, C(j), C(b))
            BY <2>3, <2>7, <2>8, <3>3, <5>1, <5>2
          <5>4. b \in 1 .. n
            BY <1>1, <2>3, <5>2
          <5>5. C(b) \in Int
            BY <2>3, <2>6, <5>2, <5>4
          <5>6. ~Better(strategy, C(j), C(i)) /\ C(i) # C(j)
            BY <4>1, <5>3, <5>5, BetterOrders
          <5> QED BY <5>6
        <4> QED BY <4>2, <4>3
      <3>4. Best(i, i)
        <4> HIDE DEF i
        <4> QED BY <3>2, <3>3 DEF BestOf
      <3> HIDE DEF i, Best
      <3>5. i \in 0 .. i
        BY <2>1
      <3> QED BY <2>1, <3>1, <3>4, <3>5 DEF i
    <2>9. CASE ~Win(i, b)
      <3>1. f[i] = b
        <4> HIDE DEF i, Win
        <4> QED BY <2>2, <2>9
      <3>2. ~(M(i) /\ (b = 0 \/ Better(strategy, C(i), C(b))))
        BY <2>7, <2>9
      <3>3. CASE b = 0
        <4>1. ASSUME NEW j \in 1 .. i PROVE ~M(j)
          <5> HIDE DEF i, M, C
          <5> QED BY <2>4, <2>5, <3>2, <3>3
        <4>2. Best(i, b)
          <5> HIDE DEF i
          <5> QED BY <3>3, <4>1 DEF BestOf
        <4> HIDE DEF i, Best
        <4>3. b \in 0 .. i
          BY <2>1, <3>3
        <4> QED BY <2>1, <3>1, <4>2, <4>3 DEF i
      <3>4. CASE b # 0
        <4>1. b \in 1 .. i /\ b \in 0 .. i /\ b < i
          BY <1>1, <2>3, <3>4
        <4>2. ASSUME NEW j \in 1 .. i, M(j)
              PROVE  ~Better(strategy, C(j), C(b)) /\ (C(b) = C(j) => b <= j)
          <5>1. CASE j = i
            <6>1. ~Better(strategy, C(i), C(b))
              <7> HIDE DEF i, M, C
              <7> QED BY <3>2, <4>2, <5>1
            <6> HIDE DEF i, M, C
            <6> QED BY <2>1, <4>1, <5>1, <6>1
          <5>2. CASE j # i
            <6> HIDE DEF i, M, C
            <6> QED BY <2>3, <2>5, <3>4, <4>2, <5>2
          <5> QED BY <5>1, <5>2
        <4>3. Best(i, b)
          <5> HIDE DEF i
          <5> QED BY <2>3, <3>4, <4>1, <4>2 DEF BestOf
        <4> HIDE DEF i, Best
        <4> QED BY <2>1, <3>1, <4>1, <4>3 DEF i
      <3> QED BY <3>3, <3>4
    <2> QED BY <2>8, <2>9
  <1>7. n \in S
    <2> HIDE DEF S
    <2>1. \A i \in 0 .. n : i \in S
      BY <1>1, <1>5, <1>6, IntervalInduction
    <2> QED BY <1>1, <2>1
  <1> QED BY <1>2, <1>7 DEF SelectValues

LEMMA SelectionOfList ==
    ASSUME ListInv
    PROVE  SelectionIsBest
  <1> SUFFICES ASSUME NEW windowEnd \in 0 .. Horizon, NEW duration \in 0 .. Horizon,
                      NEW strategy \in Strategies
               PROVE  LET s == selectPricePoint(list, strategy, duration, windowEnd)
                      IN  IF s = NoPoint
                          THEN \A t \in Times(list) : ~MayStart(list, t, duration, windowEnd)
                          ELSE BestStart(list, strategy, s.at, duration, windowEnd)
    BY DEF SelectionIsBest
  <1> DEFINE s == selectPricePoint(list, strategy, duration, windowEnd)
  <1>1. windowEnd \in Int /\ duration \in Nat
    OBVIOUS
  <1>2. Chronological(list) /\ \A k \in DOMAIN list : list[k].at \in Nat
    BY DEF ListInv
  <1> HIDE DEF s
  <1>3. PICK b \in 0 .. Len(list) :
           /\ BestOf(list, strategy, duration, windowEnd, Len(list), b)
           /\ s = IF b = 0 THEN NoPoint ELSE list[b]
    BY <1>1, <1>2, SelectsTheBest DEF s
  <1>4. /\ Len(list) \in Nat /\ DOMAIN list = 1 .. Len(list)
        /\ \A k \in 1 .. Len(list) : list[k].at \in Int
        /\ \A j, k \in 1 .. Len(list) : j < k <=> list[j].at < list[k].at
    BY <1>2, PointsTyped
  <1>5. CASE b = 0
    <2>1. ASSUME NEW t \in Times(list) PROVE ~MayStart(list, t, duration, windowEnd)
      <3>1. PICK j \in 1 .. Len(list) : t = list[j].at
        BY <1>4 DEF Times
      <3> QED BY <1>3, <1>5, <3>1 DEF BestOf, May
    <2> QED BY <1>3, <1>5, <2>1 DEF s
  <1>6. CASE b # 0
    <2>1. b \in 1 .. Len(list) /\ s = list[b]
      BY <1>3, <1>4, <1>6
    <2>2. s # NoPoint
      <3>1. s.at \in Nat
        BY <1>2, <1>4, <2>1
      <3>2. NoPoint.at = -1
        BY DEF NoPoint
      <3> QED BY <3>1, <3>2
    <2>3. MayStart(list, s.at, duration, windowEnd)
      BY <1>3, <1>6, <2>1 DEF BestOf, May
    <2>4. ASSUME NEW u \in Times(list), MayStart(list, u, duration, windowEnd)
          PROVE  LET a == Cost(list, s.at, duration)
                     c == Cost(list, u, duration)
                 IN  ~Better(strategy, c, a) /\ (a = c => s.at <= u)
      <3>1. PICK j \in 1 .. Len(list) : u = list[j].at
        BY <1>4 DEF Times
      <3> DEFINE a == Cost(list, s.at, duration)
                 c == Cost(list, u, duration)
      <3>2. ~Better(strategy, c, a) /\ (a = c => b <= j)
        BY <1>3, <1>6, <2>1, <2>4, <3>1 DEF BestOf, May, CostFrom
      <3>3. b <= j => s.at <= u
        <4>1. b = j \/ b < j \/ ~(b <= j)
          BY <1>4, <2>1
        <4> QED BY <1>4, <2>1, <3>1, <4>1
      <3> QED BY <3>2, <3>3
    <2>5. BestStart(list, strategy, s.at, duration, windowEnd)
      BY <2>3, <2>4 DEF BestStart
    <2> QED BY <2>2, <2>5 DEF s
  <1> QED BY <1>5, <1>6

(* For every list of points in order, every latest end, duration and       *)
(* strategy, the start that selectPricePoint returns is the earliest of    *)
(* the cheapest (or dearest) over the whole run, and it returns none only  *)
(* when no run ends in time among the points: the walk of pricePointScore  *)
(* over the intervals adds up what the moments of the run cost.            *)
THEOREM SelectionAlwaysBest == Spec => []SelectionIsBest
  BY ListAlways, SelectionOfList, PTL

-----------------------------------------------------------------------------
(* Sorting.                                                                *)

(* A function that rises on 1 .. n and stays there is the identity.        *)
LEMMA RisingIsIdentity ==
    ASSUME NEW n \in Nat, NEW k \in [1 .. n -> 1 .. n],
           \A i, j \in 1 .. n : i < j => k[i] < k[j]
    PROVE  \A i \in 1 .. n : k[i] = i
  <1> DEFINE S == {i \in 0 .. n : i = 0 \/ k[i] >= i}
             T == {d \in 0 .. n : d = n \/ k[n - d] <= n - d}
  <1>1. \A i \in 0 .. n : i \in S
    <2>1. 0 \in S
      OBVIOUS
    <2>2. ASSUME NEW i \in 0 .. n, i < n, i \in S PROVE i + 1 \in S
      <3>1. i + 1 \in 1 .. n /\ i + 1 \in 0 .. n /\ k[i + 1] \in 1 .. n
        BY <2>2
      <3>2. CASE i = 0
        BY <3>1, <3>2
      <3>3. CASE i # 0
        <4>1. i \in 1 .. n /\ i < i + 1 /\ k[i] \in 1 .. n
          BY <3>3
        <4>2. k[i] < k[i + 1]
          BY <3>1, <4>1
        <4> QED BY <2>2, <3>1, <3>3, <4>1, <4>2
      <3> QED BY <3>2, <3>3
    <2> HIDE DEF S
    <2> QED BY <2>1, <2>2, IntervalInduction
  <1>2. \A d \in 0 .. n : d \in T
    <2>1. 0 \in T
      OBVIOUS
    <2>2. ASSUME NEW d \in 0 .. n, d < n, d \in T PROVE d + 1 \in T
      <3>1. CASE d + 1 = n
        BY <2>2, <3>1
      <3>2. CASE d + 1 # n
        <4> DEFINE i == n - d
                   j == n - (d + 1)
        <4>1. i \in 1 .. n /\ j \in 1 .. n /\ j < i /\ j = i - 1 /\ d + 1 \in 0 .. n
          BY <2>2, <3>2
        <4>2. k[i] <= i
          BY <2>2
        <4> HIDE DEF i, j
        <4>3. k[j] < k[i] /\ k[i] \in 1 .. n /\ k[j] \in 1 .. n
          BY <4>1
        <4>4. k[j] <= j
          BY <4>1, <4>2, <4>3
        <4> QED BY <4>1, <4>4 DEF j
      <3> QED BY <3>1, <3>2
    <2> HIDE DEF T
    <2> QED BY <2>1, <2>2, IntervalInduction
  <1> SUFFICES ASSUME NEW i \in 1 .. n PROVE k[i] = i
    OBVIOUS
  <1>3. i \in 0 .. n /\ n - i \in 0 .. n /\ n - (n - i) = i /\ i # 0 /\ n - i # n /\ k[i] \in 1 .. n
    OBVIOUS
  <1>4. k[i] >= i
    BY <1>1, <1>3
  <1>5. k[i] <= i
    BY <1>2, <1>3
  <1> QED BY <1>3, <1>4, <1>5

LEMMA BijectionFacts ==
    ASSUME NEW S, NEW f
    PROVE  f \in Bijection(S, S) <=>
              /\ f \in [S -> S]
              /\ \A x, y \in S : f[x] = f[y] => x = y
              /\ \A y \in S : \E x \in S : f[x] = y
  BY DEF Bijection, Injection, Surjection, IsInjective

(* However a list in order was shuffled, the sort restores it.             *)
LEMMA SortRestores ==
    ASSUME NEW q, Chronological(q), NEW f \in Bijection(DOMAIN q, DOMAIN q)
    PROVE  sortPricePointsByStartTime([i \in DOMAIN q |-> q[f[i]]]) = q
  <1> DEFINE D == DOMAIN q
             points == [i \in D |-> q[f[i]]]
             Sorted(r) == \A i, j \in DOMAIN r : i < j => r[i].at <= r[j].at
  <1>1. /\ Len(q) \in Nat /\ D = 1 .. Len(q) /\ q = [i \in 1 .. Len(q) |-> q[i]]
        /\ \A i \in 1 .. Len(q) : q[i].at \in Int
        /\ \A i, j \in 1 .. Len(q) : i < j <=> q[i].at < q[j].at
    BY PointsTyped
  <1>2. DOMAIN points = D /\ \A i \in D : points[i] = q[f[i]]
    OBVIOUS
  <1>3. /\ f \in [D -> D] /\ (\A x, y \in D : f[x] = f[y] => x = y)
        /\ \A y \in D : \E x \in D : f[x] = y
    BY BijectionFacts
  <1> HIDE DEF D
  <1>4. q \in Reordered(points) /\ Sorted(q)
    <2> DEFINE h == [y \in D |-> CHOOSE x \in D : f[x] = y]
    <2>1. \A y \in D : h[y] \in D /\ f[h[y]] = y
      BY <1>3
    <2>2. h \in Bijection(D, D)
      <3>1. h \in [D -> D]
        BY <2>1
      <3>2. \A x, y \in D : h[x] = h[y] => x = y
        BY <2>1
      <3>3. \A y \in D : \E x \in D : h[x] = y
        <4> SUFFICES ASSUME NEW y \in D PROVE h[f[y]] = y /\ f[y] \in D
          OBVIOUS
        <4>1. f[y] \in D
          BY <1>3
        <4>2. h[f[y]] \in D /\ f[h[f[y]]] = f[y]
          BY <2>1, <4>1
        <4> HIDE DEF h
        <4> QED BY <1>3, <4>1, <4>2
      <3> HIDE DEF h
      <3> QED BY <3>1, <3>2, <3>3, BijectionFacts
    <2> HIDE DEF h
    <2>3. q = [i \in D |-> points[h[i]]]
      <3>1. \A i \in D : points[h[i]] = q[i]
        BY <1>2, <2>1
      <3>2. q = [i \in D |-> q[i]]
        BY <1>1
      <3> HIDE DEF points
      <3> QED BY <3>1, <3>2
    <2>4. q \in Reordered(points)
      <3> HIDE DEF points
      <3> QED BY <1>2, <2>2, <2>3 DEF Reordered
    <2>5. Sorted(q)
      BY <1>1 DEF D
    <2> QED BY <2>4, <2>5
  <1>5. ASSUME NEW r \in Reordered(points), Sorted(r) PROVE r = q
    <2>1. PICK h \in Bijection(D, D) : r = [i \in D |-> points[h[i]]]
      <3> HIDE DEF points
      <3> QED BY <1>2 DEF Reordered
    <2>2. h \in [D -> D] /\ (\A x, y \in D : h[x] = h[y] => x = y)
      BY <2>1, BijectionFacts
    <2> DEFINE k == [i \in D |-> f[h[i]]]
    <2>3. k \in [D -> D] /\ \A i \in D : r[i] = q[k[i]] /\ k[i] \in D
      BY <1>2, <1>3, <2>1, <2>2
    <2>4. \A i, j \in D : i # j => k[i] # k[j]
      BY <1>3, <2>2
    <2> HIDE DEF k
    <2>5. ASSUME NEW i \in D, NEW j \in D, i < j PROVE k[i] < k[j]
      <3>1. r[i].at <= r[j].at
        <4>1. DOMAIN r = D
          BY <2>1
        <4> QED BY <1>5, <2>5, <4>1
      <3>2. q[k[i]].at <= q[k[j]].at
        BY <2>3, <3>1
      <3>3. i \in Nat /\ j \in Nat /\ i # j
        BY <1>1, <2>5
      <3>4. k[i] # k[j] /\ k[i] \in 1 .. Len(q) /\ k[j] \in 1 .. Len(q)
        BY <1>1, <2>3, <2>4, <3>3
      <3>5. ~(q[k[j]].at < q[k[i]].at)
        BY <1>1, <3>2, <3>4
      <3>6. ~(k[j] < k[i])
        BY <1>1, <3>4, <3>5
      <3> QED BY <3>4, <3>6
    <2>6. \A i \in D : k[i] = i
      <3> DEFINE n == Len(q)
      <3>1. n \in Nat /\ k \in [1 .. n -> 1 .. n]
            /\ \A i, j \in 1 .. n : i < j => k[i] < k[j]
        BY <1>1, <2>3, <2>5
      <3> HIDE DEF n
      <3>2. \A i \in 1 .. n : k[i] = i
        BY <3>1, RisingIsIdentity
      <3> QED BY <1>1, <3>2 DEF n
    <2>7. \A i \in D : r[i] = q[i]
      BY <2>3, <2>6
    <2> QED BY <1>1, <2>1, <2>7
  <1>6. sortPricePointsByStartTime(points) = CHOOSE r \in Reordered(points) : Sorted(r)
    BY DEF sortPricePointsByStartTime
  <1>7. (CHOOSE r \in Reordered(points) : Sorted(r)) = q
    <2> HIDE DEF Sorted, points
    <2> QED BY <1>4, <1>5
  <1> QED BY <1>6, <1>7 DEF D

-----------------------------------------------------------------------------
(* The custom endpoint and EnergyZero.                                     *)

(* The same list in another unit.                                          *)
LEMMA ScaledInOrder ==
    ASSUME NEW points, Chronological(points), NEW factor \in Int
    PROVE  /\ Chronological(Points(points, factor))
           /\ DOMAIN Points(points, factor) = DOMAIN points
           /\ Len(Points(points, factor)) = Len(points)
           /\ factor = 1 => Points(points, factor) = points
  <1> DEFINE n == Len(points)
             q == Points(points, factor)
  <1>1. /\ n \in Nat /\ DOMAIN points = 1 .. n /\ points = [i \in 1 .. n |-> points[i]]
        /\ \A i \in 1 .. n : points[i].at \in Int /\ points[i].price \in Int
                             /\ points[i] = [at |-> points[i].at, price |-> points[i].price]
        /\ \A i, j \in 1 .. n : i < j <=> points[i].at < points[j].at
    BY PointsTyped
  <1> HIDE DEF n
  <1>2. q = [i \in 1 .. n |-> [at |-> points[i].at, price |-> factor * points[i].price]]
    BY <1>1 DEF Points, Point
  <1>3. \A i \in 1 .. n : q[i] \in PricePoints /\ q[i].at = points[i].at
    BY <1>1, <1>2 DEF PricePoints
  <1>4. q \in Seq(PricePoints) /\ Len(q) = n /\ DOMAIN q = 1 .. n
    <2>1. q \in [1 .. n -> PricePoints]
      BY <1>2, <1>3
    <2> HIDE DEF q, PricePoints
    <2> QED BY <1>1, <2>1
  <1>5. Ordered(q)
    <2> HIDE DEF q
    <2> QED BY <1>1, <1>3, <1>4 DEF Ordered
  <1>6. factor = 1 => q = points
    <2> SUFFICES ASSUME factor = 1 PROVE q = points
      OBVIOUS
    <2>1. \A i \in 1 .. n : factor * points[i].price = points[i].price
      BY <1>1
    <2>2. \A i \in 1 .. n : q[i] = points[i]
      BY <1>1, <1>2, <2>1
    <2> QED BY <1>1, <1>2, <2>2
  <1> QED BY <1>1, <1>4, <1>5, <1>6 DEF Chronological, n

(* Every item of the list is readable, in any order and unit.              *)
LEMMA ShuffledItems ==
    ASSUME Chronological(list), NEW items \in Reordered(Items(list)), NEW factor \in Int
    PROVE  /\ AllReadable(items)
           /\ (items = <<>>) = (list = <<>>)
           /\ \E f \in Bijection(DOMAIN list, DOMAIN list) :
                 Points(items, factor) =
                    [i \in DOMAIN Points(list, factor) |-> Points(list, factor)[f[i]]]
  <1> DEFINE D == DOMAIN list
  <1>1. D = 1 .. Len(list) /\ Len(list) \in Nat /\ (list = <<>>) = (Len(list) = 0)
    BY PointsTyped
  <1>2. DOMAIN Items(list) = D /\ \A i \in D : Items(list)[i] = Item(list[i])
    BY DEF Items
  <1>3. PICK f \in Bijection(D, D) : items = [i \in D |-> Items(list)[f[i]]]
    BY <1>2 DEF Reordered
  <1> HIDE DEF D
  <1>4. f \in [D -> D]
    BY BijectionFacts
  <1>5. DOMAIN items = D /\ \A i \in D : items[i] = Item(list[f[i]]) /\ f[i] \in D
    BY <1>2, <1>3, <1>4
  <1>6. AllReadable(items)
    BY <1>5 DEF AllReadable, Item
  <1>7. (items = <<>>) = (list = <<>>)
    <2>1. CASE Len(list) = 0
      <3>1. D = {} /\ list = <<>>
        BY <1>1, <2>1
      <3>2. items = <<>>
        BY <1>3, <3>1
      <3> QED BY <3>1, <3>2
    <2>2. CASE Len(list) # 0
      <3>1. 1 \in D /\ list # <<>>
        BY <1>1, <2>2
      <3>2. items # <<>>
        BY <1>5, <3>1
      <3> QED BY <3>1, <3>2
    <2> QED BY <2>1, <2>2
  <1>8. Points(items, factor) = [i \in D |-> [at |-> list[f[i]].at, price |-> factor * list[f[i]].price]]
    BY <1>5 DEF Points, Point, Item
  <1>9. DOMAIN Points(list, factor) = D /\ \A i \in D :
           Points(list, factor)[i] = [at |-> list[i].at, price |-> factor * list[i].price]
    BY DEF Points, Point, D
  <1>10. Points(items, factor) = [i \in D |-> Points(list, factor)[f[i]]]
    BY <1>5, <1>8, <1>9
  <1> QED BY <1>3, <1>6, <1>7, <1>9, <1>10 DEF D

LEMMA SortedItems ==
    ASSUME Chronological(list), NEW items \in Reordered(Items(list)), NEW factor \in Int
    PROVE  sortPricePointsByStartTime(Points(items, factor)) = Points(list, factor)
  <1> DEFINE q == Points(list, factor)
  <1>1. Chronological(q) /\ DOMAIN q = DOMAIN list
    BY ScaledInOrder
  <1>2. PICK f \in Bijection(DOMAIN q, DOMAIN q) : Points(items, factor) = [i \in DOMAIN q |-> q[f[i]]]
    BY <1>1, ShuffledItems
  <1> HIDE DEF q
  <1> QED BY <1>1, <1>2, SortRestores DEF q

LEMMA CustomReturnsList ==
    ASSUME Chronological(list), NEW items \in Reordered(Items(list))
    PROVE  customFetchPrices(Answer(items)) = Fetched(list)
  <1>1. sortPricePointsByStartTime(Points(items, 1)) = list
    <2>1. sortPricePointsByStartTime(Points(items, 1)) = Points(list, 1)
      BY SortedItems
    <2>2. Points(list, 1) = list
      BY ScaledInOrder
    <2> QED BY <2>1, <2>2
  <1>2. AllReadable(items)
    <2>1. 1 \in Int
      OBVIOUS
    <2> QED BY <2>1, ShuffledItems
  <1> QED BY <1>1, <1>2 DEF customFetchPrices, convertIntervals, Answer

LEMMA OrderOfList ==
    ASSUME Chronological(list)
    PROVE  OrderRestored
  <1> SUFFICES ASSUME NEW items \in Reordered(Items(list))
               PROVE  /\ customFetchPrices(Answer(items)) = Fetched(list)
                      /\ energyzeroFetchPrices(Answer(items)) =
                            IF list = <<>> THEN Failed ELSE Fetched(PerMWh(list))
    BY DEF OrderRestored
  <1>1. KWhPerMWh \in Int
    BY DEF KWhPerMWh
  <1>2. sortPricePointsByStartTime(Points(items, KWhPerMWh)) = PerMWh(list)
    BY <1>1, SortedItems DEF PerMWh
  <1>3. AllReadable(items) /\ (items = <<>>) = (list = <<>>)
    BY <1>1, ShuffledItems
  <1>4. energyzeroFetchPrices(Answer(items)) =
           IF list = <<>> THEN Failed ELSE Fetched(PerMWh(list))
    <2>1. CASE list = <<>>
      <3>1. items = <<>>
        BY <1>3, <2>1
      <3> QED BY <2>1, <3>1 DEF energyzeroFetchPrices, parseResponse, Answer
    <2>2. CASE list # <<>>
      <3>1. items # <<>>
        BY <1>3, <2>2
      <3> QED BY <1>2, <1>3, <2>2, <3>1 DEF energyzeroFetchPrices, parseResponse, Answer
    <2> QED BY <2>1, <2>2
  <1> QED BY <1>4, CustomReturnsList

(* Whatever order the items of a response come in, the custom endpoint and *)
(* EnergyZero return the published list in its order, for lists of any     *)
(* length, as FetchPrices promises.                                        *)
THEOREM OrderAlwaysRestored == Spec => []OrderRestored
  <1>1. ListInv => OrderRestored
    BY OrderOfList DEF ListInv
  <1> QED BY <1>1, ListAlways, PTL

-----------------------------------------------------------------------------
(* The metrics' current price.                                             *)

LEMMA CurrentOfList ==
    ASSUME Chronological(list), NEW now \in Nat, \A i \in DOMAIN list : list[i].at \in Nat
    PROVE  LET current == currentPricePoint(list, now)
           IN  IF \E t \in Times(list) : t <= now
               THEN current.at <= now /\ current.price = PriceAt(list, now)
               ELSE current = NoCurrentPrice
  <1> DEFINE later == {i \in DOMAIN list : list[i].at > now}
             n == IF later = {} THEN Len(list) ELSE Min(later) - 1
             current == currentPricePoint(list, now)
  <1>1. /\ Len(list) \in Nat /\ DOMAIN list = 1 .. Len(list)
        /\ \A i \in 1 .. Len(list) : list[i].at \in Int
        /\ \A i, j \in 1 .. Len(list) : i < j <=> list[i].at < list[j].at
    BY PointsTyped
  <1>2. current = IF n = 0 THEN NoCurrentPrice ELSE list[n]
    BY DEF currentPricePoint
  <1>3. /\ n \in 0 .. Len(list)
        /\ \A i \in 1 .. n : ~(list[i].at > now)
        /\ n < Len(list) => n + 1 \in later
    <2>1. CASE later = {}
      BY <1>1, <2>1
    <2>2. CASE later # {}
      <3>1. later \subseteq Nat
        BY <1>1
      <3>2. Min(later) \in later /\ \A k \in later : Min(later) <= k
        <4> HIDE DEF later
        <4>1. \E m \in later : \A k \in later : m <= k
          BY <2>2, <3>1, LeastNumber
        <4> QED BY <4>1 DEF Min
      <3> DEFINE m == Min(later)
      <3>3. n = m - 1 /\ m \in 1 .. Len(list)
        BY <1>1, <2>2, <3>2
      <3>4. \A i \in 1 .. (m - 1) : i \notin later
        <4> SUFFICES ASSUME NEW i \in 1 .. (m - 1), i \in later PROVE FALSE
          OBVIOUS
        <4>1. m \in Nat /\ m <= i
          BY <3>1, <3>2
        <4> HIDE DEF later, m
        <4> QED BY <4>1
      <3> HIDE DEF m, n
      <3>5. n \in 0 .. Len(list) /\ n + 1 = m /\ \A i \in 1 .. n : i \in 1 .. Len(list)
        BY <1>1, <3>3
      <3>6. \A i \in 1 .. n : ~(list[i].at > now)
        BY <1>1, <3>3, <3>4, <3>5
      <3> QED BY <3>2, <3>5, <3>6 DEF m
    <2> QED BY <2>1, <2>2
  <1>4. n < Len(list) => list[n + 1].at > now
    BY <1>3
  <1> HIDE DEF n, later, current
  <1>5. CASE n = 0
    <2>1. ~\E t \in Times(list) : t <= now
      <3> SUFFICES ASSUME NEW i \in 1 .. Len(list), list[i].at <= now PROVE FALSE
        BY <1>1 DEF Times
      <3>1. 1 \in 1 .. Len(list) /\ n < Len(list) /\ n + 1 = 1
        BY <1>1, <1>5
      <3>2. list[1].at > now
        BY <1>4, <3>1
      <3>3. i = 1 \/ list[1].at < list[i].at
        BY <1>1, <3>1
      <3> QED BY <1>1, <3>1, <3>2, <3>3
    <2>2. current = NoCurrentPrice
      BY <1>2, <1>5
    <2> QED BY <2>1, <2>2 DEF current
  <1>6. CASE n # 0
    <2>1. n \in 1 .. Len(list) /\ n \in 1 .. n
      BY <1>1, <1>3, <1>6
    <2>2. list[n].at \in Int /\ list[n].at <= now
      BY <1>1, <1>3, <2>1
    <2>3. n < Len(list) => now < list[n + 1].at
      BY <1>4
    <2>4. PriceAt(list, now) = list[n].price
      BY <2>1, <2>2, <2>3, PriceInForce
    <2>5. current = list[n]
      BY <1>2, <1>6
    <2>6. \E t \in Times(list) : t <= now
      BY <1>1, <2>1, <2>2 DEF Times
    <2> QED BY <2>2, <2>4, <2>5, <2>6 DEF current
  <1> QED BY <1>5, <1>6

(* The current price the metrics report is the published price in force,   *)
(* from the very start of an interval on and whatever order the items came *)
(* in: currentPricePoint stops at the first later point, which is right    *)
(* because the provider sorted.                                            *)
THEOREM CurrentPriceAlwaysInForce == Spec => []CurrentPriceInForce
  <1>1. ASSUME ListInv PROVE CurrentPriceInForce
    <2> SUFFICES ASSUME NEW items \in Reordered(Items(list)), NEW now \in 0 .. Horizon
                 PROVE  LET stored == customFetchPrices(Answer(items)).points
                            current == currentPricePoint(stored, now)
                        IN  IF \E t \in Times(list) : t <= now
                            THEN current.at <= now /\ current.price = PriceAt(list, now)
                            ELSE current = NoCurrentPrice
      BY DEF CurrentPriceInForce
    <2>1. Chronological(list) /\ (\A i \in DOMAIN list : list[i].at \in Nat) /\ now \in Nat
      BY <1>1 DEF ListInv
    <2>2. customFetchPrices(Answer(items)).points = list
      <3>1. customFetchPrices(Answer(items)) = Fetched(list)
        BY <2>1, CustomReturnsList
      <3> QED BY <3>1 DEF Fetched
    <2> QED BY <2>1, <2>2, CurrentOfList
  <1> QED BY <1>1, ListAlways, PTL

-----------------------------------------------------------------------------
(* What the items of a response give.                                      *)

LEMMA ItemsScaled ==
    ASSUME NEW points, NEW factor
    PROVE  Points(Items(points), factor) = Points(points, factor) /\ AllReadable(Items(points))
  <1>1. DOMAIN Items(points) = DOMAIN points
        /\ \A i \in DOMAIN points : Items(points)[i] = Item(points[i])
    BY DEF Items
  <1>2. \A p : Point(Item(p), factor) = Point(p, factor) /\ Item(p).readable
    BY DEF Point, Item
  <1> QED BY <1>1, <1>2 DEF Points, AllReadable

-----------------------------------------------------------------------------
(* A list from which points that repeat a price are left out.              *)

(* The interval of point j of the list lies in one of q with its price.    *)
InIntervalOf(q, points, i, j) ==
    \E k \in 1 .. Len(q) :
        /\ q[k].at <= points[j].at /\ q[k].price = points[j].price
        /\ k < Len(q) => j < i /\ points[j + 1].at <= q[k + 1].at

(* q gives the first i points.                                             *)
Thinned(q, points, i) ==
    /\ Chronological(q)
    /\ i = 0 => q = <<>>
    /\ i > 0 => q # <<>> /\ q[1] = points[1]
    /\ \A k \in 1 .. Len(q) : q[k].at <= points[i].at
    /\ \A j \in 1 .. i : InIntervalOf(q, points, i, j)

LEMMA ThinnedStarts ==
    ASSUME NEW points
    PROVE  Thinned(<<>>, points, 0)
  <1>1. Chronological(<<>>)
    <2>1. <<>> \in Seq(PricePoints)
      <3> HIDE DEF PricePoints
      <3> QED OBVIOUS
    <2> QED BY <2>1 DEF Chronological, Ordered
  <1>2. Len(<<>>) = 0
    OBVIOUS
  <1> QED BY <1>1, <1>2 DEF Thinned

LEMMA ThinnedWritten ==
    ASSUME NEW points, Chronological(points), NEW i \in 0 .. Len(points), i < Len(points),
           NEW q, Thinned(q, points, i)
    PROVE  Thinned(Append(q, points[i + 1]), points, i + 1)
  <1> DEFINE n == Len(points)
             m == Len(q)
             p == points[i + 1]
             r == Append(q, p)
  <1>1. /\ n \in Nat /\ i + 1 \in 1 .. n /\ p \in PricePoints
        /\ \A j \in 1 .. n : points[j].at \in Int
        /\ \A j, k \in 1 .. n : j < k <=> points[j].at < points[k].at
    <2>1. /\ n \in Nat
          /\ \A j \in 1 .. n : points[j].at \in Int
          /\ \A j, k \in 1 .. n : j < k <=> points[j].at < points[k].at
      BY PointsTyped
    <2>2. i + 1 \in 1 .. n
      BY <2>1
    <2>3. p \in PricePoints
      <3> HIDE DEF PricePoints
      <3> QED BY <2>2 DEF Chronological
    <2> QED BY <2>1, <2>2, <2>3
  <1>2. /\ Chronological(q) /\ m \in Nat /\ DOMAIN q = 1 .. m /\ (q = <<>>) = (m = 0)
        /\ \A k \in 1 .. m : q[k].at \in Int /\ q[k].at <= points[i].at
        /\ i = 0 => q = <<>>
        /\ i > 0 => q # <<>> /\ q[1] = points[1]
        /\ \A j \in 1 .. i : InIntervalOf(q, points, i, j)
    <2>1. Chronological(q)
      BY DEF Thinned
    <2> QED BY <2>1, PointsTyped DEF Thinned
  <1>3. q # <<>> => p.at > q[m].at
    <2> SUFFICES ASSUME q # <<>> PROVE p.at > q[m].at
      OBVIOUS
    <2>1. m \in 1 .. m /\ i \in 1 .. n /\ i < i + 1
      BY <1>1, <1>2
    <2>2. q[m].at \in Int /\ q[m].at <= points[i].at
      BY <1>2, <2>1
    <2>3. points[i].at < p.at /\ points[i].at \in Int /\ p.at \in Int
      BY <1>1, <2>1
    <2> QED BY <2>2, <2>3
  <1>4. /\ Chronological(r) /\ Len(r) = m + 1 /\ r[m + 1] = p
        /\ \A k \in 1 .. m : r[k] = q[k]
    <2> HIDE DEF p
    <2> QED BY <1>1, <1>2, <1>3, AppendInOrder
  <1> HIDE DEF r
  <1>5. p.at \in Int /\ r # <<>>
    <2>1. (r = <<>>) = (Len(r) = 0)
      BY <1>4, PointsTyped
    <2> QED BY <1>1, <1>2, <1>4, <2>1
  <1>6. r[1] = points[1]
    <2>1. CASE i = 0
      <3>1. m = 0
        BY <1>2, <2>1
      <3> QED BY <1>4, <2>1, <3>1
    <2>2. CASE i # 0
      <3>1. 1 \in 1 .. m /\ q[1] = points[1]
        BY <1>2, <2>2
      <3> QED BY <1>4, <3>1
    <2> QED BY <2>1, <2>2
  <1>7. ASSUME NEW k \in 1 .. Len(r) PROVE r[k].at <= p.at
    <2>1. CASE k = m + 1
      BY <1>4, <1>5, <2>1
    <2>2. CASE k # m + 1
      <3>1. k \in 1 .. m /\ q # <<>>
        BY <1>2, <1>4, <2>2
      <3>2. i \in 1 .. n /\ i < i + 1
        BY <1>1, <1>2, <3>1
      <3>3. q[k].at <= points[i].at /\ points[i].at < p.at /\ q[k].at \in Int /\ points[i].at \in Int
        BY <1>1, <1>2, <3>1, <3>2
      <3> QED BY <1>4, <1>5, <3>1, <3>3
    <2> QED BY <2>1, <2>2
  <1>8. ASSUME NEW j \in 1 .. (i + 1) PROVE InIntervalOf(r, points, i + 1, j)
    <2>1. CASE j = i + 1
      <3>1. m + 1 \in 1 .. Len(r) /\ ~(m + 1 < Len(r))
        BY <1>2, <1>4
      <3>2. r[m + 1].at <= points[j].at /\ r[m + 1].price = points[j].price
        BY <1>4, <1>5, <2>1
      <3> QED BY <3>1, <3>2 DEF InIntervalOf
    <2>2. CASE j # i + 1
      <3>1. j \in 1 .. i /\ j < i + 1 /\ j \in 1 .. n /\ j + 1 \in 1 .. n /\ j + 1 <= i + 1
        BY <1>1, <2>2
      <3>2. PICK k \in 1 .. m :
               /\ q[k].at <= points[j].at /\ q[k].price = points[j].price
               /\ k < m => j < i /\ points[j + 1].at <= q[k + 1].at
        BY <1>2, <3>1 DEF InIntervalOf
      <3>3. k \in 1 .. Len(r) /\ r[k] = q[k]
        BY <1>2, <1>4, <3>2
      <3>4. points[j + 1].at <= r[k + 1].at
        <4>1. CASE k < m
          <5>1. k + 1 \in 1 .. m
            BY <1>2, <4>1
          <5> QED BY <1>4, <3>2, <4>1, <5>1
        <4>2. CASE ~(k < m)
          <5>1. k = m
            <6>1. m \in Nat
              BY <1>2
            <6> HIDE DEF m
            <6> QED BY <4>2, <6>1
          <5>2. j + 1 = i + 1 \/ points[j + 1].at < points[i + 1].at
            BY <1>1, <3>1
          <5>3. points[j + 1].at \in Int
            BY <1>1, <3>1
          <5> QED BY <1>4, <1>5, <5>1, <5>2, <5>3
        <4> QED BY <4>1, <4>2
      <3> QED BY <3>1, <3>2, <3>3, <3>4 DEF InIntervalOf
    <2> QED BY <2>1, <2>2
  <1>9. i + 1 > 0 /\ i + 1 # 0
    BY <1>1
  <1> QED BY <1>4, <1>5, <1>6, <1>7, <1>8, <1>9 DEF Thinned, r

LEMMA ThinnedLeftOut ==
    ASSUME NEW points, Chronological(points), NEW i \in 1 .. Len(points), i < Len(points),
           points[i + 1].price = points[i].price,
           NEW q, Thinned(q, points, i)
    PROVE  Thinned(q, points, i + 1)
  <1> DEFINE n == Len(points)
             m == Len(q)
  <1>1. n \in Nat
    BY PointsTyped
  <1>2. i + 1 \in 1 .. n /\ i < i + 1 /\ i > 0 /\ i + 1 > 0 /\ i + 1 # 0
    BY <1>1
  <1>3. points[i].at \in Int /\ points[i + 1].at \in Int /\ points[i].at < points[i + 1].at
    <2>1. /\ \A j \in 1 .. n : points[j].at \in Int
          /\ \A j, k \in 1 .. n : j < k <=> points[j].at < points[k].at
      BY PointsTyped
    <2> QED BY <1>2, <2>1
  <1>4. /\ Chronological(q) /\ q # <<>> /\ q[1] = points[1]
        /\ \A k \in 1 .. m : q[k].at <= points[i].at
        /\ \A j \in 1 .. i : InIntervalOf(q, points, i, j)
    BY <1>2 DEF Thinned
  <1>5. m \in Nat /\ \A k \in 1 .. m : q[k].at \in Int
    BY <1>4, PointsTyped
  <1>6. ASSUME NEW k \in 1 .. m PROVE q[k].at <= points[i + 1].at
    <2>1. q[k].at \in Int /\ q[k].at <= points[i].at
      BY <1>4, <1>5
    <2> QED BY <1>3, <2>1
  <1>7. ASSUME NEW j \in 1 .. (i + 1) PROVE InIntervalOf(q, points, i + 1, j)
    <2>1. CASE j = i + 1
      <3>1. i \in 1 .. i
        OBVIOUS
      <3>2. PICK k \in 1 .. m :
               /\ q[k].at <= points[i].at /\ q[k].price = points[i].price
               /\ k < m => i < i
        BY <1>4, <3>1 DEF InIntervalOf
      <3>3. ~(k < m)
        BY <3>2
      <3>4. q[k].at <= points[j].at /\ q[k].price = points[j].price
        BY <1>6, <2>1, <3>2
      <3> QED BY <3>3, <3>4 DEF InIntervalOf
    <2>2. CASE j # i + 1
      <3>1. j \in 1 .. i /\ j < i + 1
        BY <2>2
      <3>2. PICK k \in 1 .. m :
               /\ q[k].at <= points[j].at /\ q[k].price = points[j].price
               /\ k < m => j < i /\ points[j + 1].at <= q[k + 1].at
        BY <1>4, <3>1 DEF InIntervalOf
      <3> QED BY <3>1, <3>2 DEF InIntervalOf
    <2> QED BY <2>1, <2>2
  <1> QED BY <1>2, <1>4, <1>6, <1>7 DEF Thinned

(* A thinned list gives every moment the same price.                       *)
LEMMA ThinnedSamePrices ==
    ASSUME NEW points, Chronological(points), points # <<>>,
           NEW q, Thinned(q, points, Len(points))
    PROVE  Ordered(q) /\ SamePrices(q, points)
  <1> DEFINE n == Len(points)
             m == Len(q)
  <1>1. /\ n \in Nat /\ n > 0
        /\ \A j \in 1 .. n : points[j].at \in Int
    <2>1. /\ n \in Nat /\ (points = <<>>) = (n = 0)
          /\ \A j \in 1 .. n : points[j].at \in Int
      BY PointsTyped
    <2> HIDE DEF n
    <2> QED BY <2>1
  <1>2. /\ Chronological(q) /\ q # <<>> /\ q[1] = points[1]
        /\ \A j \in 1 .. n : InIntervalOf(q, points, n, j)
    BY <1>1 DEF Thinned
  <1>3. m \in Nat /\ \A k \in 1 .. m : q[k].at \in Int
    BY <1>2, PointsTyped
  <1>4. ASSUME NEW t \in Int, points[1].at <= t PROVE PriceAt(q, t) = PriceAt(points, t)
    <2>0. 1 \in 1 .. n
      BY <1>1
    <2>1. PICK j \in 1 .. n : points[j].at <= t /\ (j < n => t < points[j + 1].at)
      BY <1>4, <2>0, IntervalOf
    <2>2. PriceAt(points, t) = points[j].price
      BY <2>1, PriceInForce
    <2>3. PICK k \in 1 .. m :
             /\ q[k].at <= points[j].at /\ q[k].price = points[j].price
             /\ k < m => j < n /\ points[j + 1].at <= q[k + 1].at
      BY <1>2, <2>1 DEF InIntervalOf
    <2>4. q[k].at <= t
      BY <1>1, <1>3, <2>1, <2>3
    <2>5. k < m => t < q[k + 1].at
      <3> SUFFICES ASSUME k < m PROVE t < q[k + 1].at
        OBVIOUS
      <3>1. k + 1 \in 1 .. m /\ j < n
        BY <1>3, <2>3
      <3>2. j + 1 \in 1 .. n
        BY <1>1, <2>1, <3>1
      <3> QED BY <1>1, <1>3, <2>1, <2>3, <3>1, <3>2
    <2>6. PriceAt(q, t) = q[k].price
      BY <1>2, <2>3, <2>4, <2>5, PriceInForce
    <2> QED BY <2>2, <2>3, <2>6
  <1>5. points[1].at \in Int
    BY <1>1
  <1>6. \A t \in q[1].at .. Horizon : PriceAt(q, t) = PriceAt(points, t)
    BY <1>2, <1>4, <1>5
  <1> QED BY <1>2, <1>6 DEF SamePrices, Chronological

-----------------------------------------------------------------------------
(* A list cut in two.                                                      *)

Before(points, cut) == SubSeq(points, 1, cut)
After(points, cut) == SubSeq(points, cut + 1, Len(points))

LEMMA CutInTwo ==
    ASSUME NEW points, Chronological(points), NEW cut \in 0 .. Len(points)
    PROVE  /\ Chronological(Before(points, cut)) /\ Len(Before(points, cut)) = cut
           /\ \A i \in 1 .. cut : Before(points, cut)[i] = points[i]
           /\ Chronological(After(points, cut)) /\ Len(After(points, cut)) = Len(points) - cut
           /\ \A i \in 1 .. (Len(points) - cut) : After(points, cut)[i] = points[cut + i]
  <1> DEFINE n == Len(points)
             b == Before(points, cut)
             a == After(points, cut)
             d == n - cut
  <1>1. n \in Nat /\ \A i, j \in 1 .. n : i < j <=> points[i].at < points[j].at
    BY PointsTyped
  <1>2. d \in Nat /\ cut \in Nat
    BY <1>1
  <1>3. /\ b \in Seq(PricePoints) /\ Len(b) = cut /\ DOMAIN b = 1 .. cut
        /\ \A i \in 1 .. cut : b[i] = points[i] /\ i \in 1 .. n
    <2>1. points \in Seq(PricePoints)
      BY DEF Chronological
    <2> HIDE DEF PricePoints
    <2> QED BY <1>1, <1>2, <2>1 DEF Before
  <1>4. /\ a \in Seq(PricePoints) /\ Len(a) = d /\ DOMAIN a = 1 .. d
        /\ \A i \in 1 .. d : a[i] = points[cut + i] /\ cut + i \in 1 .. n
    <2>1. points \in Seq(PricePoints)
      BY DEF Chronological
    <2> HIDE DEF PricePoints
    <2>2. a \in Seq(PricePoints) /\ Len(a) = d /\ DOMAIN a = 1 .. d
      BY <1>1, <1>2, <2>1 DEF After
    <2>3. \A i \in 1 .. d : a[i] = points[(cut + 1) + (i - 1)]
      BY <1>1, <1>2, <2>1 DEF After
    <2>4. \A i \in 1 .. d : (cut + 1) + (i - 1) = cut + i /\ cut + i \in 1 .. n
      BY <1>1, <1>2
    <2> HIDE DEF a, d
    <2> QED BY <2>2, <2>3, <2>4
  <1> HIDE DEF a, b, d
  <1>5. Ordered(b)
    BY <1>1, <1>3 DEF Ordered
  <1>6. Ordered(a)
    <2> SUFFICES ASSUME NEW i \in 1 .. d, NEW j \in 1 .. d, i < j PROVE a[i].at < a[j].at
      BY <1>4 DEF Ordered
    <2> DEFINE x == cut + i
               y == cut + j
    <2>1. x < y
      BY <1>2
    <2>2. a[i] = points[x] /\ a[j] = points[y] /\ x \in 1 .. n /\ y \in 1 .. n
      BY <1>4
    <2> HIDE DEF x, y
    <2> QED BY <1>1, <2>1, <2>2
  <1> QED BY <1>3, <1>4, <1>5, <1>6 DEF Chronological, a, b, d

IsJoin(z, q, r) ==
    /\ z \in Seq(PricePoints) /\ Len(z) = Len(q) + Len(r)
    /\ DOMAIN z = 1 .. (Len(q) + Len(r))
    /\ \A k \in 1 .. Len(q) : z[k] = q[k]
    /\ \A k \in 1 .. Len(r) : z[Len(q) + k] = r[k]

LEMMA Joined ==
    ASSUME NEW q, NEW r, Chronological(q), Chronological(r)
    PROVE  IsJoin(q \o r, q, r)
  <1>1. q \in Seq(PricePoints) /\ r \in Seq(PricePoints)
    BY DEF Chronological
  <1> HIDE DEF PricePoints
  <1>2. q \o r \in Seq(PricePoints) /\ Len(q \o r) = Len(q) + Len(r)
    BY <1>1
  <1>3. DOMAIN (q \o r) = 1 .. (Len(q) + Len(r))
    BY <1>1, <1>2
  <1>4. \A k \in 1 .. Len(q) : (q \o r)[k] = q[k]
    BY <1>1
  <1>5. ASSUME NEW k \in 1 .. Len(r) PROVE (q \o r)[Len(q) + k] = r[k]
    <2>1. Len(q) \in Nat /\ Len(r) \in Nat
      BY <1>1
    <2>2. Len(q) + k \in 1 .. (Len(q) + Len(r)) /\ ~(Len(q) + k <= Len(q))
          /\ (Len(q) + k) - Len(q) = k
      BY <2>1
    <2> QED BY <1>1, <2>1, <2>2
  <1> QED BY <1>2, <1>3, <1>4, <1>5 DEF IsJoin

LEMMA ThinnedJoined ==
    ASSUME NEW points, Chronological(points), NEW cut \in 1 .. (Len(points) - 1),
           NEW q, Thinned(q, Before(points, cut), cut),
           NEW r, Thinned(r, After(points, cut), Len(points) - cut)
    PROVE  Thinned(q \o r, points, Len(points))
  <1> DEFINE n == Len(points)
             d == n - cut
             b == Before(points, cut)
             a == After(points, cut)
             l == Len(q)
             m == Len(r)
             z == q \o r
  <1>1. /\ n \in Nat
        /\ \A i \in 1 .. n : points[i].at \in Int
        /\ \A i, j \in 1 .. n : i < j <=> points[i].at < points[j].at
    BY PointsTyped
  <1>2. /\ cut \in Nat /\ cut > 0 /\ cut < n /\ d \in Nat /\ d > 0
        /\ cut \in 0 .. n /\ cut \in 1 .. n /\ cut + 1 \in 1 .. n /\ n \in 1 .. n
    BY <1>1
  <1>3. /\ \A i \in 1 .. cut : b[i] = points[i] /\ i \in 1 .. n
        /\ \A i \in 1 .. d : a[i] = points[cut + i] /\ cut + i \in 1 .. n
    <2>1. /\ \A i \in 1 .. cut : b[i] = points[i]
          /\ \A i \in 1 .. d : a[i] = points[cut + i]
      BY <1>2, CutInTwo
    <2>2. /\ \A i \in 1 .. cut : i \in 1 .. n
          /\ \A i \in 1 .. d : cut + i \in 1 .. n
      BY <1>1, <1>2
    <2> HIDE DEF a, b, d
    <2> QED BY <2>1, <2>2
  <1>4. /\ Chronological(q) /\ l \in Nat /\ l > 0 /\ q[1] = b[1]
        /\ \A k \in 1 .. l : q[k].at \in Int /\ q[k].at <= b[cut].at
        /\ \A i, j \in 1 .. l : i < j <=> q[i].at < q[j].at
        /\ \A j \in 1 .. cut : InIntervalOf(q, b, cut, j)
    <2>1. /\ Chronological(q) /\ q # <<>> /\ q[1] = b[1]
          /\ \A k \in 1 .. l : q[k].at <= b[cut].at
          /\ \A j \in 1 .. cut : InIntervalOf(q, b, cut, j)
      BY <1>2 DEF Thinned
    <2>2. /\ l \in Nat /\ (q = <<>>) = (l = 0) /\ (\A k \in 1 .. l : q[k].at \in Int)
          /\ \A i, j \in 1 .. l : i < j <=> q[i].at < q[j].at
      BY <2>1, PointsTyped
    <2>3. l > 0
      <3> HIDE DEF l
      <3> QED BY <2>1, <2>2
    <2> HIDE DEF l, b
    <2> QED BY <2>1, <2>2, <2>3
  <1>5. /\ Chronological(r) /\ m \in Nat /\ m > 0 /\ r[1] = a[1]
        /\ \A k \in 1 .. m : r[k].at \in Int /\ r[k].at <= a[d].at
        /\ \A i, j \in 1 .. m : i < j <=> r[i].at < r[j].at
        /\ \A j \in 1 .. d : InIntervalOf(r, a, d, j)
    <2>1. /\ Chronological(r) /\ r # <<>> /\ r[1] = a[1]
          /\ \A k \in 1 .. m : r[k].at <= a[d].at
          /\ \A j \in 1 .. d : InIntervalOf(r, a, d, j)
      BY <1>2 DEF Thinned
    <2>2. /\ m \in Nat /\ (r = <<>>) = (m = 0) /\ (\A k \in 1 .. m : r[k].at \in Int)
          /\ \A i, j \in 1 .. m : i < j <=> r[i].at < r[j].at
      BY <2>1, PointsTyped
    <2>3. m > 0
      <3> HIDE DEF m
      <3> QED BY <2>1, <2>2
    <2> HIDE DEF m, a, d
    <2> QED BY <2>1, <2>2, <2>3
  <1>6. /\ z \in Seq(PricePoints) /\ Len(z) = l + m /\ DOMAIN z = 1 .. (l + m)
        /\ \A k \in 1 .. l : z[k] = q[k]
        /\ \A k \in 1 .. m : z[l + k] = r[k]
    BY <1>4, <1>5, Joined DEF IsJoin
  <1>7. /\ b[cut].at = points[cut].at /\ b[1] = points[1]
        /\ a[1] = points[cut + 1] /\ a[d] = points[n]
        /\ points[cut].at < points[cut + 1].at
        /\ points[cut].at < points[n].at
    <2>1. 1 \in 1 .. cut /\ cut \in 1 .. cut /\ 1 \in 1 .. d /\ d \in 1 .. d /\ cut + d = n
      BY <1>1, <1>2
    <2>2. cut < cut + 1 /\ cut < n
      BY <1>2
    <2> HIDE DEF a, b, d
    <2> QED BY <1>1, <1>2, <1>3, <2>1, <2>2
  <1> HIDE DEF a, b, d, z, l, m, n
  <1>8. \A k \in 1 .. (l + m) : k \in 1 .. l \/ (k - l \in 1 .. m /\ l + (k - l) = k /\ k > l)
    BY <1>4, <1>5
  <1>9. \A k \in 1 .. m : points[cut + 1].at <= r[k].at
    <2> SUFFICES ASSUME NEW k \in 1 .. m PROVE points[cut + 1].at <= r[k].at
      OBVIOUS
    <2>1. 1 \in 1 .. m /\ (k = 1 \/ 1 < k)
      BY <1>5
    <2>2. r[1].at = points[cut + 1].at /\ r[1].at \in Int /\ r[k].at \in Int
      BY <1>5, <1>7, <2>1
    <2>3. k = 1 \/ r[1].at < r[k].at
      BY <1>5, <2>1
    <2> QED BY <2>2, <2>3
  <1>10. ASSUME NEW i \in 1 .. (l + m), NEW j \in 1 .. (l + m), i < j
         PROVE  z[i].at < z[j].at
    <2>1. CASE i \in 1 .. l /\ j \in 1 .. l
      BY <1>4, <1>6, <1>10, <2>1
    <2>2. CASE i \in 1 .. l /\ j \notin 1 .. l
      <3>1. j - l \in 1 .. m /\ l + (j - l) = j
        BY <1>8, <2>2
      <3>2. z[j] = r[j - l] /\ z[i] = q[i]
        BY <1>6, <2>2, <3>1
      <3>3. points[cut + 1].at <= r[j - l].at /\ r[j - l].at \in Int
        BY <1>5, <1>9, <3>1
      <3>4. q[i].at <= points[cut].at /\ q[i].at \in Int
        BY <1>4, <1>7, <2>2
      <3>5. points[cut].at \in Int /\ points[cut + 1].at \in Int
        BY <1>1, <1>2
      <3> QED BY <1>7, <3>2, <3>3, <3>4, <3>5
    <2>3. CASE i \notin 1 .. l
      <3>1. /\ i - l \in 1 .. m /\ l + (i - l) = i
            /\ j - l \in 1 .. m /\ l + (j - l) = j /\ i - l < j - l
        BY <1>4, <1>8, <1>10, <2>3
      <3>2. z[i] = r[i - l] /\ z[j] = r[j - l]
        BY <1>6, <3>1
      <3> QED BY <1>5, <3>1, <3>2
    <2> QED BY <2>1, <2>2, <2>3
  <1>11. Chronological(z)
    BY <1>6, <1>10 DEF Chronological, Ordered
  <1>12. z # <<>> /\ z[1] = points[1]
    <2>1. 1 \in 1 .. l /\ 1 \in 1 .. (l + m)
      BY <1>4, <1>5
    <2> QED BY <1>4, <1>6, <1>7, <2>1
  <1>13. ASSUME NEW k \in 1 .. (l + m) PROVE z[k].at <= points[n].at
    <2>0. points[n].at \in Int /\ points[cut].at \in Int
      BY <1>1, <1>2
    <2>1. CASE k \in 1 .. l
      <3>1. z[k].at \in Int /\ z[k].at <= points[cut].at
        BY <1>4, <1>6, <1>7, <2>1
      <3> QED BY <1>7, <2>0, <3>1
    <2>2. CASE k \notin 1 .. l
      <3>1. k - l \in 1 .. m /\ l + (k - l) = k
        BY <1>8, <2>2
      <3> QED BY <1>5, <1>6, <1>7, <3>1
    <2> QED BY <2>1, <2>2
  <1>14. ASSUME NEW j \in 1 .. n PROVE InIntervalOf(z, points, n, j)
    <2>1. CASE j <= cut
      <3>1. j \in 1 .. cut /\ j < n /\ j + 1 \in 1 .. n /\ b[j] = points[j] /\ j + 1 <= cut + 1
        BY <1>1, <1>2, <1>3, <2>1
      <3>2. PICK k \in 1 .. l :
               /\ q[k].at <= b[j].at /\ q[k].price = b[j].price
               /\ k < l => j < cut /\ b[j + 1].at <= q[k + 1].at
        BY <1>4, <3>1 DEF InIntervalOf, l
      <3>3. k \in 1 .. (l + m) /\ z[k] = q[k] /\ l \in Nat
        BY <1>4, <1>5, <1>6
      <3>4. points[j + 1].at <= z[k + 1].at
        <4>1. CASE k < l
          <5>1. k + 1 \in 1 .. l
            BY <3>3, <4>1
          <5>2. j + 1 \in 1 .. cut
            BY <1>2, <3>1, <3>2, <4>1
          <5>3. b[j + 1] = points[j + 1] /\ z[k + 1] = q[k + 1]
            BY <1>3, <1>6, <5>1, <5>2
          <5> QED BY <3>2, <4>1, <5>3
        <4>2. CASE ~(k < l)
          <5>1. k = l /\ 1 \in 1 .. m
            BY <1>5, <3>3, <4>2
          <5>2. z[k + 1] = points[cut + 1]
            BY <1>5, <1>6, <1>7, <5>1
          <5>3. j + 1 = cut + 1 \/ points[j + 1].at < points[cut + 1].at
            BY <1>1, <1>2, <3>1
          <5>4. points[j + 1].at \in Int /\ points[cut + 1].at \in Int
            BY <1>1, <1>2, <3>1
          <5> QED BY <5>2, <5>3, <5>4
        <4> QED BY <4>1, <4>2
      <3> QED BY <1>6, <3>1, <3>2, <3>3, <3>4 DEF InIntervalOf
    <2>2. CASE ~(j <= cut)
      <3> DEFINE i == j - cut
      <3>1. i \in 1 .. d /\ cut + i = j
        BY <1>1, <1>2, <2>2 DEF d
      <3> HIDE DEF i
      <3>2. a[i] = points[j]
        BY <1>3, <3>1
      <3>3. PICK k \in 1 .. m :
               /\ r[k].at <= a[i].at /\ r[k].price = a[i].price
               /\ k < m => i < d /\ a[i + 1].at <= r[k + 1].at
        BY <1>5, <3>1 DEF InIntervalOf, m
      <3>4. l + k \in 1 .. (l + m) /\ z[l + k] = r[k]
        BY <1>4, <1>5, <1>6
      <3>5. ASSUME l + k < l + m PROVE j < n /\ points[j + 1].at <= z[(l + k) + 1].at
        <4>1. k < m /\ k + 1 \in 1 .. m /\ l + (k + 1) = (l + k) + 1
          BY <1>4, <1>5, <3>5
        <4>2. i + 1 \in 1 .. d /\ cut + (i + 1) = j + 1 /\ i < d
          BY <1>2, <3>1, <3>3, <4>1
        <4>3. j < n
          BY <1>1, <1>2, <3>1, <4>2 DEF d
        <4>4. a[i + 1] = points[j + 1] /\ z[(l + k) + 1] = r[k + 1]
          BY <1>3, <1>6, <4>1, <4>2
        <4> QED BY <3>3, <4>1, <4>3, <4>4
      <3> QED BY <1>6, <3>2, <3>3, <3>4, <3>5 DEF InIntervalOf
    <2> QED BY <2>1, <2>2
  <1>15. n > 0 /\ n # 0
    BY <1>2
  <1> QED BY <1>6, <1>11, <1>12, <1>13, <1>14, <1>15 DEF Thinned, z, n

-----------------------------------------------------------------------------
(* A period of ENTSO-E.                                                    *)

Lengths == {1, 2, 4}
LEMMA ResolutionLengths ==
    ASSUME NEW x \in DOMAIN Resolutions
    PROVE  Resolutions[x] \in Lengths
  BY DEF Resolutions, Lengths

PositionPoints == [position : Int, price : Int]
Written(points, length, i) ==
    [position |-> (points[i].at - points[1].at) \div length + 1, price |-> points[i].price]
Read(start, length, w) ==
    [at |-> start + (w.position - 1) * length, price |-> w.price]
Repeats(points, i) == ~(i = 1 \/ points[i].price # points[i - 1].price)

(* The loop that writes a period.                                          *)
KeptValues(f, points, length) ==
    /\ f[0] = <<>>
    /\ \A i \in 1 .. Len(points) :
          f[i] = IF Repeats(points, i) THEN f[i - 1]
                 ELSE Append(f[i - 1], Written(points, length, i))

LEMMA WrittenIsRead ==
    ASSUME NEW points, Chronological(points), NEW length \in Lengths, NEW i \in 1 .. Len(points),
           (points[i].at - points[1].at) % length = 0
    PROVE  /\ Written(points, length, i) \in PositionPoints
           /\ Read(points[1].at, length, Written(points, length, i)) = points[i]
  <1> DEFINE x == points[i].at
             y == points[1].at
             pos == (x - y) \div length + 1
  <1>1. /\ x \in Int /\ y \in Int /\ points[i].price \in Int
        /\ points[i] = [at |-> x, price |-> points[i].price]
    <2>1. Len(points) \in Nat /\ \A k \in 1 .. Len(points) :
             points[k].at \in Int /\ points[k].price \in Int
             /\ points[k] = [at |-> points[k].at, price |-> points[k].price]
      BY PointsTyped
    <2>2. 1 \in 1 .. Len(points)
      BY <2>1
    <2> QED BY <2>1, <2>2
  <1>2. pos \in Int /\ y + (pos - 1) * length = x
    <2>1. (x - y) % length = 0 /\ x - y \in Int
      BY <1>1
    <2> HIDE DEF x, y
    <2>2. CASE length = 1
      BY <1>1, <2>1, <2>2
    <2>3. CASE length = 2
      BY <1>1, <2>1, <2>3
    <2>4. CASE length = 4
      BY <1>1, <2>1, <2>4
    <2> QED BY <2>2, <2>3, <2>4 DEF Lengths
  <1>3. Written(points, length, i) = [position |-> pos, price |-> points[i].price]
    BY DEF Written
  <1> HIDE DEF pos
  <1>4. Written(points, length, i) \in PositionPoints
    BY <1>1, <1>2, <1>3 DEF PositionPoints
  <1>5. Read(y, length, Written(points, length, i)) = [at |-> y + (pos - 1) * length, price |-> points[i].price]
    BY <1>3 DEF Read
  <1> QED BY <1>1, <1>2, <1>4, <1>5

ReadAll(start, length, w) == [k \in DOMAIN w |-> Read(start, length, w[k])]

LEMMA ReadAppended ==
    ASSUME NEW start, NEW length, NEW w \in Seq(PositionPoints), NEW x \in PositionPoints,
           Chronological(ReadAll(start, length, w)), NEW p \in PricePoints,
           Read(start, length, x) = p
    PROVE  ReadAll(start, length, Append(w, x)) = Append(ReadAll(start, length, w), p)
  <1> DEFINE q == ReadAll(start, length, w)
             n == Len(w)
             v == Append(w, x)
  <1>1. /\ n \in Nat /\ DOMAIN w = 1 .. n /\ DOMAIN v = 1 .. (n + 1) /\ v[n + 1] = x
        /\ \A k \in 1 .. n : v[k] = w[k]
    <2> HIDE DEF PositionPoints
    <2> QED OBVIOUS
  <1>2. DOMAIN q = 1 .. n /\ \A k \in 1 .. n : q[k] = Read(start, length, w[k])
    BY <1>1 DEF ReadAll
  <1>3. ReadAll(start, length, v) = [k \in 1 .. (n + 1) |-> Read(start, length, v[k])]
    BY <1>1 DEF ReadAll
  <1> HIDE DEF q, v
  <1>4. q \in Seq(PricePoints) /\ Len(q) = n
    <2>1. q \in Seq(PricePoints)
      BY DEF Chronological, q
    <2>2. DOMAIN q = 1 .. Len(q) /\ Len(q) \in Nat
      <3> HIDE DEF PricePoints
      <3> QED BY <2>1
    <2> QED BY <1>1, <1>2, <2>1, <2>2
  <1>5. /\ Append(q, p) = [k \in 1 .. (n + 1) |-> Append(q, p)[k]]
        /\ Append(q, p)[n + 1] = p
        /\ \A k \in 1 .. n : Append(q, p)[k] = q[k]
    <2> HIDE DEF PricePoints, n
    <2>1. /\ Append(q, p) \in Seq(PricePoints) /\ Len(Append(q, p)) = n + 1
          /\ Append(q, p)[n + 1] = p
          /\ \A k \in 1 .. n : Append(q, p)[k] = q[k]
      BY <1>4
    <2> DEFINE z == Append(q, p)
    <2>2. z = [k \in 1 .. (n + 1) |-> z[k]]
      <3>1. z \in Seq(PricePoints) /\ Len(z) = n + 1
        BY <2>1
      <3> HIDE DEF z
      <3> QED BY <3>1
    <2> QED BY <2>1, <2>2
  <1>6. ASSUME NEW k \in 1 .. (n + 1) PROVE Read(start, length, v[k]) = Append(q, p)[k]
    <2>1. CASE k = n + 1
      BY <1>1, <1>5, <2>1
    <2>2. CASE k # n + 1
      <3>1. k \in 1 .. n
        BY <1>1, <2>2
      <3> QED BY <1>1, <1>2, <1>5, <3>1
    <2> QED BY <2>1, <2>2
  <1> QED BY <1>3, <1>5, <1>6 DEF q, v

(* What periodPoints reads is the thinned list.                            *)
LEMMA KeptThins ==
    ASSUME NEW points, Chronological(points), NEW length \in Lengths,
           \A i \in 1 .. Len(points) : (points[i].at - points[1].at) % length = 0,
           NEW f \in [0 .. Len(points) -> Seq(PositionPoints)], KeptValues(f, points, length)
    PROVE  Thinned(ReadAll(points[1].at, length, f[Len(points)]), points, Len(points))
  <1> DEFINE n == Len(points)
             Q(i) == ReadAll(points[1].at, length, f[i])
             S == {i \in 0 .. n : Thinned(Q(i), points, i)}
  <1>1. n \in Nat
    BY PointsTyped
  <1>2. 0 \in S
    <2>1. f[0] = <<>>
      BY DEF KeptValues
    <2>2. Q(0) = <<>>
      BY <2>1 DEF ReadAll
    <2>3. 0 \in 0 .. n
      BY <1>1
    <2> HIDE DEF Q
    <2> QED BY <2>2, <2>3, ThinnedStarts
  <1>3. ASSUME NEW i \in 0 .. n, i < n, i \in S PROVE i + 1 \in S
    <2>1. i + 1 \in 1 .. n /\ i + 1 \in 0 .. n /\ (i + 1) - 1 = i /\ f[i] \in Seq(PositionPoints)
      BY <1>1, <1>3
    <2>2. Thinned(Q(i), points, i)
      BY <1>3
    <2>3. f[i + 1] = IF Repeats(points, i + 1) THEN f[i] ELSE Append(f[i], Written(points, length, i + 1))
      BY <2>1 DEF KeptValues
    <2>4. CASE Repeats(points, i + 1)
      <3>1. i \in 1 .. n /\ points[i + 1].price = points[i].price
        BY <1>1, <2>1, <2>4 DEF Repeats
      <3>2. Q(i + 1) = Q(i)
        BY <2>3, <2>4
      <3> HIDE DEF Q
      <3>3. Thinned(Q(i), points, i + 1)
        BY <1>3, <2>2, <3>1, ThinnedLeftOut
      <3> QED BY <2>1, <3>2, <3>3
    <2>5. CASE ~Repeats(points, i + 1)
      <3> DEFINE x == Written(points, length, i + 1)
                 p == points[i + 1]
                 w == f[i]
      <3>1. f[i + 1] = Append(w, x)
        BY <2>3, <2>5
      <3>2. x \in PositionPoints /\ Read(points[1].at, length, x) = p
        BY <2>1, WrittenIsRead
      <3>3. p \in PricePoints /\ Chronological(Q(i))
        <4>1. p \in PricePoints
          <5> HIDE DEF PricePoints
          <5> QED BY <2>1 DEF Chronological
        <4> QED BY <2>2, <4>1 DEF Thinned
      <3>4. Q(i + 1) = Append(Q(i), p)
        <4> DEFINE start == points[1].at
        <4>1. Chronological(ReadAll(start, length, w)) /\ Read(start, length, x) = p
              /\ w \in Seq(PositionPoints)
          BY <2>1, <3>2, <3>3
        <4> HIDE DEF x, p, w, start
        <4>2. ReadAll(start, length, Append(w, x)) = Append(ReadAll(start, length, w), p)
          BY <3>2, <3>3, <4>1, ReadAppended
        <4> QED BY <3>1, <4>2 DEF w, start
      <3>5. Thinned(Append(Q(i), p), points, i + 1)
        <4> HIDE DEF Q
        <4> QED BY <1>3, <2>2, ThinnedWritten
      <3> HIDE DEF Q, p
      <3> QED BY <2>1, <3>4, <3>5
    <2> QED BY <2>4, <2>5
  <1>4. n \in S
    <2> HIDE DEF S
    <2>1. \A i \in 0 .. n : i \in S
      BY <1>1, <1>2, <1>3, IntervalInduction
    <2> QED BY <1>1, <2>1
  <1> QED BY <1>4

LEMMA KeptLoop ==
    ASSUME NEW points, Chronological(points), NEW resolution \in DOMAIN Resolutions,
           \A i \in 1 .. Len(points) :
              (points[i].at - points[1].at) % Resolutions[resolution] = 0
    PROVE  \E f \in [0 .. Len(points) -> Seq(PositionPoints)] :
              /\ KeptValues(f, points, Resolutions[resolution])
              /\ Period(points, resolution) =
                    [start |-> points[1].at, resolution |-> resolution, readable |-> TRUE,
                     points |-> f[Len(points)]]
  <1> DEFINE n == Len(points)
             length == Resolutions[resolution]
             W == PositionPoints
             V == Seq(W)
             x(i) == Written(points, length, i)
             Skip(i) == Repeats(points, i)
             body == [i \in 1 .. n |-> [v \in V |-> IF Skip(i) THEN v ELSE Append(v, x(i))]]
             Kept(f) == f = [i \in 0 .. n |->
                               IF i = 0 THEN <<>>
                               ELSE IF Skip(i) THEN f[i - 1] ELSE Append(f[i - 1], x(i))]
  <1>1. n \in Nat /\ length \in Lengths
    BY PointsTyped, ResolutionLengths
  <1>2. \A i \in 1 .. n : x(i) \in W
    <2> HIDE DEF length
    <2> QED BY <1>1, WrittenIsRead DEF length
  <1>3. Period(points, resolution) =
           [start |-> points[1].at, resolution |-> resolution, readable |-> TRUE,
            points |-> (CHOOSE f : Kept(f))[n]]
    <2> DEFINE Code(f) == f = [i \in 0 .. n |->
                  IF i = 0 THEN <<>>
                  ELSE IF i = 1 \/ points[i].price # points[i - 1].price
                  THEN Append(f[i - 1], x(i)) ELSE f[i - 1]]
    <2>1. Period(points, resolution) =
           [start |-> points[1].at, resolution |-> resolution, readable |-> TRUE,
            points |-> (CHOOSE f : Code(f))[n]]
      BY DEF Period, Written
    <2>2. \A f : Code(f) <=> Kept(f)
      <3> TAKE f
      <3>1. ASSUME NEW i
            PROVE  (IF i = 0 THEN <<>>
                    ELSE IF i = 1 \/ points[i].price # points[i - 1].price
                    THEN Append(f[i - 1], x(i)) ELSE f[i - 1])
                   = (IF i = 0 THEN <<>>
                      ELSE IF Skip(i) THEN f[i - 1] ELSE Append(f[i - 1], x(i)))
        BY DEF Repeats
      <3>2. [i \in 0 .. n |->
                  IF i = 0 THEN <<>>
                  ELSE IF i = 1 \/ points[i].price # points[i - 1].price
                  THEN Append(f[i - 1], x(i)) ELSE f[i - 1]]
            = [i \in 0 .. n |->
                  IF i = 0 THEN <<>>
                  ELSE IF Skip(i) THEN f[i - 1] ELSE Append(f[i - 1], x(i))]
        <4> HIDE DEF x, Skip, n
        <4> QED BY <3>1
      <3> HIDE DEF x, Skip
      <3> QED BY <3>2
    <2>3. (CHOOSE f : Code(f)) = (CHOOSE f : Kept(f))
      <3> HIDE DEF Code, Kept
      <3> QED BY <2>2
    <2> HIDE DEF Code, Kept
    <2> QED BY <2>1, <2>3
  <1> HIDE DEF x, Skip, W
  <1>4. <<>> \in V /\ body \in Bodies(n, V)
    <2>1. \A i \in 1 .. n : \A v \in V : (IF Skip(i) THEN v ELSE Append(v, x(i))) \in V
      BY <1>2
    <2> HIDE DEF V
    <2>2. body \in Bodies(n, V)
      BY <2>1 DEF Bodies
    <2> QED BY <2>2 DEF V
  <1>5. PICK f : LoopValues(n, V, <<>>, body, f)
    <2> HIDE DEF body, V, n
    <2> QED BY <1>1, <1>4, Loop
  <1>6. Kept(f)
    <2>1. f \in [0 .. n -> V] /\ f[0] = <<>> /\ \A i \in 1 .. n : f[i] = body[i][f[i - 1]]
      BY <1>5 DEF LoopValues
    <2>2. ASSUME NEW i \in 0 .. n, i # 0
          PROVE  f[i] = IF Skip(i) THEN f[i - 1] ELSE Append(f[i - 1], x(i))
      <3>1. i \in 1 .. n /\ i - 1 \in 0 .. n
        BY <1>1, <2>2
      <3>2. f[i - 1] \in V
        BY <2>1, <3>1
      <3> HIDE DEF V
      <3> QED BY <2>1, <3>1, <3>2
    <2> HIDE DEF V
    <2> QED BY <2>1, <2>2
  <1>7. PICK g : Kept(g) /\ g = CHOOSE h : Kept(h)
    BY <1>6
  <1>8. g[0] = <<>> /\ g = [i \in 0 .. n |-> g[i]]
    BY <1>1, <1>7
  <1>9. ASSUME NEW i \in 1 .. n
        PROVE  g[i] = IF Skip(i) THEN g[i - 1] ELSE Append(g[i - 1], x(i))
    <2>1. i \in 0 .. n /\ i # 0
      BY <1>1
    <2> HIDE DEF n
    <2> QED BY <1>7, <2>1
  <1>10. \A i \in 0 .. n : g[i] \in V
    <2>1. ASSUME NEW i \in 1 .. n, g[i - 1] \in V PROVE g[i] \in V
      <3>1. Append(g[i - 1], x(i)) \in V
        BY <1>2, <2>1
      <3> HIDE DEF V
      <3> QED BY <1>9, <2>1, <3>1
    <2>2. g[0] \in V
      BY <1>8
    <2> HIDE DEF n, V
    <2> QED BY <1>1, <2>1, <2>2, Rounds
  <1>11. g \in [0 .. n -> V]
    <2> HIDE DEF V
    <2> QED BY <1>8, <1>10
  <1>12. KeptValues(g, points, length)
    BY <1>8, <1>9 DEF KeptValues, Skip, x
  <1>13. Period(points, resolution) =
            [start |-> points[1].at, resolution |-> resolution, readable |-> TRUE, points |-> g[n]]
    BY <1>3, <1>7
  <1> QED BY <1>11, <1>12, <1>13 DEF W

LEMMA PeriodThins ==
    ASSUME NEW points, Chronological(points), NEW resolution \in DOMAIN Resolutions,
           FitsPeriod(points, resolution)
    PROVE  /\ Thinned(periodPoints(Period(points, resolution)), points, Len(points))
           /\ Period(points, resolution).resolution = resolution
           /\ Period(points, resolution).readable
  <1> DEFINE length == Resolutions[resolution]
             per == Period(points, resolution)
  <1>1. \A i \in 1 .. Len(points) : (points[i].at - points[1].at) % length = 0
    <2>1. DOMAIN points = 1 .. Len(points)
      BY PointsTyped
    <2> QED BY <2>1 DEF FitsPeriod
  <1>2. PICK f \in [0 .. Len(points) -> Seq(PositionPoints)] :
           /\ KeptValues(f, points, length)
           /\ per = [start |-> points[1].at, resolution |-> resolution, readable |-> TRUE,
                     points |-> f[Len(points)]]
    BY <1>1, KeptLoop
  <1> HIDE DEF per
  <1>3. /\ per.start = points[1].at /\ per.resolution = resolution /\ per.readable
        /\ per.points = f[Len(points)]
    BY <1>2
  <1>4. periodPoints(per) = ReadAll(points[1].at, length, f[Len(points)])
    BY <1>3 DEF periodPoints, ReadAll, Read
  <1>5. length \in Lengths
    BY ResolutionLengths
  <1> HIDE DEF length
  <1>6. Thinned(ReadAll(points[1].at, length, f[Len(points)]), points, Len(points))
    BY <1>1, <1>2, <1>5, KeptThins
  <1> QED BY <1>3, <1>4, <1>6 DEF per

-----------------------------------------------------------------------------
(* A document of two periods.                                              *)

LEMMA FlattenOne ==
    ASSUME NEW a
    PROVE  FlattenSeq(<<a>>) = a
  <1> DEFINE Flat(f) == f = [i \in 1 .. 1 |-> IF i = 1 THEN <<a>>[i] ELSE f[i - 1] \o <<a>>[i]]
             one == [i \in 1 .. 1 |-> a]
  <1>1. Flat(one)
    OBVIOUS
  <1>2. PICK g : Flat(g) /\ g = CHOOSE h : Flat(h)
    BY <1>1
  <1>3. g[1] = a
    BY <1>2
  <1>4. FlattenSeq(<<a>>) = (CHOOSE h : Flat(h))[1]
    BY DEF FlattenSeq
  <1> QED BY <1>2, <1>3, <1>4

LEMMA FlattenTwo ==
    ASSUME NEW a, NEW b
    PROVE  FlattenSeq(<<a, b>>) = a \o b
  <1> DEFINE s == <<a, b>>
             Flat(f) == f = [i \in 1 .. 2 |-> IF i = 1 THEN s[i] ELSE f[i - 1] \o s[i]]
             two == [i \in 1 .. 2 |-> IF i = 1 THEN a ELSE a \o b]
  <1>1. s[1] = a /\ s[2] = b /\ Len(s) = 2
    OBVIOUS
  <1> HIDE DEF s
  <1>2. Flat(two)
    <2>1. two[1] = a /\ two[2] = a \o b
      OBVIOUS
    <2>2. \A i \in 1 .. 2 : i = 1 \/ i = 2
      OBVIOUS
    <2>3. \A i \in 1 .. 2 : two[i] = IF i = 1 THEN s[i] ELSE two[i - 1] \o s[i]
      <3> HIDE DEF two
      <3>1. 2 # 1 /\ 2 - 1 = 1
        OBVIOUS
      <3>2. two[2] = two[2 - 1] \o s[2]
        BY <1>1, <2>1, <3>1
      <3>3. two[1] = s[1]
        BY <1>1, <2>1
      <3> QED BY <2>2, <3>1, <3>2, <3>3, Zenon
    <2>4. two = [i \in 1 .. 2 |-> two[i]]
      OBVIOUS
    <2> HIDE DEF two
    <2> QED BY <2>3, <2>4
  <1>3. PICK g : Flat(g) /\ g = CHOOSE h : Flat(h)
    <2> HIDE DEF two
    <2> QED BY <1>2
  <1>4. g[1] = a
    BY <1>1, <1>3
  <1>5. g[2] = g[1] \o b
    <2>1. 2 \in 1 .. 2 /\ 2 # 1 /\ 2 - 1 = 1
      OBVIOUS
    <2> QED BY <1>1, <1>3, <2>1
  <1>6. FlattenSeq(s) = (CHOOSE h : Flat(h))[2]
    BY <1>1 DEF FlattenSeq
  <1> QED BY <1>3, <1>4, <1>5, <1>6 DEF s

Readable(per) == per.resolution \in DOMAIN Resolutions /\ per.readable

LEMMA TwoPeriods ==
    ASSUME NEW p, NEW q, Readable(p), Readable(q), NEW series, FlattenSeq(series) = <<p, q>>
    PROVE  parsePublication(series) = Fetched(periodPoints(p) \o periodPoints(q))
  <1> DEFINE periods == <<p, q>>
             a == periodPoints(p)
             b == periodPoints(q)
             lists == [k \in DOMAIN periods |-> periodPoints(periods[k])]
  <1>1. DOMAIN periods = 1 .. 2 /\ periods[1] = p /\ periods[2] = q
    OBVIOUS
  <1>2. \A k \in 1 .. 2 : k = 1 \/ k = 2
    OBVIOUS
  <1> HIDE DEF periods
  <1>3. \A k \in DOMAIN periods : periods[k].resolution \in DOMAIN Resolutions /\ periods[k].readable
    BY <1>1, <1>2 DEF Readable
  <1>4. lists = <<a, b>>
    <2> HIDE DEF a, b
    <2>1. \A k \in 1 .. 2 : periodPoints(periods[k]) = <<a, b>>[k]
      BY <1>1, <1>2 DEF a, b
    <2>2. <<a, b>> = [k \in 1 .. 2 |-> <<a, b>>[k]]
      OBVIOUS
    <2> QED BY <1>1, <2>1, <2>2
  <1>5. FlattenSeq(lists) = a \o b
    BY <1>4, FlattenTwo
  <1>6. FlattenSeq(series) = periods
    BY DEF periods
  <1> QED BY <1>3, <1>5, <1>6 DEF parsePublication

LEMMA PairJoined ==
    ASSUME NEW p, NEW q
    PROVE  <<p>> \o <<q>> = <<p, q>>
  <1> DEFINE T == {p, q}
             x == <<p>>
             y == <<q>>
             w == x \o y
  <1>1. x \in Seq(T)
    OBVIOUS
  <1>2. y \in Seq(T)
    OBVIOUS
  <1>3. Len(x) = 1 /\ Len(y) = 1 /\ x[1] = p /\ y[1] = q
    OBVIOUS
  <1> HIDE DEF T, x, y
  <1>4. /\ w \in Seq(T) /\ Len(w) = Len(x) + Len(y)
        /\ \A i \in 1 .. (Len(x) + Len(y)) :
              w[i] = IF i <= Len(x) THEN x[i] ELSE y[i - Len(x)]
    BY <1>1, <1>2
  <1> HIDE DEF w
  <1>5. Len(w) = 2 /\ w[1] = p /\ w[2] = q
    BY <1>3, <1>4
  <1>6. w = [k \in 1 .. 2 |-> w[k]]
    <2>1. w \in Seq(T)
      BY <1>4
    <2>2. w = [k \in 1 .. Len(w) |-> w[k]]
      BY <2>1
    <2>3. Len(w) = 2
      BY <1>5
    <2> QED BY <2>2, <2>3
  <1>7. <<p, q>> = [k \in 1 .. 2 |-> <<p, q>>[k]]
    OBVIOUS
  <1>8. \A k \in 1 .. 2 : w[k] = <<p, q>>[k]
    <2>1. \A k \in 1 .. 2 : k = 1 \/ k = 2
      OBVIOUS
    <2> QED BY <1>5, <2>1
  <1> QED BY <1>6, <1>7, <1>8 DEF w, x, y

LEMMA OneSeriesOrTwo ==
    ASSUME NEW p, NEW q
    PROVE  LET document == <<<<p, q>>>>
           IN  FlattenSeq(document) = <<p, q>> /\ FlattenSeq(Split(document)) = <<p, q>>
  <1> DEFINE document == <<<<p, q>>>>
             d == <<p, q>>
  <1>1. document[1] = d /\ DOMAIN d = 1 .. 2 /\ d[1] = p /\ d[2] = q
    OBVIOUS
  <1>2. Split(document) = [k \in 1 .. 2 |-> <<d[k]>>]
    BY <1>1 DEF Split
  <1>3. Split(document) = <<<<p>>, <<q>>>>
    <2>1. \A k \in 1 .. 2 : k = 1 \/ k = 2
      OBVIOUS
    <2> DEFINE a == <<p>>
               b == <<q>>
    <2> HIDE DEF d, document
    <2>2. \A k \in 1 .. 2 : <<d[k]>> = <<a, b>>[k]
      BY <1>1, <2>1
    <2> HIDE DEF a, b
    <2>3. <<a, b>> = [k \in 1 .. 2 |-> <<a, b>>[k]]
      OBVIOUS
    <2> QED BY <1>2, <2>2, <2>3 DEF a, b
  <1>4. <<p>> \o <<q>> = <<p, q>>
    BY PairJoined
  <1>5. FlattenSeq(document) = d
    BY FlattenOne
  <1>6. FlattenSeq(Split(document)) = <<p>> \o <<q>>
    BY <1>3, FlattenTwo
  <1> QED BY <1>4, <1>5, <1>6

LEMMA PublishedInOrder ==
    ASSUME Chronological(list), NEW document \in Publications
    PROVE  LET one == entsoeFetchPrices(Document(document))
               two == entsoeFetchPrices(Document(Split(document)))
           IN  one = two /\ ~one.err /\ Ordered(one.points) /\ SamePrices(one.points, list)
  <1>1. PICK cut \in 0 .. Len(list), z \in (DOMAIN Resolutions) \X (DOMAIN Resolutions) :
           /\ FitsPeriod(Before(list, cut), z[1]) /\ FitsPeriod(After(list, cut), z[2])
           /\ document = <<<<Period(Before(list, cut), z[1]), Period(After(list, cut), z[2])>>>>
    BY DEF Publications, Before, After
  <1> DEFINE n == Len(list)
             before == Before(list, cut)
             after == After(list, cut)
             p == Period(before, z[1])
             q == Period(after, z[2])
             points == periodPoints(p) \o periodPoints(q)
  <1>2. n \in Nat
    BY PointsTyped
  <1>3. /\ Chronological(before) /\ Len(before) = cut
        /\ Chronological(after) /\ Len(after) = n - cut
    BY CutInTwo
  <1>4. before # <<>> /\ after # <<>> /\ z[1] \in DOMAIN Resolutions /\ z[2] \in DOMAIN Resolutions
    BY <1>1 DEF FitsPeriod
  <1>5. cut \in 1 .. (n - 1)
    <2>1. (before = <<>>) = (Len(before) = 0) /\ (after = <<>>) = (Len(after) = 0)
      BY <1>3, PointsTyped
    <2>2. cut # 0 /\ n - cut # 0
      <3> HIDE DEF before, after, n
      <3> QED BY <1>3, <1>4, <2>1
    <2> QED BY <1>2, <2>2
  <1>6. Thinned(periodPoints(p), before, cut) /\ Readable(p)
    <2> HIDE DEF before
    <2>1. Thinned(periodPoints(p), before, Len(before)) /\ p.resolution = z[1] /\ p.readable
      BY <1>1, <1>3, <1>4, PeriodThins DEF before
    <2> QED BY <1>3, <1>4, <2>1 DEF Readable
  <1>7. Thinned(periodPoints(q), after, n - cut) /\ Readable(q)
    <2> HIDE DEF after
    <2>1. Thinned(periodPoints(q), after, Len(after)) /\ q.resolution = z[2] /\ q.readable
      BY <1>1, <1>3, <1>4, PeriodThins DEF after
    <2> QED BY <1>3, <1>4, <2>1 DEF Readable
  <1>8. Thinned(points, list, n)
    <2> DEFINE x == periodPoints(p)
               y == periodPoints(q)
    <2>1. Thinned(x, Before(list, cut), cut) /\ Thinned(y, After(list, cut), Len(list) - cut)
      BY <1>6, <1>7
    <2> HIDE DEF x, y
    <2>2. Thinned(x \o y, list, Len(list))
      BY <1>5, <2>1, ThinnedJoined
    <2> QED BY <2>2 DEF x, y
  <1> HIDE DEF p, q
  <1>9. /\ document = <<<<p, q>>>>
        /\ FlattenSeq(document) = <<p, q>> /\ FlattenSeq(Split(document)) = <<p, q>>
    <2>1. document = <<<<p, q>>>>
      BY <1>1 DEF p, q
    <2> QED BY <2>1, OneSeriesOrTwo
  <1>10. parsePublication(document) = Fetched(points) /\ parsePublication(Split(document)) = Fetched(points)
    BY <1>6, <1>7, <1>9, TwoPeriods
  <1>11. \A series : entsoeFetchPrices(Document(series)) = parsePublication(series)
    BY DEF entsoeFetchPrices, Document
  <1>12. list # <<>>
    <2>1. (list = <<>>) = (n = 0)
      BY PointsTyped
    <2>2. n # 0
      BY <1>2, <1>5
    <2> QED BY <2>1, <2>2
  <1> HIDE DEF points
  <1>13. Ordered(points) /\ SamePrices(points, list)
    BY <1>8, <1>12, ThinnedSamePrices
  <1>14. ~Fetched(points).err /\ Fetched(points).points = points
    BY DEF Fetched
  <1> QED BY <1>10, <1>11, <1>13, <1>14

-----------------------------------------------------------------------------
(* The two days of enever.                                                 *)

LEMMA DayReturned ==
    ASSUME NEW points
    PROVE  fetchDay(Answer(Items(points))) = Fetched(PerMWh(points))
  <1>1. Answer(Items(points)).ok /\ Answer(Items(points)).items = Items(points)
    BY DEF Answer
  <1> QED BY <1>1, ItemsScaled DEF fetchDay, convertData, PerMWh

LEMMA ScaledApart ==
    ASSUME NEW points, Chronological(points), NEW cut \in 0 .. Len(points)
    PROVE  PerMWh(Before(points, cut)) \o PerMWh(After(points, cut)) = PerMWh(points)
  <1> DEFINE n == Len(points)
             b == Before(points, cut)
             a == After(points, cut)
             d == n - cut
             F(p) == Point(p, KWhPerMWh)
             z == PerMWh(b) \o PerMWh(a)
  <1>1. n \in Nat /\ KWhPerMWh \in Int
    BY PointsTyped DEF KWhPerMWh
  <1>2. /\ Chronological(b) /\ Len(b) = cut /\ \A i \in 1 .. cut : b[i] = points[i]
        /\ Chronological(a) /\ Len(a) = d /\ \A i \in 1 .. d : a[i] = points[cut + i]
    BY CutInTwo
  <1>3. DOMAIN points = 1 .. n /\ DOMAIN b = 1 .. cut /\ DOMAIN a = 1 .. d
    BY <1>2, PointsTyped
  <1> HIDE DEF a, b, F
  <1>4. /\ PerMWh(points) = [i \in 1 .. n |-> F(points[i])]
        /\ \A i \in 1 .. cut : PerMWh(b)[i] = F(b[i])
        /\ \A i \in 1 .. d : PerMWh(a)[i] = F(a[i])
    BY <1>3 DEF PerMWh, Points, F
  <1>5. /\ Chronological(PerMWh(b)) /\ Len(PerMWh(b)) = cut
        /\ Chronological(PerMWh(a)) /\ Len(PerMWh(a)) = d
    BY <1>1, <1>2, ScaledInOrder DEF PerMWh
  <1>6. /\ z \in Seq(PricePoints) /\ Len(z) = cut + d
        /\ \A k \in 1 .. cut : z[k] = PerMWh(b)[k]
        /\ \A k \in 1 .. d : z[cut + k] = PerMWh(a)[k]
    <2> DEFINE x == PerMWh(b)
               y == PerMWh(a)
    <2>1. Chronological(x) /\ Chronological(y) /\ Len(x) = cut /\ Len(y) = d
      BY <1>5
    <2> HIDE DEF x, y, d
    <2>2. IsJoin(x \o y, x, y)
      BY <2>1, Joined
    <2>3. z = x \o y
      BY DEF x, y
    <2> HIDE DEF z
    <2>4. /\ z \in Seq(PricePoints) /\ Len(z) = cut + d
          /\ \A k \in 1 .. cut : z[k] = x[k]
          /\ \A k \in 1 .. d : z[cut + k] = y[k]
      BY <2>1, <2>2, <2>3 DEF IsJoin
    <2> QED BY <2>4 DEF x, y
  <1>7. cut + d = n /\ cut \in Nat /\ d \in Nat
    BY <1>1
  <1> HIDE DEF z, d
  <1>8. z = [k \in 1 .. n |-> z[k]]
    <2> HIDE DEF PricePoints
    <2> QED BY <1>6, <1>7
  <1>9. ASSUME NEW k \in 1 .. n PROVE z[k] = F(points[k])
    <2>1. CASE k \in 1 .. cut
      BY <1>2, <1>4, <1>6, <2>1
    <2>2. CASE k \notin 1 .. cut
      <3> DEFINE i == k - cut
      <3>1. i \in 1 .. d /\ cut + i = k
        BY <1>1, <1>7, <2>2
      <3> HIDE DEF i
      <3> QED BY <1>2, <1>4, <1>6, <3>1
    <2> QED BY <2>1, <2>2
  <1>10. z = PerMWh(points)
    BY <1>4, <1>8, <1>9
  <1> QED BY <1>10 DEF z, a, b

(* A published document of ENTSO-E gives every moment its price though it  *)
(* leaves out the points that repeat one, whatever the resolutions and     *)
(* wherever it is cut, and the two days of enever are joined in order; a   *)
(* day that is not there yet leaves today's prices.                        *)
THEOREM AlwaysJoinedInOrder == Spec => []JoinedInOrder
  <1>1. ASSUME ListInv PROVE JoinedInOrder
    <2>1. Chronological(list)
      BY <1>1 DEF ListInv
    <2>2. \A document \in Publications :
             LET one == entsoeFetchPrices(Document(document))
                 two == entsoeFetchPrices(Document(Split(document)))
             IN  one = two /\ ~one.err /\ Ordered(one.points) /\ SamePrices(one.points, list)
      BY <2>1, PublishedInOrder
    <2>3. ASSUME NEW cut \in 0 .. Len(list)
          PROVE  LET vandaag == Answer(Items(SubSeq(list, 1, cut)))
                     morgen == Answer(Items(SubSeq(list, cut + 1, Len(list))))
                 IN  /\ eneverFetchPrices(vandaag, morgen) = Fetched(PerMWh(list))
                     /\ eneverFetchPrices(vandaag, NoAnswer) = Fetched(PerMWh(SubSeq(list, 1, cut)))
      <3> DEFINE before == Before(list, cut)
                 after == After(list, cut)
                 vandaag == Answer(Items(before))
                 morgen == Answer(Items(after))
      <3>1. fetchDay(vandaag) = Fetched(PerMWh(before)) /\ fetchDay(morgen) = Fetched(PerMWh(after))
        BY DayReturned
      <3>2. fetchDay(NoAnswer) = Failed /\ Failed.points = <<>>
        BY DEF fetchDay, NoAnswer, Failed
      <3>3. \A points : ~Fetched(points).err /\ Fetched(points).points = points
        BY DEF Fetched
      <3>4. PerMWh(before) \o PerMWh(after) = PerMWh(list)
        BY <2>1, ScaledApart
      <3>5. PerMWh(before) \o <<>> = PerMWh(before)
        <4> DEFINE q == PerMWh(before)
        <4>1. KWhPerMWh \in Int
          BY DEF KWhPerMWh
        <4>2. Chronological(before)
          BY <2>1, CutInTwo
        <4>3. q \in Seq(PricePoints)
          BY <4>1, <4>2, ScaledInOrder DEF PerMWh, Chronological
        <4> HIDE DEF q, PricePoints
        <4>4. q \o <<>> = q
          BY <4>3
        <4> QED BY <4>4 DEF q
      <3> HIDE DEF before, after, vandaag, morgen
      <3>6. eneverFetchPrices(vandaag, morgen) = Fetched(PerMWh(list))
        BY <3>1, <3>3, <3>4 DEF eneverFetchPrices
      <3>7. eneverFetchPrices(vandaag, NoAnswer) = Fetched(PerMWh(before))
        BY <3>1, <3>2, <3>3, <3>5 DEF eneverFetchPrices
      <3> QED BY <3>6, <3>7 DEF before, after, vandaag, morgen, Before, After
    <2> QED BY <2>2, <2>3 DEF JoinedInOrder
  <1> QED BY <1>1, ListAlways, PTL
====
