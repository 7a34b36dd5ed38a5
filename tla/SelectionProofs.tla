-------------------------- MODULE SelectionProofs ---------------------------
(***************************************************************************)
(* What the loops of module PriceSelection compute, for lists of any       *)
(* length.                                                                 *)
(***************************************************************************)
EXTENDS PriceSelection, WellFoundedInduction, TLAPS

(* A set of numbers has a least one.                                       *)
LEMMA LeastNumber ==
    ASSUME NEW T, T \subseteq Nat, T # {}
    PROVE  \E m \in T : \A k \in T : m <= k
  <1>1. \E x \in T : \A y \in T : ~(<<y, x>> \in OpToRel(<, Nat))
    BY NatLessThanWellFounded, WFMin
  <1>2. PICK x \in T : \A y \in T : ~(<<y, x>> \in OpToRel(<, Nat))
    BY <1>1
  <1>3. \A y \in T : ~(y < x)
    BY <1>2 DEF OpToRel
  <1> QED BY <1>3

(* Induction along an interval, over a set instead of a predicate.         *)
LEMMA IntervalInduction ==
    ASSUME NEW n \in Nat, NEW S, 0 \in S,
           \A i \in 0 .. n : i < n /\ i \in S => i + 1 \in S
    PROVE  \A i \in 0 .. n : i \in S
  <1> SUFFICES ASSUME NEW k \in 0 .. n, k \notin S PROVE FALSE
    OBVIOUS
  <1> DEFINE T == {i \in 0 .. n : i \notin S}
  <1>1. PICK x \in T : \A y \in T : x <= y
    <2>1. T \subseteq Nat /\ T # {}
      OBVIOUS
    <2> HIDE DEF T
    <2> QED BY <2>1, LeastNumber
  <1>2. x # 0 /\ x - 1 \in 0 .. n /\ x - 1 \notin T
    BY <1>1
  <1> QED BY <1>2

(* What holds before a loop and is kept by every round holds throughout.   *)
LEMMA Rounds ==
    ASSUME NEW n \in Nat, NEW V, NEW g, g[0] \in V,
           \A i \in 1 .. n : g[i - 1] \in V => g[i] \in V
    PROVE  \A i \in 0 .. n : g[i] \in V
  <1> DEFINE S == {i \in 0 .. n : g[i] \in V}
  <1>1. 0 \in S /\ \A i \in 0 .. n : i < n /\ i \in S => i + 1 \in S
    OBVIOUS
  <1>2. \A i \in 0 .. n : i \in S
    <2> HIDE DEF S
    <2> QED BY <1>1, IntervalInduction
  <1> QED BY <1>2

(* A loop over n items, by the values it has after each of them.           *)
Bodies(n, V) == [1 .. n -> [V -> V]]
LoopValues(n, V, v, body, f) ==
    /\ f \in [0 .. n -> V]
    /\ f[0] = v
    /\ \A i \in 1 .. n : f[i] = body[i][f[i - 1]]

LEMMA Loop ==
    ASSUME NEW n \in Nat, NEW V, NEW v \in V, NEW body \in Bodies(n, V)
    PROVE  \E f : LoopValues(n, V, v, body, f)
  <1> DEFINE S == {m \in 0 .. n : \E f : LoopValues(m, V, v, body, f)}
  <1>1. 0 \in S
    <2>1. LoopValues(0, V, v, body, [i \in 0 .. 0 |-> v])
      BY DEF LoopValues
    <2> QED BY <2>1
  <1>2. ASSUME NEW m \in 0 .. n, m < n, m \in S PROVE m + 1 \in S
    <2>1. PICK f : LoopValues(m, V, v, body, f)
      BY <1>2
    <2> DEFINE g == [i \in 0 .. (m + 1) |-> IF i = m + 1 THEN body[m + 1][f[m]] ELSE f[i]]
    <2>2. body[m + 1] \in [V -> V] /\ f[m] \in V
      BY <1>2, <2>1 DEF LoopValues, Bodies
    <2>3. g \in [0 .. (m + 1) -> V] /\ g[0] = v
      BY <2>1, <2>2 DEF LoopValues
    <2>4. ASSUME NEW i \in 1 .. (m + 1) PROVE g[i] = body[i][g[i - 1]]
      <3>1. CASE i = m + 1
        BY <3>1
      <3>2. CASE i # m + 1
        <4>1. i \in 1 .. m
          BY <3>2
        <4>2. g[i] = f[i] /\ g[i - 1] = f[i - 1]
          BY <4>1
        <4> QED BY <2>1, <4>1, <4>2 DEF LoopValues
      <3> QED BY <3>1, <3>2
    <2>5. LoopValues(m + 1, V, v, body, g)
      <3> HIDE DEF g
      <3> QED BY <2>3, <2>4 DEF LoopValues
    <2> QED BY <1>2, <2>5
  <1>3. n \in S
    <2> HIDE DEF S
    <2>1. \A i \in 0 .. n : i < n /\ i \in S => i + 1 \in S
      BY <1>2
    <2>2. \A i \in 0 .. n : i \in S
      BY <1>1, <2>1, IntervalInduction
    <2> QED BY <2>2
  <1> QED BY <1>3

(* The loop of filterPricesInWindow.                                       *)
FilterValues(f, prices, earliest, latest) ==
    /\ filterPricesInWindow(prices, earliest, latest) = f[Len(prices)]
    /\ f[0] = <<>>
    /\ \A i \in 1 .. Len(prices) :
          f[i] = IF earliest <= prices[i].at /\ prices[i].at < latest
                 THEN Append(f[i - 1], prices[i]) ELSE f[i - 1]

LEMMA FilterLoop ==
    ASSUME NEW P, NEW prices \in Seq(P), NEW earliest, NEW latest
    PROVE  \E f \in [0 .. Len(prices) -> Seq(P)] : FilterValues(f, prices, earliest, latest)
  <1> DEFINE n == Len(prices)
             V == Seq(P)
             In(i) == earliest <= prices[i].at /\ prices[i].at < latest
             body == [i \in 1 .. n |-> [r \in V |->
                        IF In(i) THEN Append(r, prices[i]) ELSE r]]
             Result(f) == f = [i \in 0 .. n |->
                                IF i = 0 THEN <<>>
                                ELSE IF In(i) THEN Append(f[i - 1], prices[i]) ELSE f[i - 1]]
  <1>1. n \in Nat /\ <<>> \in V /\ body \in Bodies(n, V)
    BY DEF Bodies
  <1>2. PICK f : LoopValues(n, V, <<>>, body, f)
    <2> HIDE DEF body, n, V
    <2> QED BY <1>1, Loop
  <1>3. Result(f)
    <2>1. f \in [0 .. n -> V] /\ f[0] = <<>> /\ \A i \in 1 .. n : f[i] = body[i][f[i - 1]]
      BY <1>2 DEF LoopValues
    <2>2. ASSUME NEW i \in 0 .. n, i # 0
          PROVE  f[i] = IF In(i) THEN Append(f[i - 1], prices[i]) ELSE f[i - 1]
      <3>1. i \in 1 .. n /\ i - 1 \in 0 .. n
        BY <1>1, <2>2
      <3>2. f[i - 1] \in V
        BY <2>1, <3>1
      <3> QED BY <2>1, <3>1, <3>2
    <2> QED BY <2>1, <2>2
  <1>4. filterPricesInWindow(prices, earliest, latest) = (CHOOSE g : Result(g))[n]
    BY DEF filterPricesInWindow
  <1>5. PICK g : Result(g) /\ g = CHOOSE h : Result(h)
    BY <1>3
  <1>6. g[0] = <<>> /\ DOMAIN g = 0 .. n
    BY <1>1, <1>5
  <1>7. ASSUME NEW i \in 1 .. n
        PROVE  g[i] = IF In(i) THEN Append(g[i - 1], prices[i]) ELSE g[i - 1]
    <2>1. i \in 0 .. n /\ i # 0
      BY <1>1
    <2> HIDE DEF In, n
    <2> QED BY <1>5, <2>1
  <1>8. \A i \in 0 .. n : g[i] \in V
    <2>1. ASSUME NEW i \in 1 .. n, g[i - 1] \in V PROVE g[i] \in V
      <3>1. prices[i] \in P
        OBVIOUS
      <3>2. Append(g[i - 1], prices[i]) \in V
        BY <2>1, <3>1
      <3> HIDE DEF In, V
      <3> QED BY <1>7, <2>1, <3>2
    <2>2. g[0] \in V
      BY <1>6
    <2> HIDE DEF n, V
    <2> QED BY <1>1, <2>1, <2>2, Rounds
  <1>9. g \in [0 .. n -> V]
    BY <1>5, <1>8
  <1> QED BY <1>4, <1>5, <1>6, <1>7, <1>9 DEF FilterValues

(* Only points of the window pass the filter.                              *)
LEMMA FilterInWindow ==
    ASSUME NEW P, NEW prices \in Seq(P), NEW earliest, NEW latest
    PROVE  LET result == filterPricesInWindow(prices, earliest, latest)
           IN  /\ result \in Seq(P)
               /\ \A k \in DOMAIN result : earliest <= result[k].at /\ result[k].at < latest
  <1> DEFINE n == Len(prices)
             Inside(p) == earliest <= p.at /\ p.at < latest
             V == {r \in Seq(P) : \A k \in DOMAIN r : Inside(r[k])}
  <1>1. PICK f \in [0 .. n -> Seq(P)] :
           /\ filterPricesInWindow(prices, earliest, latest) = f[n]
           /\ f[0] = <<>>
           /\ \A i \in 1 .. n :
                 f[i] = IF Inside(prices[i]) THEN Append(f[i - 1], prices[i]) ELSE f[i - 1]
    BY FilterLoop DEF FilterValues
  <1>2. n \in Nat
    OBVIOUS
  <1>3. f[0] \in V
    BY <1>1
  <1>4. ASSUME NEW i \in 1 .. n, f[i - 1] \in V PROVE f[i] \in V
    <2>1. CASE Inside(prices[i])
      <3> DEFINE r == f[i - 1]
      <3>1. r \in Seq(P) /\ \A k \in DOMAIN r : Inside(r[k])
        BY <1>4
      <3>2. prices[i] \in P
        OBVIOUS
      <3>3. f[i] = Append(r, prices[i])
        <4> HIDE DEF Inside, n
        <4> QED BY <1>1, <2>1
      <3> HIDE DEF r, Inside
      <3>4. Append(r, prices[i]) \in Seq(P)
            /\ \A k \in DOMAIN Append(r, prices[i]) : Inside(Append(r, prices[i])[k])
        BY <2>1, <3>1, <3>2
      <3> QED BY <3>3, <3>4
    <2>2. CASE ~Inside(prices[i])
      <3> HIDE DEF Inside, V
      <3> QED BY <1>1, <1>4, <2>2
    <2> QED BY <2>1, <2>2
  <1>5. \A i \in 0 .. n : f[i] \in V
    <2> HIDE DEF V, n
    <2> QED BY <1>2, <1>3, <1>4, Rounds
  <1>6. f[n] \in V
    BY <1>2, <1>5
  <1> QED BY <1>1, <1>6

(* The loop of selectPricePoint: point i takes the place of point b.       *)
Wins(prices, strategy, duration, windowEnd, i, b) ==
    /\ pricePointScore(prices, i, duration, windowEnd).ok
    /\ \/ b = 0
       \/ Better(strategy, pricePointScore(prices, i, duration, windowEnd).weighted,
                 pricePointScore(prices, b, duration, windowEnd).weighted)

SelectValues(f, prices, strategy, duration, windowEnd) ==
    /\ selectPricePoint(prices, strategy, duration, windowEnd) =
          IF f[Len(prices)] = 0 THEN NoPoint ELSE prices[f[Len(prices)]]
    /\ f[0] = 0
    /\ \A i \in 1 .. Len(prices) :
          f[i] = IF Wins(prices, strategy, duration, windowEnd, i, f[i - 1])
                 THEN i ELSE f[i - 1]

LEMMA SelectLoop ==
    ASSUME NEW P, NEW prices \in Seq(P), NEW strategy, NEW duration, NEW windowEnd
    PROVE  \E f \in [0 .. Len(prices) -> Nat] :
              SelectValues(f, prices, strategy, duration, windowEnd)
  <1> DEFINE n == Len(prices)
             Win(i, b) == Wins(prices, strategy, duration, windowEnd, i, b)
             body == [i \in 1 .. n |-> [b \in Nat |-> IF Win(i, b) THEN i ELSE b]]
             Best(f) == f = [i \in 0 .. n |->
                                IF i = 0 THEN 0
                                ELSE IF Win(i, f[i - 1]) THEN i ELSE f[i - 1]]
  <1>1. n \in Nat /\ body \in Bodies(n, Nat)
    <2> HIDE DEF Win
    <2> QED BY DEF Bodies
  <1>2. PICK f : LoopValues(n, Nat, 0, body, f)
    <2> HIDE DEF body, n
    <2> QED BY <1>1, Loop
  <1>3. Best(f)
    <2>1. f \in [0 .. n -> Nat] /\ f[0] = 0 /\ \A i \in 1 .. n : f[i] = body[i][f[i - 1]]
      BY <1>2 DEF LoopValues
    <2>2. ASSUME NEW i \in 0 .. n, i # 0
          PROVE  f[i] = IF Win(i, f[i - 1]) THEN i ELSE f[i - 1]
      <3>1. i \in 1 .. n /\ i - 1 \in 0 .. n
        BY <1>1, <2>2
      <3>2. f[i - 1] \in Nat
        BY <2>1, <3>1
      <3> HIDE DEF Win, n
      <3> QED BY <2>1, <3>1, <3>2
    <2> HIDE DEF Win
    <2> QED BY <2>1, <2>2
  <1>4. selectPricePoint(prices, strategy, duration, windowEnd) =
           LET b == (CHOOSE g : Best(g))[n] IN IF b = 0 THEN NoPoint ELSE prices[b]
    BY DEF selectPricePoint, Wins
  <1>5. PICK g : Best(g) /\ g = CHOOSE h : Best(h)
    BY <1>3
  <1> HIDE DEF Win
  <1>6. g[0] = 0 /\ DOMAIN g = 0 .. n
    BY <1>1, <1>5
  <1>7. ASSUME NEW i \in 1 .. n
        PROVE  g[i] = IF Win(i, g[i - 1]) THEN i ELSE g[i - 1]
    <2>1. i \in 0 .. n /\ i # 0
      BY <1>1
    <2> HIDE DEF n
    <2> QED BY <1>5, <2>1
  <1>8. \A i \in 0 .. n : g[i] \in Nat
    <2> DEFINE V == Nat
    <2>1. ASSUME NEW i \in 1 .. n, g[i - 1] \in V PROVE g[i] \in V
      BY <1>7, <2>1
    <2>2. g[0] \in V
      BY <1>6
    <2>3. \A i \in 0 .. n : g[i] \in V
      <3> HIDE DEF n, V
      <3> QED BY <1>1, <2>1, <2>2, Rounds
    <2> QED BY <2>3
  <1>9. g \in [0 .. n -> Nat]
    BY <1>5, <1>8
  <1> QED BY <1>4, <1>5, <1>6, <1>7, <1>9 DEF SelectValues, Win

(* The selected point is one of the points.                                *)
LEMMA SelectsAPoint ==
    ASSUME NEW P, NEW prices \in Seq(P), NEW strategy, NEW duration, NEW windowEnd
    PROVE  LET p == selectPricePoint(prices, strategy, duration, windowEnd)
           IN  p # NoPoint => \E i \in DOMAIN prices : p = prices[i]
  <1> DEFINE n == Len(prices)
             Win(i, b) == Wins(prices, strategy, duration, windowEnd, i, b)
             V == 0 .. n
  <1>1. PICK f \in [0 .. n -> Nat] :
           /\ selectPricePoint(prices, strategy, duration, windowEnd) =
                 IF f[n] = 0 THEN NoPoint ELSE prices[f[n]]
           /\ f[0] = 0
           /\ \A i \in 1 .. n : f[i] = IF Win(i, f[i - 1]) THEN i ELSE f[i - 1]
    BY SelectLoop DEF SelectValues
  <1> HIDE DEF Win
  <1>2. n \in Nat /\ f[0] \in V
    BY <1>1
  <1>3. ASSUME NEW i \in 1 .. n, f[i - 1] \in V PROVE f[i] \in V
    BY <1>1, <1>3
  <1>4. \A i \in 0 .. n : f[i] \in V
    <2> HIDE DEF n, V
    <2> QED BY <1>2, <1>3, Rounds
  <1>5. f[n] \in 0 .. n
    BY <1>2, <1>4
  <1> QED BY <1>1, <1>5
====
