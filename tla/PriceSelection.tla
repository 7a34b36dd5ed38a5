--------------------------- MODULE PriceSelection ---------------------------
(***************************************************************************)
(* How an EnergyAwareCronJob picks its start: the price points of the      *)
(* window (filterPricesInWindow), the price of running from a point        *)
(* (pricePointScore) and the best point (selectPricePoint).                *)
(*                                                                         *)
(* A price point is [at, price]; times and prices are integers.  The code  *)
(* divides every score by estimatedDuration before it compares them; the   *)
(* scores compared always belong to the same duration, so the model        *)
(* compares the undivided, weighted sums.                                  *)
(***************************************************************************)
EXTENDS Integers, Sequences

Strategies == {"LowestPrice", "HighestPrice"}
NoPoint == [at |-> -1, price |-> 0]     \* the error return of selectPricePoint

(* The points in [earliest, latest), in their order: the i-th value of     *)
(* result is the slice after the loop looked at i points.                  *)
filterPricesInWindow(prices, earliest, latest) ==
    LET result[i \in 0 .. Len(prices)] ==
            IF i = 0 THEN <<>>
            ELSE IF earliest <= prices[i].at /\ prices[i].at < latest
            THEN Append(result[i - 1], prices[i])
            ELSE result[i - 1]
    IN  result[Len(prices)]

(* A score that did not cover the run, and its start.                      *)
Fails == [ok |-> FALSE, covered |-> 0, weighted |-> 0]
Starts == [ok |-> TRUE, covered |-> 0, weighted |-> 0]

(* Mutant: a run is priced by its first moment.                            *)
pricePointScoreAtStart(prices, s, duration, windowEnd) ==
    [ok |-> prices[s].at + duration <= windowEnd /\ s < Len(prices), covered |-> duration,
     weighted |-> prices[s].price]

(* The price of a run of the given duration that starts at point s.  The   *)
(* i-th value of walk is what the loop of pricePointScore has after it     *)
(* looked at point i: an interval ends at the next point or with the run,  *)
(* the last point has no end, and a gap or an empty interval is an error.  *)
pricePointScore(prices, s, duration, windowEnd) ==
    LET start == prices[s].at
        end == start + duration
        walk[i \in (s - 1) .. Len(prices)] ==
            IF i < s THEN Starts
            ELSE LET w == walk[i - 1]
                     from == start + w.covered
                     to == IF i = Len(prices) THEN from
                           ELSE IF prices[i + 1].at > end THEN end
                           ELSE prices[i + 1].at
                 IN  IF ~w.ok \/ w.covered >= duration THEN w
                     ELSE IF prices[i].at > from \/ to <= from THEN Fails
                     ELSE [ok |-> TRUE, covered |-> w.covered + (to - from),
                           weighted |-> w.weighted + prices[i].price * (to - from)]
        whole == walk[Len(prices)]
    IN  IF duration <= 0
        THEN [ok |-> start <= windowEnd, covered |-> 0, weighted |-> prices[s].price]
        ELSE IF end > windowEnd \/ whole.covered # duration THEN Fails
        ELSE whole

Better(strategy, a, b) == IF strategy = "HighestPrice" THEN a > b ELSE a < b

(* The first point with the best score, NoPoint when no point has one.     *)
selectPricePoint(prices, strategy, duration, windowEnd) ==
    LET score(i) == pricePointScore(prices, i, duration, windowEnd)
        best[i \in 0 .. Len(prices)] ==     \* the index selected so far, 0 for none
            IF i = 0 THEN 0
            ELSE LET b == best[i - 1]
                 IN  IF /\ score(i).ok
                        /\ b = 0 \/ Better(strategy, score(i).weighted, score(b).weighted)
                     THEN i ELSE b
    IN  IF best[Len(prices)] = 0 THEN NoPoint ELSE prices[best[Len(prices)]]
=============================================================================
