------------------------------ MODULE Providers -----------------------------
(***************************************************************************)
(* What the price providers make of a response: the custom endpoint,       *)
(* EnergyZero, ENTSO-E and enever, and the current price the metrics read  *)
(* off the result.                                                         *)
(*                                                                         *)
(* A response is [ok, items]: ok when the call succeeded with status 200,  *)
(* its body is within the size limit and decodes.  An item is              *)
(* [at, price, readable]: readable when its time and its price parse.      *)
(* Prices are integers and times count quarters of an hour.                *)
(***************************************************************************)
EXTENDS Integers, Sequences, SequencesExt, FiniteSetsExt, Functions

(* What FetchPrices returns.                                               *)
Failed == [err |-> TRUE, points |-> <<>>]
Fetched(points) == [err |-> FALSE, points |-> points]

AllReadable(items) == \A i \in DOMAIN items : items[i].readable

KWhPerMWh == 1000
Point(item, factor) == [at |-> item.at, price |-> factor * item.price]
Points(items, factor) == [i \in DOMAIN items |-> Point(items[i], factor)]

(* Mutant: the items are taken in the order of the response.               *)
sortPricePointsByStartTimeNot(points) == points

(* What a sort returns: the points in an order in which the times rise,    *)
(* whichever of the orders it is when points have the same time.           *)
Reordered(s) == {[i \in DOMAIN s |-> s[f[i]]] : f \in Bijection(DOMAIN s, DOMAIN s)}
sortPricePointsByStartTime(points) ==
    CHOOSE r \in Reordered(points) :
        \A i, j \in DOMAIN r : i < j => r[i].at <= r[j].at

(* The custom endpoint: EUR/MWh, sorted.                                   *)
convertIntervals(items) ==
    IF AllReadable(items) THEN Fetched(sortPricePointsByStartTime(Points(items, 1)))
    ELSE Failed

customFetchPrices(response) ==
    IF response.ok THEN convertIntervals(response.items) ELSE Failed

(* EnergyZero: EUR/kWh, at least one item, sorted.                         *)
parseResponse(items) ==
    IF items # <<>> /\ AllReadable(items)
    THEN Fetched(sortPricePointsByStartTime(Points(items, KWhPerMWh)))
    ELSE Failed

energyzeroFetchPrices(response) ==
    IF response.ok THEN parseResponse(response.items) ELSE Failed

-----------------------------------------------------------------------------
(* ENTSO-E: time series of periods, a period a start, a resolution and     *)
(* points at positions counted from 1, in the order of the document.       *)

Resolutions == [PT15M |-> 1, PT30M |-> 2, PT60M |-> 4, PT1H |-> 4]

(* Mutant: positions are counted from 0.                                   *)
periodPointsFromZero(per) ==
    [i \in DOMAIN per.points |->
        [at |-> per.start + per.points[i].position * Resolutions[per.resolution],
         price |-> per.points[i].price]]

periodPoints(per) ==
    [i \in DOMAIN per.points |->
        [at |-> per.start + (per.points[i].position - 1) * Resolutions[per.resolution],
         price |-> per.points[i].price]]

parsePublication(series) ==
    LET periods == FlattenSeq(series)
    IN  IF \A k \in DOMAIN periods :
               periods[k].resolution \in DOMAIN Resolutions /\ periods[k].readable
        THEN Fetched(FlattenSeq([k \in DOMAIN periods |-> periodPoints(periods[k])]))
        ELSE Failed

(* An acknowledgement is an error, with status 200 as with any other.      *)
entsoeFetchPrices(response) ==
    IF response.ok /\ ~response.acknowledgement THEN parsePublication(response.series)
    ELSE Failed

-----------------------------------------------------------------------------
(* enever: one call for today, which must succeed, and one for tomorrow,   *)
(* which may fail; EUR/kWh, in the order of the responses.                 *)

convertData(items) ==
    IF AllReadable(items) THEN Fetched(Points(items, KWhPerMWh)) ELSE Failed

fetchDay(response) == IF response.ok THEN convertData(response.items) ELSE Failed

eneverFetchPrices(vandaag, morgen) ==
    IF fetchDay(vandaag).err THEN Failed
    ELSE Fetched(fetchDay(vandaag).points \o fetchDay(morgen).points)

-----------------------------------------------------------------------------
(* The current price of the metrics: the last point before the first one   *)
(* that is after now.                                                      *)

NoCurrentPrice == [at |-> -1, price |-> 0]

(* Mutant: the new price is not yet in force when it starts.               *)
currentPricePointLate(prices, now) ==
    LET later == {i \in DOMAIN prices : prices[i].at >= now}
        n == IF later = {} THEN Len(prices) ELSE Min(later) - 1
    IN  IF n = 0 THEN NoCurrentPrice ELSE prices[n]

currentPricePoint(prices, now) ==
    LET later == {i \in DOMAIN prices : prices[i].at > now}
        n == IF later = {} THEN Len(prices) ELSE Min(later) - 1
    IN  IF n = 0 THEN NoCurrentPrice ELSE prices[n]
=============================================================================
