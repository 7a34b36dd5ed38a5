------------------------------ MODULE MCPrices ------------------------------
(***************************************************************************)
(* The way of the prices: a market publishes a list, a provider fetches it *)
(* in the form its API gives it, and the result is stored for the metrics  *)
(* and for the selection of a start.  Each part is checked against its     *)
(* definition in words, for every list of points in chronological order,   *)
(* at most MaxPoints of them, at times up to Horizon.                      *)
(***************************************************************************)
EXTENDS PriceSelection, Providers

CONSTANTS
    Horizon,    \* the times of the model are 0 .. Horizon
    Prices,     \* the prices a point may have
    MaxPoints   \* how long a published list may be

ASSUME PricesAssumption == Horizon \in Nat /\ Prices \subseteq Int /\ MaxPoints \in Nat

VARIABLE list   \* the points published so far

Init == list = <<>>

(* The market publishes a later point.                                     *)
Publish(t, p) ==
    /\ Len(list) < MaxPoints
    /\ list # <<>> => t > list[Len(list)].at
    /\ list' = Append(list, [at |-> t, price |-> p])

Next == \E t \in 0 .. Horizon, p \in Prices : Publish(t, p)
Spec == Init /\ [][Next]_list

-----------------------------------------------------------------------------
(* Reference definitions.                                                  *)

Times(prices) == {prices[i].at : i \in DOMAIN prices}

(* A point is valid until the next one starts.                             *)
PriceAt(prices, t) ==
    LET i == Max({j \in DOMAIN prices : prices[j].at <= t}) IN prices[i].price

(* The sum over the moments of a run, or the price of its only moment.     *)
Cost(prices, t, duration) ==
    LET sum[k \in 0 .. duration] ==
            IF k = 0 THEN 0 ELSE sum[k - 1] + PriceAt(prices, t + (k - 1))
    IN  IF duration <= 0 THEN PriceAt(prices, t) ELSE sum[duration]

(* A run may start at t when it ends by windowEnd and the points say what  *)
(* every moment of it costs: one at or after its end is known.             *)
MayStart(prices, t, duration, windowEnd) ==
    /\ t \in Times(prices)
    /\ t + duration <= windowEnd
    /\ duration > 0 => \E u \in Times(prices) : u >= t + duration

BestStart(prices, strategy, t, duration, windowEnd) ==
    /\ MayStart(prices, t, duration, windowEnd)
    /\ \A u \in Times(prices) :
          MayStart(prices, u, duration, windowEnd) =>
             LET a == Cost(prices, t, duration)
                 b == Cost(prices, u, duration)
             IN  ~Better(strategy, b, a) /\ (a = b => t <= u)

Windows == {w \in (0 .. Horizon) \X (0 .. Horizon) : w[1] < w[2]}

(* Selected for the window `open`..`close`, as step 10 of Reconcile does.  *)
Selected(strategy, duration, open, close) ==
    selectPricePoint(filterPricesInWindow(list, open, close), strategy, duration, close)

(* selectPricePoint by itself, on the points it is given: the start is the *)
(* earliest of the cheapest (or dearest) over the whole run and not only   *)
(* at its start, and there is none exactly when no run ends in time among  *)
(* these points, which is what pricePointScore's walk over the intervals   *)
(* and the search compute (energyawarecronjob_controller.go:478-570).      *)
SelectionIsBest ==
    \A windowEnd \in 0 .. Horizon, duration \in 0 .. Horizon, strategy \in Strategies :
       LET s == selectPricePoint(list, strategy, duration, windowEnd)
       IN  IF s = NoPoint
           THEN \A t \in Times(list) : ~MayStart(list, t, duration, windowEnd)
           ELSE BestStart(list, strategy, s.at, duration, windowEnd)

(* README.md:384: estimatedDuration is "used to pick the cheapest/highest  *)
(* average-price slot that fits", and README.md:385 asks only that the     *)
(* window is no shorter.  So every start in the window whose run ends by   *)
(* the window's end, at prices the source holds, takes part: the last slot *)
(* and a run that fills the window included.                               *)
BestOfTheWindow ==
    \A window \in Windows, duration \in 0 .. Horizon, strategy \in Strategies :
       LET s == Selected(strategy, duration, window[1], window[2])
           fits == {t \in Times(list) : window[1] <= t /\ t < window[2]
                                        /\ MayStart(list, t, duration, window[2])}
       IN  fits # {} =>
             /\ s.at \in fits
             /\ \A t \in fits : ~Better(strategy, Cost(list, t, duration),
                                          Cost(list, s.at, duration))

-----------------------------------------------------------------------------
(* The list as the APIs give it.                                           *)

Item(p) == [at |-> p.at, price |-> p.price, readable |-> TRUE]
Items(points) == [i \in DOMAIN points |-> Item(points[i])]
Answer(items) == [ok |-> TRUE, items |-> items]
NoAnswer == [ok |-> FALSE, items |-> <<>>]

PerMWh(points) == Points(points, KWhPerMWh)

(* A period that starts with its first point and leaves out a point whose  *)
(* price is that of the point before (curve type A03).                     *)
FitsPeriod(points, resolution) ==
    /\ points # <<>>
    /\ \A i \in DOMAIN points :
          (points[i].at - points[1].at) % Resolutions[resolution] = 0
Period(points, resolution) ==
    LET written(i) ==
            [position |-> (points[i].at - points[1].at) \div Resolutions[resolution] + 1,
             price |-> points[i].price]
        kept[i \in 0 .. Len(points)] ==
            IF i = 0 THEN <<>>
            ELSE IF i = 1 \/ points[i].price # points[i - 1].price
            THEN Append(kept[i - 1], written(i))
            ELSE kept[i - 1]
    IN  [start |-> points[1].at, resolution |-> resolution, readable |-> TRUE,
         points |-> kept[Len(points)]]

(* The documents that publish the list: it is cut into two periods, of one *)
(* time series or of two.                                                  *)
Publications ==
    UNION {LET before == SubSeq(list, 1, cut)
               after == SubSeq(list, cut + 1, Len(list))
           IN  {<<<<Period(before, r[1]), Period(after, r[2])>>>> : r \in
                   {z \in (DOMAIN Resolutions) \X (DOMAIN Resolutions) :
                       FitsPeriod(before, z[1]) /\ FitsPeriod(after, z[2])}}
           : cut \in 0 .. Len(list)}
Split(document) == [k \in DOMAIN document[1] |-> <<document[1][k]>>]
Document(series) == [ok |-> TRUE, acknowledgement |-> FALSE, series |-> series]

Ordered(points) == \A i, j \in DOMAIN points : i < j => points[i].at < points[j].at

(* Two lists that give every moment the same price.                        *)
SamePrices(p, q) ==
    /\ (p = <<>>) = (q = <<>>)
    /\ p # <<>> =>
          /\ p[1].at = q[1].at
          /\ \A t \in p[1].at .. Horizon : PriceAt(p, t) = PriceAt(q, t)

(* Whatever order the items come in, the custom endpoint and EnergyZero    *)
(* return the published list in its order (providers/interface.go:40), on  *)
(* which the selection and the metrics rely; EnergyZero treats an empty    *)
(* response as an error, so that it does not replace the stored prices.    *)
OrderRestored ==
    \A items \in Reordered(Items(list)) :
        /\ customFetchPrices(Answer(items)) = Fetched(list)
        /\ energyzeroFetchPrices(Answer(items)) =
              IF list = <<>> THEN Failed ELSE Fetched(PerMWh(list))

(* A published document of ENTSO-E, whose periods are in order, gives every *)
(* moment its price though it leaves out points that repeat one, and the   *)
(* two days of enever are joined in order; a day that is not there yet     *)
(* leaves today's prices (entsoe/provider.go:247-276,                      *)
(* enever/provider.go:130-152).                                            *)
JoinedInOrder ==
    /\ \A document \in Publications :
          LET one == entsoeFetchPrices(Document(document))
              two == entsoeFetchPrices(Document(Split(document)))
          IN  one = two /\ ~one.err /\ Ordered(one.points) /\ SamePrices(one.points, list)
    /\ \A cut \in 0 .. Len(list) :
          LET vandaag == Answer(Items(SubSeq(list, 1, cut)))
              morgen == Answer(Items(SubSeq(list, cut + 1, Len(list))))
          IN  /\ eneverFetchPrices(vandaag, morgen) = Fetched(PerMWh(list))
              /\ eneverFetchPrices(vandaag, NoAnswer) =
                    Fetched(PerMWh(SubSeq(list, 1, cut)))

(* From the response to the metric: the current price of the stored prices *)
(* is the published price in force, from the very start of an interval on  *)
(* (energypricesource_metrics.go:141-156, which stops at the first later   *)
(* point and so needs the order).                                          *)
CurrentPriceInForce ==
    \A items \in Reordered(Items(list)) :
      LET stored == customFetchPrices(Answer(items)).points
      IN  \A now \in 0 .. Horizon :
        LET current == currentPricePoint(stored, now)
        IN  IF \E t \in Times(list) : t <= now
            THEN current.at <= now /\ current.price = PriceAt(list, now)
            ELSE current = NoCurrentPrice
=============================================================================
