------------------------------- MODULE MCJobs -------------------------------
(* Cron occurrences early and, but for one, before the clock stops.         *)
EXTENDS EnergyAwareCronJob

(* An object that sees every occurrence, with caches in step, and one made  *)
(* before the last one, with caches that may be a version behind.           *)
MCInStep == {[created |-> 0, lag |-> 0]}
MCSetups == MCInStep \cup {[created |-> 3, lag |-> 1]}

CONSTANTS MCPolicies, MCSuspend, MCWindows, MCDeadlines

MCSpecs == {s \in [suspend : MCSuspend, policy : MCPolicies, window : MCWindows,
                   duration : {0, 1}, deadline : MCDeadlines,
                   strategy : {"LowestPrice"}] :
              s.duration = 0 <=> s.window = 0}

(* One price a unit, by a list of prices.                                   *)
Hourly(list) == [i \in DOMAIN list |-> [at |-> i - 1, price |-> list[i]]]

(* Windows at 1 and 4, or at 1 and 3, that are cheapest in their second     *)
(* unit, and a feed that stops early in the first one.                      *)
MCWholeFeed == {Hourly(<<3, 3, 1, 3, 3, 1, 3, 3>>)}
MCFeeds == {Hourly(<<3, 3, 1, 3, 1, 3, 3, 3>>), Hourly(<<3, 1>>)}

(* A feed that holds only the day, and the day is short.                    *)
MCDayFeeds == {Hourly(<<3, 1, 2, 2>>)}
=============================================================================
