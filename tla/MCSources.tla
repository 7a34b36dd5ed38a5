----------------------------- MODULE MCSources ------------------------------
(* Two sources with schedules apart, one whose prices expire at once and    *)
(* one that keeps them for as long as the interval of the schedule, and a   *)
(* third with a broken schedule.                                            *)
EXTENDS EnergyPriceSource

CONSTANTS a, b, c

MCOffset == [s \in Sources |-> IF s = a THEN 0 ELSE 2]
MCTTL == [s \in Sources |-> IF s = b THEN Period ELSE 0]
=============================================================================
