----------------------------- MODULE MCWindows ------------------------------
(* Days of six units; UTC, a zone ahead of it and a zone behind it whose    *)
(* clocks change.  One window with any times, or two that may overlap,      *)
(* touch or lie in different zones; a zone may be misspelt.                 *)
EXTENDS AvailabilityWindows

CONSTANTS MCShifts      \* when the clocks may change, forward and back

MCZones ==
    {[before |-> 0, after |-> 0, shift |-> -100], [before |-> 2, after |-> 2, shift |-> -100]}
    \cup {[before |-> -1, after |-> o, shift |-> s] : o \in {-2, 0}, s \in MCShifts}

MCWindowsOn(days, froms, untils) ==
    [weekdays : days, from : froms, until : untils, zone : MCZones \cup {UnknownZone}]

MCOne == {<<w>> : w \in MCWindowsOn({{0}, {3, 4}, {0, 1, 2, 3, 4, 5, 6}}, {0, 1, 4}, {1, 4, 5})}
MCLists ==
    {<<>>} \cup MCOne
    \cup (MCWindowsOn({{3, 4}}, {1, 3}, {3, 5}) \X MCWindowsOn({{3}}, {1, 3}, {3, 5}))
=============================================================================
