---------------------------- MODULE SleepAndWake ----------------------------
(***************************************************************************)
(* What hibernation promises of objects with replicas, with no policies,   *)
(* controllers, caches or patches: an object is awake and runs what it was *)
(* asked to, or it sleeps, runs less, and keeps what it will run again.    *)
(* What it keeps is something its users asked for, though not always the   *)
(* last thing: a controller that acts on an old version may bring back an  *)
(* earlier request.                                                        *)
(***************************************************************************)
EXTENDS Integers

CONSTANTS
    Objects,
    Requests    \* the replica counts a user may ask for

VARIABLES
    asked,      \* every count the users asked of each object
    asleep,     \* whether the object is hibernated
    runs,       \* the count it has
    kept        \* the count it has when it is awake

vars == <<asked, asleep, runs, kept>>

(* The count goes with the state: a sleeping object never runs as much as  *)
(* it keeps, so putting it to sleep never raises it.                       *)
Fits(sleeps, n, k) == IF sleeps THEN n < k ELSE n = k

Init ==
    /\ \E first \in [Objects -> Requests] :
          kept = first /\ asked = [o \in Objects |-> {first[o]}]
    /\ asleep \in [Objects -> BOOLEAN]
    /\ runs \in [Objects -> Nat]
    /\ \A o \in Objects : Fits(asleep[o], runs[o], kept[o])

(* Object o takes the state s, runs n and keeps k.                         *)
Becomes(o, s, n, k) ==
    /\ Fits(s, n, k)
    /\ asleep' = [asleep EXCEPT ![o] = s]
    /\ runs' = [runs EXCEPT ![o] = n]
    /\ kept' = [kept EXCEPT ![o] = k]

(* A user asks for another count, of an object that is awake.              *)
Ask(o) ==
    /\ ~asleep[o]
    /\ \E k \in Requests :
          /\ Becomes(o, FALSE, k, k)
          /\ asked' = [asked EXCEPT ![o] = @ \cup {k}]

(* The object is put to sleep, woken, or set once more from an old version. *)
Act(o, s) ==
    /\ \E k \in asked[o] : \E n \in 0 .. k : Becomes(o, s, n, k)
    /\ UNCHANGED asked

Sleep(o) == ~asleep[o] /\ Act(o, TRUE)
Wake(o) == asleep[o] /\ Act(o, FALSE)
Again(o) == Act(o, asleep[o])

Next == \E o \in Objects : Ask(o) \/ Sleep(o) \/ Wake(o) \/ Again(o)

Spec == Init /\ [][Next]_vars
=============================================================================
