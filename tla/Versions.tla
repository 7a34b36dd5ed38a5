------------------------------ MODULE Versions ------------------------------
(***************************************************************************)
(* An API object as the sequence of its versions, from the one the         *)
(* manager's informer cache holds (the head) to the one the API server     *)
(* holds (the last).  The manager's client reads the head, a write appends *)
(* and a watch event drops the head.                                       *)
(***************************************************************************)
EXTENDS Integers, Sequences

CONSTANT MaxLag     \* how many versions a cache may be behind the API server

ASSUME LagAssumption == MaxLag \in Nat

Cached(log) == Head(log)
Live(log) == log[Len(log)]

(* A write that changes nothing makes no version; otherwise the cache falls *)
(* one version further behind, or takes an event when it is MaxLag behind.  *)
Write(log, v) ==
    IF v = Live(log) THEN log
    ELSE IF Len(log) <= MaxLag THEN Append(log, v)
    ELSE Append(Tail(log), v)

(* One field under a JSON merge patch made by client.MergeFrom(base): the   *)
(* patch carries only what differs between the version that was read and    *)
(* the version wanted, and no resourceVersion, so the API server applies it *)
(* to whatever it holds.                                                    *)
Merge(live, base, mod) == IF mod = base THEN live ELSE mod
=============================================================================
