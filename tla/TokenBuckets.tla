---------------------------- MODULE TokenBuckets ----------------------------
(***************************************************************************)
(* What the rate limits promise: every key has a token bucket that exists  *)
(* from the beginning, refills by one unit at every tick of the clock up   *)
(* to its capacity, and pays the cost of every request that is admitted.   *)
(***************************************************************************)
EXTENDS Naturals

CONSTANTS
    Keys,     \* what is limited
    Cap,      \* Cap[k]: the units a full bucket holds
    Cost,     \* Cost[k]: the units a request takes
    MaxTime   \* bound: the clock stops here

VARIABLES
    now,      \* the clock
    level,    \* level[k]: the units in the bucket
    spent     \* spent[k]: the units of all the requests admitted so far

vars == <<now, spent, level>>

Least(a, b) == IF a <= b THEN a ELSE b

Init ==
    /\ now = 0
    /\ level = [k \in Keys |-> Cap[k]]
    /\ spent = [k \in Keys |-> 0]

Tick ==
    /\ now < MaxTime
    /\ now' = now + 1
    /\ level' = [k \in Keys |-> Least(Cap[k], level[k] + 1)]
    /\ spent' = spent

Admit(k) ==
    /\ spent' = [spent EXCEPT ![k] = @ + Cost[k]]
    /\ level[k] >= Cost[k]
    /\ level' = [level EXCEPT ![k] = @ - Cost[k]]
    /\ now' = now

Next == Tick \/ \E k \in Keys : Admit(k)

Spec == Init /\ [][Next]_vars
=============================================================================
