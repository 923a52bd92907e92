------------------------------ MODULE RateLimit ------------------------------
(***************************************************************************)
(* The limiters of the server: a table of rate.Limiter for every kind of   *)
(* request, made when an address is first seen and forgotten when it has   *)
(* not been seen for long.  A key is one entry of one table.               *)
(*                                                                         *)
(* rate.Limiter, an external library, keeps the tokens it had at the last  *)
(* admission and computes what has been refilled since.  The unit of time  *)
(* is what it takes to refill one unit of a bucket.                        *)
(***************************************************************************)
EXTENDS Naturals

CONSTANTS
    Keys,
    Cap,      \* Cap[k]: the units a full bucket holds, its burst
    Cost,     \* Cost[k]: the units a request takes
    TTL,      \* TTL[k]: how long an unused limiter is kept
    MaxTime,  \* bound: the clock stops here
    None

ASSUME LimitAssumption ==
    /\ Cap \in [Keys -> Nat]
    /\ Cost \in [Keys -> Nat \ {0}]
    /\ TTL \in [Keys -> Nat]
    /\ MaxTime \in Nat
    /\ None \notin [tokens : Nat, last : Nat, lastUse : Nat]

\* An unused limiter is kept at least as long as an empty bucket takes to fill:
\* an hour against a minute for the hub, five minutes against half a second for STUN.
ASSUME TTLAssumption == \A k \in Keys : Cap[k] <= TTL[k]

VARIABLES
    now,       \* time.Now()
    limiters,  \* limiters[k]: None, or what the limiter remembers
    spent      \* history, spent[k]: the units of all the requests admitted so far

limitVars == <<now, limiters, spent>>

-----------------------------------------------------------------------------
Least(a, b) == IF a <= b THEN a ELSE b

New(k) == [tokens |-> Cap[k], last |-> now, lastUse |-> now]

\* The limiter of k, made if there is none.
Limiter(k) == IF limiters[k] = None THEN New(k) ELSE limiters[k]

\* Mutant: nothing caps what is refilled.
TokensUncapped(k) == LET lim == Limiter(k) IN lim.tokens + (now - lim.last)

\* advance: the tokens of a limiter at the present time.
Tokens(k) == LET lim == Limiter(k) IN Least(Cap[k], lim.tokens + (now - lim.last))

\* Mutant: a bucket pays as long as there is anything in it.
ChargeOver(k) ==
    /\ Tokens(k) > 0
    /\ limiters' = [limiters EXCEPT ![k] =
            [tokens |-> IF Tokens(k) >= Cost[k] THEN Tokens(k) - Cost[k] ELSE 0,
             last |-> now, lastUse |-> now]]
    /\ spent' = [spent EXCEPT ![k] = @ + Cost[k]]

\* Allow: one request takes its cost and is admitted.
Charge(k) ==
    /\ Tokens(k) >= Cost[k]
    /\ limiters' = [limiters EXCEPT ![k] =
                        [tokens |-> Tokens(k) - Cost[k], last |-> now, lastUse |-> now]]
    /\ spent' = [spent EXCEPT ![k] = @ + Cost[k]]

\* Or it is refused, which leaves the tokens as they are.
Refuse(k) ==
    /\ Tokens(k) < Cost[k]
    /\ limiters' = [limiters EXCEPT ![k] = [Limiter(k) EXCEPT !.lastUse = now]]
    /\ spent' = spent

\* checkIPRateLimit, and the allow of the STUN server.
Allowed(k) == Charge(k) /\ now' = now
Limited(k) == Refuse(k) /\ now' = now

Unused(k) == limiters[k] # None /\ limiters[k].lastUse + TTL[k] < now

\* Mutant: whatever is unused at the moment is forgotten.
CleanupIdle(K) ==
    /\ limiters' = [k \in Keys |->
            IF k \in K /\ limiters[k] # None /\ limiters[k].lastUse < now
            THEN None ELSE limiters[k]]
    /\ UNCHANGED <<now, spent>>

\* cleanupIPLimiters and cleanupLoop, for the keys of one table.
Cleanup(K) ==
    /\ limiters' = [k \in Keys |-> IF k \in K /\ Unused(k) THEN None ELSE limiters[k]]
    /\ UNCHANGED <<now, spent>>

Tick ==
    /\ now < MaxTime
    /\ now' = now + 1
    /\ UNCHANGED <<limiters, spent>>

LimitInit ==
    /\ now = 0
    /\ limiters = [k \in Keys |-> None]
    /\ spent = [k \in Keys |-> 0]

LimitNext ==
    \/ \E k \in Keys : Allowed(k) \/ Limited(k)
    \/ \E K \in SUBSET Keys : Cleanup(K)
    \/ Tick

LimitSpec == LimitInit /\ [][LimitNext]_limitVars

-----------------------------------------------------------------------------
(* Properties *)

\* Every variable has its type, and no limiter remembers the future.
LimitTypeOK ==
    /\ now \in Nat
    /\ spent \in [Keys -> Nat]
    /\ limiters \in [Keys -> [tokens : Nat, last : Nat, lastUse : Nat] \cup {None}]
    /\ \A k \in Keys : limiters[k] # None =>
            /\ limiters[k].tokens <= Cap[k]
            /\ limiters[k].last <= limiters[k].lastUse
            /\ limiters[k].lastUse <= now

\* In any time from the start, an address gets no more than its burst and what
\* has been refilled since, however often its limiter is forgotten and made again.
SpentBounded == \A k \in Keys : spent[k] + Tokens(k) <= Cap[k] + now

\* Forgetting limiters is invisible: the server behaves as if every address had
\* a bucket from the beginning.
Buckets == INSTANCE TokenBuckets WITH level <- [k \in Keys |-> Tokens(k)]

ImplementsBuckets == Buckets!Spec
=============================================================================
