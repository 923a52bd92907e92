--------------------------- MODULE RateLimitProofs ---------------------------
(***************************************************************************)
(* Proofs about RateLimit, for every set of keys, capacity, cost and time  *)
(* to live.                                                                *)
(***************************************************************************)
EXTENDS RateLimit, TLAPS

Memory == [tokens : Nat, last : Nat, lastUse : Nat]

\* What the limiter of a key, present or made now, remembers.
LEMMA LimiterFacts ==
    ASSUME LimitTypeOK, NEW k \in Keys
    PROVE  /\ Limiter(k) \in Memory
           /\ Limiter(k).tokens <= Cap[k]
           /\ Limiter(k).last <= Limiter(k).lastUse
           /\ Limiter(k).lastUse <= now
           /\ Cap[k] \in Nat /\ Cost[k] \in Nat /\ Cost[k] > 0
  BY LimitAssumption DEF LimitTypeOK, Limiter, New, Memory

\* A bucket holds at most its capacity.
LEMMA TokensBounded ==
    ASSUME LimitTypeOK, NEW k \in Keys
    PROVE  Tokens(k) \in 0..Cap[k]
  <1>1. Limiter(k).tokens \in Nat /\ Limiter(k).last \in Nat /\ now \in Nat /\ Cap[k] \in Nat
    BY LimiterFacts DEF Memory, LimitTypeOK
  <1>2. Limiter(k).last <= now
    <2>1. Limiter(k).lastUse \in Nat BY LimiterFacts DEF Memory
    <2> QED BY <1>1, <2>1, LimiterFacts
  <1> QED BY <1>1, <1>2 DEF Tokens, Least

\* The type invariant is inductive.
LEMMA LimitTypeInitially == LimitInit => LimitTypeOK
  BY LimitAssumption DEF LimitInit, LimitTypeOK

LEMMA LimitTypeStep == LimitTypeOK /\ [LimitNext]_limitVars => LimitTypeOK'
  <1> SUFFICES ASSUME LimitTypeOK, [LimitNext]_limitVars PROVE LimitTypeOK'
    OBVIOUS
  <1> USE LimitAssumption
  <1>1. ASSUME NEW k \in Keys, Allowed(k) PROVE LimitTypeOK'
    <2>1. Tokens(k) \in 0..Cap[k] BY TokensBounded
    <2>2. Cap[k] \in Nat /\ Cost[k] \in Nat /\ now \in Nat BY DEF LimitTypeOK
    <2>3. Tokens(k) - Cost[k] \in Nat /\ Tokens(k) - Cost[k] <= Cap[k]
      BY <1>1, <2>1, <2>2 DEF Allowed, Charge
    <2>4. spent[k] + Cost[k] \in Nat BY <2>2 DEF LimitTypeOK
    <2> DEFINE mem == [tokens |-> Tokens(k) - Cost[k], last |-> now, lastUse |-> now]
    <2>5. mem \in Memory /\ mem.tokens <= Cap[k] /\ mem.last <= mem.lastUse /\ mem.lastUse <= now
      BY <2>2, <2>3 DEF Memory
    <2>6. limiters' = [limiters EXCEPT ![k] = mem] /\ now' = now
          /\ spent' = [spent EXCEPT ![k] = @ + Cost[k]]
      BY <1>1 DEF Allowed, Charge
    <2> HIDE DEF mem
    <2> QED BY <2>4, <2>5, <2>6 DEF LimitTypeOK, Memory
  <1>2. ASSUME NEW k \in Keys, Limited(k) PROVE LimitTypeOK'
    <2> DEFINE mem == [Limiter(k) EXCEPT !.lastUse = now]
    <2>1. mem \in Memory /\ mem.tokens <= Cap[k] /\ mem.last <= mem.lastUse /\ mem.lastUse <= now
      <3>1. now \in Nat /\ Limiter(k) \in Memory BY LimiterFacts DEF LimitTypeOK
      <3>2. Limiter(k).last <= now
        <4>1. Limiter(k).lastUse \in Nat /\ Limiter(k).last \in Nat BY <3>1 DEF Memory
        <4> QED BY <3>1, <4>1, LimiterFacts
      <3> QED BY <3>1, <3>2, LimiterFacts DEF Memory
    <2>2. limiters' = [limiters EXCEPT ![k] = mem] /\ now' = now /\ spent' = spent
      BY <1>2 DEF Limited, Refuse
    <2> HIDE DEF mem
    <2> QED BY <2>1, <2>2 DEF LimitTypeOK, Memory
  <1>3. ASSUME NEW K \in SUBSET Keys, Cleanup(K) PROVE LimitTypeOK'
    BY <1>3 DEF Cleanup, LimitTypeOK
  <1>4. CASE Tick
    BY <1>4 DEF Tick, LimitTypeOK
  <1>5. CASE UNCHANGED limitVars
    BY <1>5 DEF limitVars, LimitTypeOK
  <1> QED BY <1>1, <1>2, <1>3, <1>4, <1>5 DEF LimitNext

\* LimitTypeOK: no limiter ever holds more than its burst or remembers the future.
THEOREM TypeCorrect == LimitSpec => []LimitTypeOK
  BY LimitTypeInitially, LimitTypeStep, PTL DEF LimitSpec

\* A bucket that has not been used for its time to live is full: this is why
\* forgetting it changes nothing.
LEMMA UnusedIsFull ==
    ASSUME LimitTypeOK, NEW k \in Keys, Unused(k)
    PROVE  Tokens(k) = Cap[k]
  <1>1. /\ limiters[k] \in Memory /\ Limiter(k) = limiters[k]
        /\ limiters[k].last <= limiters[k].lastUse
    BY DEF Unused, LimitTypeOK, Limiter, Memory
  <1>2. limiters[k].tokens \in Nat /\ limiters[k].last \in Nat /\ limiters[k].lastUse \in Nat
    BY <1>1 DEF Memory
  <1>3. now \in Nat /\ Cap[k] \in Nat /\ TTL[k] \in Nat /\ Cap[k] <= TTL[k]
    BY LimitAssumption, TTLAssumption DEF LimitTypeOK
  <1>4. now - limiters[k].last > Cap[k]
    BY <1>1, <1>2, <1>3 DEF Unused
  <1> QED BY <1>1, <1>2, <1>3, <1>4 DEF Tokens, Least

\* Without a limiter the bucket is full.
LEMMA AbsentIsFull ==
    ASSUME NEW k \in Keys, limiters[k] = None, now \in Nat
    PROVE  Tokens(k) = Cap[k]
  BY LimitAssumption DEF Tokens, Least, Limiter, New

-----------------------------------------------------------------------------
(* What each action does to the tokens of each key *)

LEMMA TokensAllowed ==
    ASSUME LimitTypeOK, NEW k \in Keys, Allowed(k), NEW j \in Keys
    PROVE  Tokens(j)' = IF j = k THEN Tokens(k) - Cost[k] ELSE Tokens(j)
  <1>1. now' = now /\ now \in Nat BY DEF Allowed, LimitTypeOK
  <1>2. CASE j = k
    <2> DEFINE mem == [tokens |-> Tokens(k) - Cost[k], last |-> now, lastUse |-> now]
    <2>1. Tokens(k) \in 0..Cap[k] /\ Cap[k] \in Nat /\ Cost[k] \in Nat
      BY TokensBounded, LimitAssumption
    <2>2. Tokens(k) - Cost[k] \in Nat /\ Tokens(k) - Cost[k] <= Cap[k]
      BY <2>1 DEF Allowed, Charge
    <2>3. limiters'[k] = mem BY DEF Allowed, Charge, LimitTypeOK
    <2>4. mem # None
      <3>1. mem \in [tokens : Nat, last : Nat, lastUse : Nat] BY <2>2, <1>1
      <3> QED BY <3>1, LimitAssumption
    <2>5. Limiter(k)' = mem BY <2>3, <2>4 DEF Limiter
    <2>6. Tokens(k)' = Least(Cap[k], mem.tokens + (now - now))
      BY <2>5, <1>1 DEF Tokens
    <2> QED BY <1>2, <2>1, <2>2, <2>6, <1>1 DEF Least
  <1>3. CASE j # k
    <2>1. limiters'[j] = limiters[j] BY <1>3 DEF Allowed, Charge, LimitTypeOK
    <2> QED BY <1>1, <1>3, <2>1 DEF Tokens, Limiter, New
  <1> QED BY <1>2, <1>3

LEMMA TokensLimited ==
    ASSUME LimitTypeOK, NEW k \in Keys, Limited(k), NEW j \in Keys
    PROVE  Tokens(j)' = Tokens(j)
  <1>1. now' = now /\ now \in Nat BY DEF Limited, LimitTypeOK
  <1>2. CASE j = k
    <2> DEFINE mem == [Limiter(k) EXCEPT !.lastUse = now]
    <2>1. limiters'[k] = mem BY DEF Limited, Refuse, LimitTypeOK
    <2>2. mem # None
      <3>1. mem \in [tokens : Nat, last : Nat, lastUse : Nat] BY <1>1, LimiterFacts DEF Memory
      <3> QED BY <3>1, LimitAssumption
    <2>3. Limiter(k)' = mem BY <2>1, <2>2 DEF Limiter
    <2>4. mem.tokens = Limiter(k).tokens /\ mem.last = Limiter(k).last
      BY LimiterFacts DEF Memory
    <2> HIDE DEF mem
    <2> QED BY <1>1, <1>2, <2>3, <2>4 DEF Tokens
  <1>3. CASE j # k
    <2>1. limiters'[j] = limiters[j] BY <1>3 DEF Limited, Refuse, LimitTypeOK
    <2> QED BY <1>1, <2>1 DEF Tokens, Limiter, New
  <1> QED BY <1>2, <1>3

LEMMA TokensCleanup ==
    ASSUME LimitTypeOK, NEW K \in SUBSET Keys, Cleanup(K), NEW j \in Keys
    PROVE  Tokens(j)' = Tokens(j)
  <1>1. now' = now /\ now \in Nat BY DEF Cleanup, LimitTypeOK
  <1>2. CASE j \in K /\ Unused(j)
    <2>1. Tokens(j) = Cap[j] BY <1>2, UnusedIsFull
    <2>2. limiters'[j] = None BY <1>2 DEF Cleanup
    <2>3. Limiter(j)' = [tokens |-> Cap[j], last |-> now, lastUse |-> now]
      BY <1>1, <2>2 DEF Limiter, New
    <2>4. Tokens(j)' = Least(Cap[j], Cap[j] + (now - now)) BY <1>1, <2>3 DEF Tokens
    <2> QED BY <1>1, <2>1, <2>4, LimitAssumption DEF Least
  <1>3. CASE ~(j \in K /\ Unused(j))
    <2>1. limiters'[j] = limiters[j] BY <1>3 DEF Cleanup
    <2> QED BY <1>1, <2>1 DEF Tokens, Limiter, New
  <1> QED BY <1>2, <1>3

LEMMA TokensTick ==
    ASSUME LimitTypeOK, Tick, NEW j \in Keys
    PROVE  Tokens(j)' = Least(Cap[j], Tokens(j) + 1)
  <1>1. now' = now + 1 /\ now \in Nat /\ limiters' = limiters /\ Cap[j] \in Nat
    BY LimitAssumption DEF Tick, LimitTypeOK
  <1>2. CASE limiters[j] = None
    <2>1. Tokens(j) = Cap[j] BY <1>1, <1>2, AbsentIsFull
    <2>2. Limiter(j)' = [tokens |-> Cap[j], last |-> now', lastUse |-> now']
      BY <1>1, <1>2 DEF Limiter, New
    <2>3. Tokens(j)' = Least(Cap[j], Cap[j] + (now' - now')) BY <2>2 DEF Tokens
    <2> QED BY <1>1, <2>1, <2>3 DEF Least
  <1>3. CASE limiters[j] # None
    <2>1. Limiter(j)' = Limiter(j) BY <1>1, <1>3 DEF Limiter
    <2>2. Limiter(j).tokens \in Nat /\ Limiter(j).last \in Nat BY LimiterFacts DEF Memory
    <2>3. Limiter(j).last <= now
      <3>1. Limiter(j).lastUse \in Nat BY LimiterFacts DEF Memory
      <3> QED BY <1>1, <2>2, <3>1, LimiterFacts
    <2>4. Tokens(j)' = Least(Cap[j], Limiter(j)'.tokens + (now' - Limiter(j)'.last))
      BY <1>1 DEF Tokens
    <2>5. Tokens(j)' = Least(Cap[j], Limiter(j).tokens + ((now + 1) - Limiter(j).last))
      BY <1>1, <2>1, <2>4
    <2>6. (now + 1) - Limiter(j).last = (now - Limiter(j).last) + 1
      BY <1>1, <2>2
    <2> QED BY <1>1, <2>2, <2>3, <2>5, <2>6 DEF Tokens, Least
  <1> QED BY <1>2, <1>3

-----------------------------------------------------------------------------
(* The bound on what is admitted *)

LEMMA SpentStep ==
    LimitTypeOK /\ SpentBounded /\ [LimitNext]_limitVars => SpentBounded'
  <1> SUFFICES ASSUME LimitTypeOK, SpentBounded, [LimitNext]_limitVars, NEW j \in Keys
               PROVE  spent'[j] + Tokens(j)' <= Cap[j] + now'
    BY DEF SpentBounded
  <1>1. /\ spent[j] \in Nat /\ now \in Nat /\ Cap[j] \in Nat /\ Cost[j] \in Nat
        /\ Tokens(j) \in 0..Cap[j]
        /\ spent[j] + Tokens(j) <= Cap[j] + now
    BY TokensBounded, LimitAssumption DEF LimitTypeOK, SpentBounded
  <1>2. ASSUME NEW k \in Keys, Allowed(k) PROVE spent'[j] + Tokens(j)' <= Cap[j] + now'
    <2>1. spent'[j] = (IF j = k THEN spent[j] + Cost[j] ELSE spent[j]) /\ now' = now
      BY <1>2 DEF Allowed, Charge, LimitTypeOK
    <2>2. Tokens(j)' = IF j = k THEN Tokens(k) - Cost[k] ELSE Tokens(j)
      BY <1>2, TokensAllowed
    <2> QED BY <1>1, <2>1, <2>2
  <1>3. ASSUME NEW k \in Keys, Limited(k) PROVE spent'[j] + Tokens(j)' <= Cap[j] + now'
    BY <1>1, <1>3, TokensLimited DEF Limited, Refuse
  <1>4. ASSUME NEW K \in SUBSET Keys, Cleanup(K)
        PROVE  spent'[j] + Tokens(j)' <= Cap[j] + now'
    BY <1>1, <1>4, TokensCleanup DEF Cleanup
  <1>5. CASE Tick
    <2>1. Tokens(j)' = Least(Cap[j], Tokens(j) + 1) BY <1>5, TokensTick
    <2>2. spent' = spent /\ now' = now + 1 BY <1>5 DEF Tick
    <2> QED BY <1>1, <2>1, <2>2 DEF Least
  <1>6. CASE UNCHANGED limitVars
    BY <1>1, <1>6 DEF limitVars, Tokens, Limiter, New
  <1> QED BY <1>2, <1>3, <1>4, <1>5, <1>6 DEF LimitNext

\* SpentBounded: an address never gets more than its burst and the refill.
THEOREM SpentIsBounded == LimitSpec => []SpentBounded
  <1>1. LimitInit => SpentBounded
    <2> SUFFICES ASSUME LimitInit, NEW k \in Keys
                 PROVE  spent[k] + Tokens(k) <= Cap[k] + now
      BY DEF SpentBounded
    <2>1. Tokens(k) = Cap[k] /\ spent[k] = 0 /\ now = 0
      BY AbsentIsFull DEF LimitInit
    <2> QED BY <2>1, LimitAssumption
  <1> QED BY <1>1, LimitTypeInitially, LimitTypeStep, SpentStep, PTL DEF LimitSpec

-----------------------------------------------------------------------------
(* The refinement *)

LEMMA BucketsStep ==
    LimitTypeOK /\ [LimitNext]_limitVars => [Buckets!Next]_(Buckets!vars)
  <1> SUFFICES ASSUME LimitTypeOK, [LimitNext]_limitVars
               PROVE  Buckets!Next \/ UNCHANGED Buckets!vars
    OBVIOUS
  <1> DEFINE lev == [k \in Keys |-> Tokens(k)]
  <1>1. ASSUME NEW k \in Keys, Allowed(k) PROVE Buckets!Admit(k)
    <2>1. lev' = [lev EXCEPT ![k] = @ - Cost[k]]
      BY <1>1, TokensAllowed
    <2> QED BY <1>1, <2>1 DEF Buckets!Admit, Allowed, Charge
  <1>2. ASSUME NEW k \in Keys, Limited(k) PROVE UNCHANGED Buckets!vars
    <2>1. lev' = lev BY <1>2, TokensLimited
    <2> QED BY <1>2, <2>1 DEF Buckets!vars, Limited, Refuse
  <1>3. ASSUME NEW K \in SUBSET Keys, Cleanup(K) PROVE UNCHANGED Buckets!vars
    <2>1. lev' = lev BY <1>3, TokensCleanup
    <2> QED BY <1>3, <2>1 DEF Buckets!vars, Cleanup
  <1>4. CASE Tick
    <2>1. lev' = [k \in Keys |-> Least(Cap[k], lev[k] + 1)]
      BY <1>4, TokensTick
    <2> QED BY <1>4, <2>1 DEF Buckets!Next, Buckets!Tick, Tick, Least, Buckets!Least
  <1>5. CASE UNCHANGED limitVars
    BY <1>5 DEF limitVars, Buckets!vars, Tokens, Limiter, New
  <1> QED BY <1>1, <1>2, <1>3, <1>4, <1>5 DEF LimitNext, Buckets!Next

\* ImplementsBuckets: forgetting limiters is invisible to every address.
THEOREM LimitersImplementBuckets == LimitSpec => ImplementsBuckets
  <1>1. LimitInit => Buckets!Init
    <2> SUFFICES ASSUME LimitInit PROVE Buckets!Init
      OBVIOUS
    <2>1. \A k \in Keys : Tokens(k) = Cap[k]
      BY AbsentIsFull DEF LimitInit
    <2>2. Cap \in [Keys -> Nat] BY LimitAssumption
    <2> QED BY <2>1, <2>2 DEF LimitInit, Buckets!Init
  <1> QED BY <1>1, TypeCorrect, BucketsStep, PTL DEF LimitSpec, ImplementsBuckets, Buckets!Spec
=============================================================================
