--------------------------- MODULE FrontDoorProofs ---------------------------
(***************************************************************************)
(* Proofs about FrontDoor, for every list of proxies, every way a request  *)
(* may come and every rate.                                                *)
(***************************************************************************)
EXTENDS FrontDoor, RateLimitProofs, WellFoundedInduction

LEMMA WayFacts ==
    ASSUME NEW w \in Ways
    PROVE  /\ w.via \in Seq(Addresses) /\ w.claimed \in Seq(Addresses \cup {Junk})
           /\ Len(w.via) \in Nat /\ Len(w.claimed) \in Nat
           /\ Hops(w) \in Seq(Addresses) /\ Len(Hops(w)) = Len(w.via) + 1
           /\ \A i \in 1..(Len(w.via) + 1) : Hops(w)[i] \in Addresses
           /\ Hops(w)[1] = w.origin
           /\ Junk \notin Addresses
  <1>1. w \in [origin : Addresses, via : Seq(Addresses), claimed : Seq(Addresses \cup {Junk})]
        /\ Junk \notin Addresses
    BY FrontAssumption
  <1>2. <<w.origin>> \in Seq(Addresses) /\ Len(<<w.origin>>) = 1 /\ <<w.origin>>[1] = w.origin
    BY <1>1
  <1>3. Hops(w) \in Seq(Addresses) /\ Len(Hops(w)) = Len(w.via) + 1 /\ Hops(w)[1] = w.origin
    BY <1>1, <1>2 DEF Hops
  <1> QED BY <1>1, <1>3

\* A set of positions that is not empty has a last one.
LEMMA LastPosition ==
    ASSUME NEW n \in Nat, NEW S, S \subseteq 1..n, S # {}
    PROVE  \E m \in S : \A j \in S : j <= m
  <1> DEFINE T == {n - i : i \in S}
             R == OpToRel(<, Nat)
  <1>1. T \subseteq Nat /\ T # {}
    <2>1. \A i \in S : i \in 1..n /\ n - i \in Nat OBVIOUS
    <2> QED BY <2>1
  <1>2. \A x, y \in Nat : <<y, x>> \in R <=> y < x
    BY DEF OpToRel
  <1>3. IsWellFoundedOn(R, Nat)
    BY NatLessThanWellFounded
  <1>4. PICK x \in T : \A y \in T : ~ (<<y, x>> \in R)
    <2> HIDE DEF T, R
    <2> QED BY <1>1, <1>3, WFMin
  <1>5. \A y \in T : ~ (y < x)
    BY <1>1, <1>2, <1>4
  <1>6. PICK m \in S : x = n - m
    BY <1>4
  <1>7. \A j \in S : ~ (n - j < n - m)
    BY <1>5, <1>6
  <1>8. \A j \in S : j \in Nat /\ m \in Nat
    OBVIOUS
  <1> QED BY <1>6, <1>7, <1>8

LEMMA Elements ==
    ASSUME NEW S, NEW s \in Seq(S)
    PROVE  Len(s) \in Nat /\ \A i \in 1..Len(s) : s[i] \in S
  OBVIOUS

LEMMA ConcatParts ==
    ASSUME NEW S, NEW s \in Seq(S), NEW t \in Seq(S)
    PROVE  /\ DOMAIN (s \o t) = 1..(Len(s) + Len(t))
           /\ \A i \in 1..Len(s) : (s \o t)[i] = s[i]
           /\ \A i \in 1..Len(t) : (s \o t)[Len(s) + i] = t[i]
  <1>1. Len(s) \in Nat /\ Len(t) \in Nat OBVIOUS
  <1>2. ASSUME NEW i \in 1..Len(t) PROVE (s \o t)[Len(s) + i] = t[i]
    <2>1. Len(s) + i \in 1..(Len(s) + Len(t)) /\ ~ (Len(s) + i <= Len(s)) BY <1>1
    <2>2. Len(s) + i - Len(s) = i BY <1>1
    <2> QED BY <1>1, <2>1, <2>2
  <1> QED BY <1>1, <1>2

\* Whatever was claimed, clientIP finds the nearest hop that is no trusted proxy.
LEMMA ClientIsResponsible ==
    ASSUME NEW w \in Ways
    PROVE  /\ ClientAddress(Peer(w), ForwardedFor(w)) = Responsible(w)
           /\ Responsible(w) \in Addresses
  <1> DEFINE n == Len(w.via)
             m == Len(w.claimed)
             H == Hops(w)
             X == ForwardedFor(w)
             C == Candidates(X)
             strangers == {i \in 1..(n + 1) : ~IsTrusted(H[i])}
  <1>1. n \in Nat /\ m \in Nat /\ Peer(w) = H[n + 1] /\ \A i \in 1..(n + 1) : H[i] \in Addresses
    BY WayFacts DEF Peer
  <1>2. Responsible(w) = IF strangers = {} THEN Peer(w)
                         ELSE H[CHOOSE i \in strangers : \A j \in strangers : j <= i]
    BY DEF Responsible
  <1>3. CASE ~IsTrusted(Peer(w))
    <2>1. n + 1 \in strangers /\ \A j \in strangers : j <= n + 1
      BY <1>1, <1>3
    <2>2. (CHOOSE i \in strangers : \A j \in strangers : j <= i) = n + 1
      <3>1. \A i \in strangers : (\A j \in strangers : j <= i) => i = n + 1
        BY <1>1, <2>1
      <3> HIDE DEF strangers, n
      <3> QED BY <2>1, <3>1
    <2>3. Responsible(w) = Peer(w)
      BY <1>1, <1>2, <2>1, <2>2
    <2>4. ClientAddress(Peer(w), X) = Peer(w)
      BY <1>3 DEF ClientAddress
    <2> QED BY <1>1, <2>3, <2>4
  <1>4. CASE IsTrusted(Peer(w)) /\ strangers = {}
    <2>1. Responsible(w) = Peer(w) BY <1>2, <1>4
    <2>2. IsTrusted(H[1]) BY <1>1, <1>4
    <2>3. w.claimed = <<>> BY <2>2, WayFacts, ProxyAssumption
    <2>4. C = {}
      <3>1. CASE w.via = <<>>
        BY <2>3, <3>1 DEF ForwardedFor, Candidates
      <3>2. CASE w.via # <<>>
        <4>1. X = [i \in 1..n |-> H[i]]
          BY <2>3, <3>2, WayFacts DEF ForwardedFor
        <4>2. \A i \in DOMAIN X : IsTrusted(X[i])
          BY <1>1, <1>4, <4>1
        <4> QED BY <4>2 DEF Candidates
      <3> QED BY <3>1, <3>2
    <2>5. ClientAddress(Peer(w), X) = Peer(w)
      BY <2>4 DEF ClientAddress
    <2> QED BY <1>1, <2>1, <2>5
  <1>5. CASE IsTrusted(Peer(w)) /\ strangers # {}
    <2>1. PICK s \in strangers : \A j \in strangers : j <= s
      <3>1. strangers \subseteq 1..(n + 1) /\ n + 1 \in Nat BY <1>1
      <3> HIDE DEF strangers, n
      <3> QED BY <1>5, <3>1, LastPosition
    <2>2. Responsible(w) = H[s]
      <3>1. (CHOOSE i \in strangers : \A j \in strangers : j <= i) = s
        <4>1. \A i \in strangers : (\A j \in strangers : j <= i) => i = s
          BY <1>1, <2>1
        <4> HIDE DEF strangers
        <4> QED BY <2>1, <4>1
      <3> QED BY <1>2, <1>5, <3>1
    <2>3. s \in 1..n /\ w.via # <<>>
      <3>1. s # n + 1 BY <1>1, <1>5, <2>1
      <3>2. s \in 1..n BY <1>1, <2>1, <3>1
      <3> QED BY <3>2, WayFacts
    <2>4. /\ DOMAIN X = 1..(m + n)
          /\ \A i \in 1..n : X[m + i] = H[i]
      <3> DEFINE rest == [i \in 1..n |-> H[i]]
      <3>1. X = w.claimed \o rest BY <2>3 DEF ForwardedFor
      <3>2. rest \in Seq(Addresses) /\ Len(rest) = n BY <1>1
      <3>3. w.claimed \in Seq(Addresses \cup {Junk}) BY WayFacts
      <3>4. rest \in Seq(Addresses \cup {Junk}) BY <1>1
      <3>5. /\ DOMAIN X = 1..(Len(w.claimed) + Len(rest))
            /\ \A i \in 1..Len(rest) : X[Len(w.claimed) + i] = rest[i]
        <4> HIDE DEF rest
        <4> QED BY <3>1, <3>3, <3>4, ConcatParts
      <3> QED BY <1>1, <3>2, <3>5
    <2> HIDE DEF m, n
    <2>n. m \in Nat /\ n \in Nat /\ s \in Nat /\ s \in 1..n
      BY <1>1, <2>3
    <2>5. m + s \in C /\ X[m + s] = H[s]
      <3>1. m + s \in 1..(m + n) BY <2>n
      <3>2. X[m + s] = H[s] /\ H[s] \in Addresses /\ ~IsTrusted(H[s])
        BY <1>1, <2>1, <2>3, <2>4
      <3> QED BY <2>4, <3>1, <3>2 DEF Candidates
    <2>6. \A j \in C : j <= m + s
      <3>0. C \subseteq 1..(m + n) BY <2>4 DEF Candidates
      <3> SUFFICES ASSUME NEW j \in C, j > m + s PROVE FALSE
        BY <2>n, <3>0
      <3>1. j \in 1..(m + n) /\ ~IsTrusted(X[j])
        BY <3>0 DEF Candidates
      <3>2. j - m \in 1..n /\ j - m > s /\ m + (j - m) = j
        BY <2>n, <3>1
      <3>3. X[j] = H[j - m] BY <2>4, <3>2
      <3>4. j - m \in strangers BY <2>n, <3>1, <3>2, <3>3
      <3> QED BY <2>1, <2>n, <3>2, <3>4
    <2>7. (CHOOSE i \in C : \A j \in C : j <= i) = m + s
      <3>1. \A i \in C : (\A j \in C : j <= i) => i = m + s
        <4>1. C \subseteq 1..(m + n) BY <2>4 DEF Candidates
        <4>2. m + s \in C /\ \A j \in C : j \in Nat BY <2>5, <2>n, <4>1
        <4> HIDE DEF C
        <4> QED BY <2>6, <4>2
      <3> HIDE DEF C
      <3> QED BY <2>5, <2>6, <3>1
    <2>8. ClientAddress(Peer(w), X) = X[m + s]
      BY <1>5, <2>5, <2>7 DEF ClientAddress
    <2> QED BY <1>1, <2>1, <2>2, <2>5, <2>8
  <1> QED BY <1>3, <1>4, <1>5

-----------------------------------------------------------------------------
(* Every step of the front door is a step of its limiters *)

LEMMA KeyFacts ==
    /\ \A table \in Tables, a \in Addresses : <<table, a>> \in Keys
    /\ \A table \in Tables, w \in Ways :
            KeyOf(table, w) = <<table, Responsible(w)>> /\ KeyOf(table, w) \in Keys
    /\ \A c \in Conns : <<"message", c>> \in Keys
    /\ \A s \in Sources : s.addr \in Addresses
  BY ClientIsResponsible, FrontAssumption DEF KeyOf

\* The three ways a step of the front door treats the limiters.
LEMMA DoorSteps ==
    ASSUME [Next]_vars
    PROVE  \/ \E k \in Keys : Allowed(k) /\ due' = [due EXCEPT ![k] = @ + Cost[k]]
           \/ \E k \in Keys : Limited(k) /\ due' = due
           \/ \E K \in SUBSET Keys : Cleanup(K) /\ due' = due
           \/ Tick /\ due' = due
           \/ UNCHANGED limitVars /\ due' = due
  <1> DEFINE Goal ==
           \/ \E k \in Keys : Allowed(k) /\ due' = [due EXCEPT ![k] = @ + Cost[k]]
           \/ \E k \in Keys : Limited(k) /\ due' = due
           \/ \E K \in SUBSET Keys : Cleanup(K) /\ due' = due
           \/ Tick /\ due' = due
           \/ UNCHANGED limitVars /\ due' = due
  <1>1. ASSUME NEW k \in Keys, TooMany(k) PROVE Goal
    BY <1>1 DEF TooMany
  <1>2. ASSUME NEW table \in Tables, NEW a \in Addresses, Pay(<<table, a>>, a) PROVE Goal
    <2>1. <<table, a>> \in Keys /\ Allowed(<<table, a>>)
          /\ due' = [due EXCEPT ![<<table, a>>] = @ + Cost[<<table, a>>]]
      BY <1>2, KeyFacts DEF Pay
    <2> QED BY <2>1
  <1>3. CASE Create
    <2>1. ASSUME NEW w \in Ways, CreateLimited(w) PROVE Goal
      BY <1>1, <2>1, KeyFacts DEF CreateLimited, Tables
    <2>2. ASSUME NEW w \in Ways, Pay(KeyOf("create", w), Responsible(w)) PROVE Goal
      BY <1>2, <2>2, KeyFacts, ClientIsResponsible DEF Tables
    <2> QED BY <1>3, <2>1, <2>2 DEF Create, CreateRefused, CreateFails, CreateRoom
  <1>4. CASE Connect
    <2>1. ASSUME NEW o \in Origins, UpgradeForbidden(o) PROVE Goal
      BY <2>1 DEF UpgradeForbidden, vars, doorVars
    <2>2. ASSUME NEW w \in Ways, NEW o \in Origins, UpgradeLimited(w, o) PROVE Goal
      BY <1>1, <2>2, KeyFacts DEF UpgradeLimited, Tables
    <2>3. ASSUME NEW w \in Ways, Pay(KeyOf("ws", w), Responsible(w)) PROVE Goal
      BY <1>2, <2>3, KeyFacts, ClientIsResponsible DEF Tables
    <2> QED BY <1>4, <2>1, <2>2, <2>3 DEF Connect, Upgrade
  <1>5. CASE Talk
    <2>1. ASSUME NEW c \in Conns, Message(c) PROVE Goal
      BY <2>1, KeyFacts DEF Message
    <2>2. ASSUME NEW c \in Conns, MessageLimited(c) \/ MessageCutOff(c) PROVE Goal
      BY <2>2, KeyFacts DEF MessageLimited, MessageCutOff, Refused
    <2> QED BY <1>5, <2>1, <2>2 DEF Talk
  <1>6. CASE Stun
    <2>1. ASSUME NEW s \in Sources, StunLimited(s) PROVE Goal
      BY <1>1, <2>1, KeyFacts DEF StunLimited, Tables
    <2>2. ASSUME NEW s \in Sources, Pay(<<"stun", s.addr>>, s.addr) PROVE Goal
      BY <1>2, <2>2, KeyFacts DEF Tables
    <2> QED BY <1>6, <2>1, <2>2 DEF Stun, StunIgnored, StunAnswered
  <1>7. CASE SweepCreate
    BY <1>7, FrontAssumption DEF SweepCreate, Tables
  <1>8. CASE SweepWS
    BY <1>8, FrontAssumption DEF SweepWS, UnusedBefore, Tables
  <1>9. CASE SweepStun
    BY <1>9, FrontAssumption DEF SweepStun, Tables, doorVars
  <1>10. CASE Pass
    BY <1>10 DEF Pass
  <1>11. CASE UNCHANGED vars
    BY <1>11 DEF vars, doorVars
  <1> QED BY <1>3, <1>4, <1>5, <1>6, <1>7, <1>8, <1>9, <1>10, <1>11 DEF Next

\* The front door uses its limiters as RateLimit says: all that is proved of
\* LimitSpec holds of it.
THEOREM FrontDoorIsLimited == Spec => LimitSpec
  <1>1. Init => LimitInit
    BY DEF Init
  <1>2. [Next]_vars => [LimitNext]_limitVars
    BY DoorSteps DEF LimitNext
  <1> QED BY <1>1, <1>2, PTL DEF Spec, LimitSpec

\* SpentBounded for the front door: no address gets more than its burst and
\* what is refilled, and the times its limiter is forgotten do not count.
THEOREM AddressesAreBounded == Spec => []SpentBounded
  BY FrontDoorIsLimited, SpentIsBounded, PTL

\* ImplementsBuckets for the front door: the addresses could not tell that
\* limiters are forgotten.
THEOREM FrontDoorImplementsBuckets == Spec => ImplementsBuckets
  BY FrontDoorIsLimited, LimitersImplementBuckets

-----------------------------------------------------------------------------
(* Who pays *)

\* ResponsiblePays: whatever is claimed in X-Forwarded-For, a request is charged
\* to the nearest hop of its way that is no trusted proxy.
THEOREM ResponsibleAlwaysPays == Spec => []ResponsiblePays
  <1>1. Init => ResponsiblePays
    BY DEF Init, LimitInit, ResponsiblePays
  <1>2. ResponsiblePays /\ [Next]_vars => ResponsiblePays'
    <2> SUFFICES ASSUME ResponsiblePays, [Next]_vars PROVE ResponsiblePays'
      OBVIOUS
    <2>1. CASE \E k \in Keys : Allowed(k) /\ due' = [due EXCEPT ![k] = @ + Cost[k]]
      BY <2>1 DEF ResponsiblePays, Allowed, Charge
    <2>2. CASE \E k \in Keys : Limited(k) /\ due' = due
      BY <2>2 DEF ResponsiblePays, Limited, Refuse
    <2>3. CASE \E K \in SUBSET Keys : Cleanup(K) /\ due' = due
      BY <2>3 DEF ResponsiblePays, Cleanup
    <2>4. CASE Tick /\ due' = due
      BY <2>4 DEF ResponsiblePays, Tick
    <2>5. CASE UNCHANGED limitVars /\ due' = due
      BY <2>5 DEF ResponsiblePays, limitVars
    <2> QED BY <2>1, <2>2, <2>3, <2>4, <2>5, DoorSteps
  <1> QED BY <1>1, <1>2, PTL DEF Spec

-----------------------------------------------------------------------------
(* What STUN answers *)

\* Hiding and showing an address cancel, for either family.
LEMMA BindingTells ==
    ASSUME NEW s \in Sources, NEW p \in Packets
    PROVE  Tells(BindingResponse(p, s.ip, s.port), p, s.ip, s.port)
  <1> DEFINE r == BindingResponse(p, s.ip, s.port)
             mask == Mask(p.tid)
  <1>1. /\ s.ip \in Seq(Words) /\ Len(s.ip) \in {4, 16} /\ s.port \in Words
        /\ p.tid \in Seq(Words) /\ Len(p.tid) = 12
        /\ CookiePort \in Words /\ Cookie \in Seq(Words)
    BY FrontAssumption
  <1>2. Len(Cookie) = 4 /\ \A i \in 1..4 : Cookie[i] \in Words
    <2>1. Len(Cookie) = 4 BY DEF Cookie
    <2>2. Cookie \in Seq(Words) BY <1>1
    <2>3. \A i \in 1..Len(Cookie) : Cookie[i] \in Words BY <2>2, Elements
    <2> QED BY <2>1, <2>3
  <1>3. /\ \A i \in 1..4 : mask[i] = Cookie[i]
        /\ \A i \in 5..16 : mask[i] = p.tid[i - 4] /\ p.tid[i - 4] \in Words
    <2>1. mask = Cookie \o p.tid BY DEF Mask
    <2>2. /\ \A i \in 1..Len(Cookie) : mask[i] = Cookie[i]
          /\ \A i \in 1..Len(p.tid) : mask[Len(Cookie) + i] = p.tid[i]
      <3>1. Cookie \in Seq(Words) /\ p.tid \in Seq(Words) BY <1>1
      <3> HIDE DEF mask
      <3> QED BY <2>1, <3>1, ConcatParts
    <2> HIDE DEF mask
    <2>3. Len(p.tid) = 12 /\ \A i \in 1..12 : p.tid[i] \in Words
      <3>1. p.tid \in Seq(Words) /\ Len(p.tid) = 12 BY <1>1
      <3>2. \A i \in 1..Len(p.tid) : p.tid[i] \in Words BY <3>1, Elements
      <3> QED BY <3>1, <3>2
    <2>4. ASSUME NEW i \in 5..16 PROVE mask[i] = p.tid[i - 4] /\ p.tid[i - 4] \in Words
      <3> DEFINE j == i - 4
      <3>1. j \in 1..12 /\ 4 + j = i OBVIOUS
      <3> HIDE DEF j
      <3>2. j \in 1..Len(p.tid) /\ mask[Len(Cookie) + j] = p.tid[j] /\ p.tid[j] \in Words
        BY <2>2, <2>3, <3>1
      <3>3. mask[i] = p.tid[j] /\ p.tid[j] \in Words
        BY <1>2, <3>1, <3>2
      <3> QED BY <3>3 DEF j
    <2> QED BY <1>2, <2>2, <2>4
  <1>4. \A i \in 1..Len(s.ip) :
            /\ s.ip[i] \in Words
            /\ mask[i] \in Words
            /\ mask[i] = IF i <= 4 THEN Cookie[i] ELSE p.tid[i - 4]
    <2> HIDE DEF mask
    <2> SUFFICES ASSUME NEW i \in 1..Len(s.ip)
                 PROVE  /\ s.ip[i] \in Words
                        /\ mask[i] \in Words
                        /\ mask[i] = IF i <= 4 THEN Cookie[i] ELSE p.tid[i - 4]
      OBVIOUS
    <2>1. s.ip[i] \in Words
      <3>1. s.ip \in Seq(Words) BY <1>1
      <3> QED BY <3>1, Elements
    <2>2. i \in 1..16
      <3>1. Len(s.ip) = 4 \/ Len(s.ip) = 16 BY <1>1
      <3>2. i \in 1..4 \/ i \in 1..16 BY <3>1, Zenon
      <3> QED BY <3>2
    <2>3. CASE i \in 1..4 BY <1>2, <1>3, <2>1, <2>3, SMTT(20)
    <2>4. CASE i \in 5..16 BY <1>3, <2>1, <2>4
    <2> QED BY <2>2, <2>3, <2>4
  <1>5. /\ r.type = BindingSuccess /\ r.cookie = Cookie /\ r.tid = p.tid
        /\ r.size = stunHeaderSize + r.length
        /\ r.attr.family = (IF Len(s.ip) = 4 THEN 1 ELSE 2)
        /\ r.attr.port = BitXor(s.port, CookiePort)
        /\ r.attr.address = [i \in DOMAIN s.ip |-> BitXor(s.ip[i], mask[i])]
    <2> DEFINE attr == XORMappedAddress(s.ip, s.port, p.tid)
    <2>1. r = [type |-> BindingSuccess, length |-> attr.size, cookie |-> Cookie,
               tid |-> p.tid, size |-> stunHeaderSize + attr.size, attr |-> attr]
      BY DEF BindingResponse
    <2>2. /\ attr.family = (IF Len(s.ip) = 4 THEN 1 ELSE 2)
          /\ attr.port = BitXor(s.port, CookiePort)
          /\ attr.address = [i \in DOMAIN s.ip |-> BitXor(s.ip[i], mask[i])]
      BY DEF XORMappedAddress, Masked
    <2> HIDE DEF attr, mask, r
    <2> QED BY <2>1, <2>2
  <1>6. MappedPort(r) = s.port
    BY <1>1, <1>5, XorAssumption DEF MappedPort
  <1>7. MappedAddress(r) = s.ip
    <2> HIDE DEF r, mask
    <2>1. DOMAIN s.ip = 1..Len(s.ip) /\ s.ip = [i \in 1..Len(s.ip) |-> s.ip[i]]
      BY <1>1
    <2>2. MappedAddress(r) = [i \in 1..Len(s.ip) |->
              BitXor(BitXor(s.ip[i], mask[i]), IF i <= 4 THEN Cookie[i] ELSE p.tid[i - 4])]
      BY <1>5, <2>1 DEF MappedAddress
    <2>3. \A i \in 1..Len(s.ip) :
              BitXor(BitXor(s.ip[i], mask[i]), IF i <= 4 THEN Cookie[i] ELSE p.tid[i - 4]) = s.ip[i]
      BY <1>4, XorAssumption
    <2> QED BY <2>1, <2>2, <2>3
  <1> QED BY <1>5, <1>6, <1>7 DEF Tells

\* StunTruthful: a STUN answer tells the client the address it was seen from.
THEOREM StunTellsTheTruth == Spec => []StunTruthful
  <1>1. Init => StunTruthful
    BY DEF Init, StunTruthful
  <1>2. StunTruthful /\ [Next]_vars => StunTruthful'
    <2> SUFFICES ASSUME StunTruthful, [Next]_vars PROVE StunTruthful'
      OBVIOUS
    <2>1. ASSUME NEW s \in Sources, NEW p \in Packets, StunAnswered(s, p) PROVE StunTruthful'
      <3>1. answer' = [source |-> s, packet |-> p,
                       response |-> BindingResponse(p, s.ip, s.port)]
        BY <2>1 DEF StunAnswered
      <3>2. /\ answer'.source = s /\ answer'.packet = p
            /\ answer'.response = BindingResponse(p, s.ip, s.port)
        BY <3>1
      <3> QED BY <3>2, BindingTells DEF StunTruthful
    <2>2. CASE UNCHANGED answer
      BY <2>2 DEF StunTruthful
    <2>3. CASE Pass
      BY <2>3 DEF Pass, StunTruthful
    <2>4. CASE Create
      BY <2>2, <2>4 DEF Create, CreateLimited, CreateRefused, CreateFails, CreateRoom, TooMany
    <2>5. CASE Connect
      BY <2>2, <2>5 DEF Connect, UpgradeForbidden, UpgradeLimited, Upgrade, TooMany, vars, doorVars
    <2>6. CASE Talk
      BY <2>2, <2>6 DEF Talk, Message, MessageLimited, MessageCutOff
    <2>7. CASE Stun
      BY <2>1, <2>2, <2>7 DEF Stun, StunLimited, StunIgnored, TooMany
    <2>8. CASE SweepCreate \/ SweepWS \/ SweepStun \/ UNCHANGED vars
      BY <2>2, <2>8 DEF SweepCreate, SweepWS, SweepStun, vars, doorVars
    <2> QED BY <2>3, <2>4, <2>5, <2>6, <2>7, <2>8 DEF Next
  <1> QED BY <1>1, <1>2, PTL DEF Spec
-----------------------------------------------------------------------------
(* What a step does to everything but the limiters that are charged *)

\* The requests with an address touch neither the limiter of a connection nor
\* what is remembered of its messages.
LEMMA AddressLimiters ==
    ASSUME LimitTypeOK, NEW table \in Tables, NEW a \in Addresses,
           Allowed(<<table, a>>) \/ Limited(<<table, a>>)
    PROVE  \A c \in Conns : limiters'[<<"message", c>>] = limiters[<<"message", c>>]
  <1>1. \A c \in Conns : <<"message", c>> \in Keys /\ <<"message", c>> # <<table, a>>
    BY KeyFacts DEF Tables
  <1>2. \E mem : limiters' = [limiters EXCEPT ![<<table, a>>] = mem]
    BY DEF Allowed, Limited, Charge, Refuse
  <1> QED BY <1>1, <1>2 DEF LimitTypeOK

LEMMA SweptLimiters ==
    ASSUME NEW K, Cleanup(K), NEW table \in Tables, K \subseteq {table} \X Addresses
    PROVE  \A c \in Conns : limiters'[<<"message", c>>] = limiters[<<"message", c>>]
  <1>1. \A c \in Conns : <<"message", c>> \in Keys /\ <<"message", c>> \notin K
    BY KeyFacts DEF Tables
  <1> QED BY <1>1 DEF Cleanup

MessagesUntouched ==
    /\ strikes' = strikes /\ refusals' = refusals
    /\ \A c \in Conns : limiters'[<<"message", c>>] = limiters[<<"message", c>>]
    /\ conn' = conn \/ \E c \in Conns : conn[c] = "new" /\ conn' = [conn EXCEPT ![c] = "open"]

RowsPaid ==
    \/ rooms' = rooms /\ due' = due
    \/ \E k \in Keys, n \in {0, 1} : /\ rooms' = [rooms EXCEPT ![k] = @ + n]
                                     /\ due' = [due EXCEPT ![k] = @ + Cost[k]]

LinksFromForms ==
    \/ links' = links
    \/ \E form \in Forms : /\ Acceptable(form)
                           /\ links' = links \cup (IF form.server = "none" THEN {} ELSE {form.host})

SweepKept == sweep' \in {sweep, None, now}

LEMMA TooManyKeeps ==
    ASSUME LimitTypeOK, NEW table \in Tables, NEW a \in Addresses, TooMany(<<table, a>>)
    PROVE  MessagesUntouched /\ RowsPaid /\ LinksFromForms /\ SweepKept
  BY AddressLimiters DEF TooMany, MessagesUntouched, RowsPaid, LinksFromForms, SweepKept

\* What is paid for and makes no row.
LEMMA PaidNoRow ==
    ASSUME LimitTypeOK, rooms \in [Keys -> Nat],
           NEW table \in Tables, NEW a \in Addresses, Pay(<<table, a>>, a),
           UNCHANGED <<conn, strikes, rooms, links, sweep, refusals>>
    PROVE  MessagesUntouched /\ RowsPaid /\ LinksFromForms /\ SweepKept
  <1>1. MessagesUntouched
    BY AddressLimiters DEF Pay, MessagesUntouched
  <1>2. RowsPaid
    <2> DEFINE k == <<table, a>>
    <2>1. k \in Keys /\ due' = [due EXCEPT ![k] = @ + Cost[k]] BY KeyFacts DEF Pay
    <2> HIDE DEF k
    <2>2. rooms' = [rooms EXCEPT ![k] = @ + 0] BY <2>1
    <2> QED BY <2>1, <2>2 DEF RowsPaid
  <1> QED BY <1>1, <1>2 DEF LinksFromForms, SweepKept

LEMMA CreateKeeps ==
    ASSUME LimitTypeOK, rooms \in [Keys -> Nat], Create
    PROVE  MessagesUntouched /\ RowsPaid /\ LinksFromForms /\ SweepKept
  <1> USE DEF Tables
  <1>1. PICK w \in Ways : \/ CreateLimited(w)
                          \/ \E form \in Forms : CreateRefused(w, form) \/ CreateFails(w, form)
                                                 \/ CreateRoom(w, form)
    BY DEF Create
  <1> DEFINE a == Responsible(w)
  <1>2. a \in Addresses /\ KeyOf("create", w) = <<"create", a>>
    BY KeyFacts, ClientIsResponsible
  <1>3. CASE CreateLimited(w)
    BY <1>2, <1>3, TooManyKeeps DEF CreateLimited
  <1>4. ASSUME NEW form \in Forms, CreateRefused(w, form) \/ CreateFails(w, form)
        PROVE  MessagesUntouched /\ RowsPaid /\ LinksFromForms /\ SweepKept
    BY <1>2, <1>4, PaidNoRow DEF CreateRefused, CreateFails
  <1>5. ASSUME NEW form \in Forms, CreateRoom(w, form)
        PROVE  MessagesUntouched /\ RowsPaid /\ LinksFromForms /\ SweepKept
    <2> HIDE DEF a
    <2>1. Pay(<<"create", a>>, a) /\ rooms' = [rooms EXCEPT ![<<"create", a>>] = @ + 1]
          /\ UNCHANGED <<conn, strikes, sweep, refusals>>
      BY <1>2, <1>5 DEF CreateRoom, a
    <2>2. MessagesUntouched
      BY <1>2, <2>1, AddressLimiters DEF Pay, MessagesUntouched
    <2>3. RowsPaid
      BY <1>2, <2>1, KeyFacts DEF Pay, RowsPaid
    <2>4. LinksFromForms
      BY <1>5 DEF CreateRoom, LinksFromForms
    <2> QED BY <2>1, <2>2, <2>3, <2>4 DEF SweepKept
  <1> QED BY <1>1, <1>3, <1>4, <1>5

LEMMA ConnectKeeps ==
    ASSUME LimitTypeOK, rooms \in [Keys -> Nat], Connect
    PROVE  MessagesUntouched /\ RowsPaid /\ LinksFromForms /\ SweepKept
  <1> USE DEF Tables
  <1>1. ASSUME NEW o \in Origins, UpgradeForbidden(o)
        PROVE  MessagesUntouched /\ RowsPaid /\ LinksFromForms /\ SweepKept
    BY <1>1 DEF UpgradeForbidden, vars, doorVars, limitVars,
                MessagesUntouched, RowsPaid, LinksFromForms, SweepKept
  <1>2. ASSUME NEW o \in Origins, NEW w \in Ways, UpgradeLimited(w, o)
        PROVE  MessagesUntouched /\ RowsPaid /\ LinksFromForms /\ SweepKept
    <2>1. TooMany(<<"ws", Responsible(w)>>) /\ Responsible(w) \in Addresses
      BY <1>2, KeyFacts, ClientIsResponsible DEF UpgradeLimited
    <2> QED BY <2>1, TooManyKeeps
  <1>3. ASSUME NEW o \in Origins, NEW w \in Ways, NEW c \in Conns, NEW fresh \in BOOLEAN,
               Upgrade(w, o, c, fresh)
        PROVE  MessagesUntouched /\ RowsPaid /\ LinksFromForms /\ SweepKept
    <2> DEFINE a == Responsible(w)
               n == IF fresh THEN 1 ELSE 0
    <2>1. a \in Addresses /\ KeyOf("ws", w) = <<"ws", a>>
      BY KeyFacts, ClientIsResponsible
    <2> HIDE DEF a, n
    <2>2. /\ Pay(<<"ws", a>>, a) /\ rooms' = [rooms EXCEPT ![<<"ws", a>>] = @ + n]
          /\ conn[c] = "new" /\ conn' \in {conn, [conn EXCEPT ![c] = "open"]}
          /\ UNCHANGED <<strikes, links, sweep, refusals>>
      BY <1>3, <2>1 DEF Upgrade, a, n
    <2>3. MessagesUntouched
      BY <2>1, <2>2, AddressLimiters DEF Pay, MessagesUntouched
    <2>4. RowsPaid
      <3>1. n \in {0, 1} BY DEF n
      <3> QED BY <2>1, <2>2, <3>1, KeyFacts DEF Pay, RowsPaid
    <2> QED BY <2>2, <2>3, <2>4 DEF SweepKept, LinksFromForms
  <1> QED BY <1>1, <1>2, <1>3 DEF Connect

LEMMA StunKeeps ==
    ASSUME LimitTypeOK, rooms \in [Keys -> Nat], Stun
    PROVE  MessagesUntouched /\ RowsPaid /\ LinksFromForms /\ SweepKept
  <1> USE DEF Tables
  <1>1. ASSUME NEW s \in Sources, StunLimited(s)
        PROVE  MessagesUntouched /\ RowsPaid /\ LinksFromForms /\ SweepKept
    BY <1>1, KeyFacts, TooManyKeeps DEF StunLimited
  <1>2. ASSUME NEW s \in Sources, NEW p \in Packets, StunIgnored(s, p) \/ StunAnswered(s, p)
        PROVE  MessagesUntouched /\ RowsPaid /\ LinksFromForms /\ SweepKept
    <2>1. /\ Pay(<<"stun", s.addr>>, s.addr) /\ s.addr \in Addresses
          /\ UNCHANGED <<conn, strikes, rooms, links, sweep, refusals>>
      BY <1>2, KeyFacts DEF StunIgnored, StunAnswered
    <2> QED BY <2>1, PaidNoRow
  <1> QED BY <1>1, <1>2 DEF Stun

\* Every step that is not a message of a connection.
LEMMA OtherSteps ==
    ASSUME LimitTypeOK, rooms \in [Keys -> Nat], [Next]_vars, ~Talk
    PROVE  MessagesUntouched /\ RowsPaid /\ LinksFromForms /\ SweepKept
  <1> USE DEF Tables
  <1>1. CASE SweepCreate
    BY <1>1, SweptLimiters
       DEF SweepCreate, MessagesUntouched, RowsPaid, LinksFromForms, SweepKept
  <1>2. CASE SweepWS
    <2>1. UnusedBefore("ws", sweep) \subseteq {"ws"} \X Addresses BY DEF UnusedBefore
    <2> QED BY <1>2, <2>1, SweptLimiters
            DEF SweepWS, MessagesUntouched, RowsPaid, LinksFromForms, SweepKept
  <1>3. CASE SweepStun
    BY <1>3, SweptLimiters
       DEF SweepStun, doorVars, MessagesUntouched, RowsPaid, LinksFromForms, SweepKept
  <1>4. CASE Pass
    BY <1>4 DEF Pass, Tick, MessagesUntouched, RowsPaid, LinksFromForms, SweepKept
  <1>5. CASE UNCHANGED vars
    BY <1>5 DEF vars, doorVars, limitVars, MessagesUntouched, RowsPaid, LinksFromForms, SweepKept
  <1> QED BY <1>1, <1>2, <1>3, <1>4, <1>5, CreateKeeps, ConnectKeeps, StunKeeps DEF Next
-----------------------------------------------------------------------------
(* Types, and what is remembered of refused messages *)

MessageKey(c) == <<"message", c>>

\* As long as a connection has strikes, the last of them were refused since its
\* limiter was last charged, and within the time in which it refills one message.
StrikesKept(c) ==
    /\ refusals[c] \in Seq(Nat) /\ Len(refusals[c]) <= 4 /\ strikes[c] <= Len(refusals[c])
    /\ conn[c] = "cut" => strikes[c] = rateLimitMaxConsecutiveViolations + 1
    /\ conn[c] # "cut" => strikes[c] <= rateLimitMaxConsecutiveViolations
    /\ strikes[c] > 0 =>
        /\ limiters[MessageKey(c)] # None
        /\ limiters[MessageKey(c)].last <= refusals[c][strikes[c]]
        /\ refusals[c][1] < limiters[MessageKey(c)].last + Cost[MessageKey(c)]

StrikesRemembered == \A c \in Conns : StrikesKept(c)

\* The rows of an address are paid for.
RowsArePaid == \A k \in Keys : rooms[k] * Cost[k] <= due[k]

DoorInv ==
    /\ DoorTypeOK
    /\ refusals \in [Conns -> Seq(Nat)]
    /\ StrikesRemembered
    /\ RowsArePaid
    /\ LinksAllowed

LEMMA DoorInvInitially == Init => DoorInv
  <1> SUFFICES ASSUME Init PROVE DoorInv
    OBVIOUS
  <1>1. LimitTypeOK
    BY LimitTypeInitially DEF Init
  <1>2. DoorTypeOK
    BY <1>1 DEF Init, DoorTypeOK, rateLimitMaxConsecutiveViolations
  <1>3. StrikesRemembered /\ refusals \in [Conns -> Seq(Nat)]
    BY DEF Init, StrikesRemembered, StrikesKept, rateLimitMaxConsecutiveViolations
  <1>4. RowsArePaid
    <2> SUFFICES ASSUME NEW k \in Keys PROVE rooms[k] * Cost[k] <= due[k]
      BY DEF RowsArePaid
    <2>1. rooms[k] = 0 /\ due[k] = 0 /\ Cost[k] \in Nat
      BY LimitAssumption DEF Init
    <2> QED BY <2>1
  <1> QED BY <1>2, <1>3, <1>4 DEF DoorInv, LinksAllowed, Init

LEMMA LengthToFour ==
    ASSUME NEW s \in Seq(Nat), Len(s) <= 4
    PROVE  Len(s) \in 0..4
  <1> DEFINE n == Len(s)
  <1>1. n \in Nat OBVIOUS
  <1>2. n <= 4 OBVIOUS
  <1> HIDE DEF n
  <1>3. n \in 0..4 BY <1>1, <1>2
  <1> QED BY <1>3 DEF n

LEMMA DoorFacts ==
    ASSUME DoorInv
    PROVE  /\ LimitTypeOK /\ now \in Nat
           /\ conn \in [Conns -> {"new", "open", "cut"}]
           /\ strikes \in [Conns -> 0..4]
           /\ refusals \in [Conns -> Seq(Nat)]
           /\ rooms \in [Keys -> Nat] /\ due \in [Keys -> Nat]
           /\ sweep \in Nat \cup {None}
           /\ \A c \in Conns : /\ Len(refusals[c]) \in 0..4
                               /\ conn[c] # "cut" => strikes[c] <= 3
  <1>1. /\ LimitTypeOK /\ now \in Nat
        /\ conn \in [Conns -> {"new", "open", "cut"}]
        /\ refusals \in [Conns -> Seq(Nat)]
        /\ rooms \in [Keys -> Nat] /\ due \in [Keys -> Nat]
        /\ sweep \in Nat \cup {None}
    BY DEF DoorInv, DoorTypeOK, LimitTypeOK
  <1>2. strikes \in [Conns -> 0..4]
    BY DEF DoorInv, DoorTypeOK, rateLimitMaxConsecutiveViolations
  <1>3. ASSUME NEW c \in Conns
        PROVE  Len(refusals[c]) \in 0..4 /\ (conn[c] # "cut" => strikes[c] <= 3)
    <2>1. refusals[c] \in Seq(Nat) /\ Len(refusals[c]) <= 4
          /\ (conn[c] # "cut" => strikes[c] <= 3)
      BY DEF DoorInv, StrikesRemembered, StrikesKept, rateLimitMaxConsecutiveViolations
    <2>2. Len(refusals[c]) \in 0..4 BY <2>1, LengthToFour
    <2> QED BY <2>1, <2>2
  <1> QED BY <1>1, <1>2, <1>3

LEMMA DoorTypeStep ==
    ASSUME DoorInv, [Next]_vars
    PROVE  DoorTypeOK' /\ (refusals \in [Conns -> Seq(Nat)])'
  <1> USE LimitAssumption DEF rateLimitMaxConsecutiveViolations
  <1>1. LimitTypeOK /\ rooms \in [Keys -> Nat] /\ now \in Nat
    BY DoorFacts
  <1>2. LimitTypeOK' /\ now' \in Nat
    BY <1>1, DoorSteps, LimitTypeStep DEF LimitNext, LimitTypeOK
  <1>3. CASE Talk
    <2>1. PICK c \in Conns : Message(c) \/ MessageLimited(c) \/ MessageCutOff(c)
      BY <1>3 DEF Talk
    <2>2. /\ strikes[c] \in 0..3 /\ conn[c] = "open"
          /\ refusals[c] \in Seq(Nat) /\ Len(refusals[c]) \in 0..4
      <3>1. conn[c] = "open" BY <2>1 DEF Message, MessageLimited, MessageCutOff, Refused
      <3>2. strikes[c] \in 0..4 /\ strikes[c] <= 3 BY <3>1, DoorFacts
      <3>3. refusals[c] \in Seq(Nat) /\ Len(refusals[c]) \in 0..4 BY DoorFacts
      <3> QED BY <3>1, <3>2, <3>3
    <2>3. /\ rooms' = rooms /\ sweep' = sweep
          /\ conn' = conn \/ conn' = [conn EXCEPT ![c] = "cut"]
          /\ strikes' = [strikes EXCEPT ![c] = 0] \/ strikes' = [strikes EXCEPT ![c] = @ + 1]
          /\ due' = due \/ due' = [due EXCEPT ![MessageKey(c)] = @ + Cost[MessageKey(c)]]
      BY <2>1 DEF Message, MessageLimited, MessageCutOff, Refused, MessageKey
    <2>4. strikes' \in [Conns -> 0..4] /\ conn' \in [Conns -> {"new", "open", "cut"}]
      <3>1. conn' \in [Conns -> {"new", "open", "cut"}] BY <2>3, DoorFacts
      <3>2. strikes[c] + 1 \in 0..4 BY <2>2
      <3>3. strikes' \in [Conns -> 0..4]
        <4>1. strikes \in [Conns -> 0..4] BY DoorFacts
        <4> QED BY <2>3, <3>2, <4>1
      <3> QED BY <3>1, <3>3
    <2>5. due' \in [Keys -> Nat]
      <3>1. MessageKey(c) \in Keys BY KeyFacts DEF MessageKey
      <3>2. due \in [Keys -> Nat] /\ Cost[MessageKey(c)] \in Nat BY <3>1, DoorFacts
      <3>3. due[MessageKey(c)] + Cost[MessageKey(c)] \in Nat BY <3>1, <3>2
      <3> QED BY <2>3, <3>2, <3>3
    <2>6. refusals' \in [Conns -> Seq(Nat)]
      <3> DEFINE r == SubSeq(<<now>> \o refusals[c], 1,
                             IF Len(refusals[c]) < 4 THEN Len(refusals[c]) + 1 ELSE 4)
      <3>1. r \in Seq(Nat)
        <4>1. <<now>> \o refusals[c] \in Seq(Nat) /\ Len(<<now>> \o refusals[c]) = Len(refusals[c]) + 1
          BY <1>1, <2>2
        <4> QED BY <2>2, <4>1
      <3>2. refusals' = refusals \/ refusals' = [refusals EXCEPT ![c] = r]
        BY <2>1 DEF Message, MessageLimited, MessageCutOff, Refused
      <3> HIDE DEF r
      <3> QED BY <3>1, <3>2, DoorFacts
    <2>7. rooms' \in [Keys -> Nat] /\ sweep' \in Nat \cup {None} BY <2>3, DoorFacts
    <2> QED BY <1>2, <2>4, <2>5, <2>6, <2>7 DEF DoorTypeOK
  <1>4. CASE ~Talk
    <2>1. MessagesUntouched /\ RowsPaid /\ SweepKept
      BY <1>1, <1>4, OtherSteps
    <2>2. strikes' \in [Conns -> 0..4] /\ conn' \in [Conns -> {"new", "open", "cut"}]
          /\ refusals' \in [Conns -> Seq(Nat)]
      <3>1. strikes' = strikes /\ refusals' = refusals BY <2>1 DEF MessagesUntouched
      <3>2. conn' \in [Conns -> {"new", "open", "cut"}]
        BY <2>1, DoorFacts DEF MessagesUntouched
      <3> QED BY <3>1, <3>2, DoorFacts
    <2>3. rooms' \in [Keys -> Nat] /\ due' \in [Keys -> Nat]
      <3>1. CASE rooms' = rooms /\ due' = due BY <3>1, DoorFacts
      <3>2. ASSUME NEW k \in Keys, NEW n \in {0, 1}, rooms' = [rooms EXCEPT ![k] = @ + n],
                   due' = [due EXCEPT ![k] = @ + Cost[k]]
            PROVE  rooms' \in [Keys -> Nat] /\ due' \in [Keys -> Nat]
        <4>1. rooms[k] + n \in Nat /\ due[k] + Cost[k] \in Nat BY DoorFacts
        <4> QED BY <3>2, <4>1, DoorFacts
      <3> QED BY <2>1, <3>1, <3>2 DEF RowsPaid
    <2>4. sweep' \in Nat \cup {None}
      BY <1>1, <2>1, DoorFacts DEF SweepKept
    <2> QED BY <1>2, <2>2, <2>3, <2>4 DEF DoorTypeOK
  <1> QED BY <1>3, <1>4

\* The tokens of a bucket that does not pay for a message have not been refilled.
LEMMA RefusedIsEmpty ==
    ASSUME LimitTypeOK, NEW c \in Conns, Limited(MessageKey(c))
    PROVE  /\ limiters'[MessageKey(c)] # None
           /\ limiters'[MessageKey(c)].last = Limiter(MessageKey(c)).last
           /\ limiters[MessageKey(c)] # None =>
                    Limiter(MessageKey(c)) = limiters[MessageKey(c)]
           /\ Limiter(MessageKey(c)).last \in Nat /\ Limiter(MessageKey(c)).last <= now
           /\ now < Limiter(MessageKey(c)).last + Cost[MessageKey(c)]
  <1> DEFINE k == MessageKey(c)
             mem == [Limiter(k) EXCEPT !.lastUse = now]
  <1>1. k \in Keys /\ Cost[k] <= Cap[k]
    BY KeyFacts, BurstAssumption DEF MessageKey
  <1>2. Limiter(k) \in Memory /\ now \in Nat /\ Cap[k] \in Nat /\ Cost[k] \in Nat
    BY <1>1, LimiterFacts DEF LimitTypeOK
  <1>3. Limiter(k).tokens \in Nat /\ Limiter(k).last \in Nat /\ Limiter(k).lastUse \in Nat
    BY <1>2 DEF Memory
  <1>4. Limiter(k).last <= now
    <2>1. Limiter(k).last <= Limiter(k).lastUse /\ Limiter(k).lastUse <= now
      BY <1>1, LimiterFacts
    <2> QED BY <1>2, <1>3, <2>1
  <1>5. now < Limiter(k).last + Cost[k]
    <2>1. Least(Cap[k], Limiter(k).tokens + (now - Limiter(k).last)) < Cost[k]
      BY DEF Limited, Refuse, Tokens
    <2> QED BY <1>1, <1>2, <1>3, <1>4, <2>1 DEF Least
  <1>6. mem \in Memory /\ mem.last = Limiter(k).last
    BY <1>2 DEF Memory
  <1>7. limiters'[k] = mem
    BY <1>1 DEF Limited, Refuse, LimitTypeOK
  <1>8. limiters'[k] # None /\ limiters'[k].last = Limiter(k).last
    <2> HIDE DEF mem
    <2> QED BY <1>6, <1>7, LimitAssumption DEF Memory
  <1> QED BY <1>3, <1>4, <1>5, <1>8 DEF Limiter

LEMMA StrikesStep ==
    ASSUME DoorInv, [Next]_vars
    PROVE  StrikesRemembered'
  <1> USE DEF rateLimitMaxConsecutiveViolations
  <1>1. LimitTypeOK /\ rooms \in [Keys -> Nat] /\ now \in Nat
    BY DoorFacts
  <1>2. /\ conn \in [Conns -> {"new", "open", "cut"}] /\ strikes \in [Conns -> 0..4]
        /\ refusals \in [Conns -> Seq(Nat)] /\ StrikesRemembered
    BY DoorFacts DEF DoorInv
  <1>3. CASE ~Talk
    <2>1. MessagesUntouched
      BY <1>1, <1>3, OtherSteps
    <2>2. \A d \in Conns : conn'[d] = "cut" <=> conn[d] = "cut"
      BY <1>2, <2>1 DEF MessagesUntouched
    <2> SUFFICES ASSUME NEW d \in Conns PROVE StrikesKept(d)'
      BY DEF StrikesRemembered
    <2>3. StrikesKept(d) BY <1>2 DEF StrikesRemembered
    <2> QED BY <2>1, <2>2, <2>3 DEF MessagesUntouched, StrikesKept, MessageKey
  <1>4. ASSUME NEW c \in Conns, Message(c) \/ MessageLimited(c) \/ MessageCutOff(c)
        PROVE  StrikesRemembered'
    <2>1. conn[c] = "open" /\ strikes[c] <= 3
      <3>1. conn[c] = "open" BY <1>4 DEF Message, MessageLimited, MessageCutOff, Refused
      <3> QED BY <3>1, DoorFacts
    <2>2. ASSUME NEW d \in Conns, d # c
          PROVE  /\ conn'[d] = conn[d] /\ strikes'[d] = strikes[d] /\ refusals'[d] = refusals[d]
                 /\ limiters'[MessageKey(d)] = limiters[MessageKey(d)]
      <3>1. MessageKey(d) # MessageKey(c) /\ MessageKey(d) \in Keys
        BY <2>2, KeyFacts DEF MessageKey
      <3>2. \E mem : limiters' = [limiters EXCEPT ![MessageKey(c)] = mem]
        BY <1>4 DEF Message, MessageLimited, MessageCutOff, Refused, Allowed, Limited,
                    Charge, Refuse, MessageKey
      <3>3. limiters'[MessageKey(d)] = limiters[MessageKey(d)]
        BY <1>1, <3>1, <3>2 DEF LimitTypeOK
      <3>4. conn'[d] = conn[d] /\ strikes'[d] = strikes[d] /\ refusals'[d] = refusals[d]
        BY <1>2, <1>4, <2>2 DEF Message, MessageLimited, MessageCutOff, Refused
      <3> QED BY <3>3, <3>4
    <2>9. ASSUME NEW d \in Conns, d # c PROVE StrikesKept(d)'
      <3>1. StrikesKept(d) BY <1>2 DEF StrikesRemembered
      <3> QED BY <2>2, <2>9, <3>1 DEF StrikesKept
    <2>3. CASE Message(c)
      <3>1. conn'[c] = "open" /\ strikes'[c] = 0 /\ refusals'[c] = refusals[c]
        BY <1>2, <2>1, <2>3 DEF Message
      <3>2. refusals[c] \in Seq(Nat) /\ Len(refusals[c]) \in 0..4 BY DoorFacts
      <3>3. ASSUME NEW d \in Conns, d = c PROVE StrikesKept(d)'
        <4>1. conn'[d] = "open" /\ strikes'[d] = 0 /\ refusals'[d] = refusals[c]
          BY <3>1, <3>3
        <4> DEFINE n == Len(refusals'[d])
        <4>2. n \in 0..4 BY <3>2, <4>1
        <4> HIDE DEF n
        <4>3. n <= 4 /\ strikes'[d] <= n BY <4>1, <4>2
        <4>4. refusals'[d] \in Seq(Nat) BY <3>2, <4>1
        <4> QED BY <4>1, <4>3, <4>4 DEF StrikesKept, n
      <3> QED BY <2>9, <3>3 DEF StrikesRemembered
    <2>4. CASE MessageLimited(c) \/ MessageCutOff(c)
      <3> DEFINE n == Len(refusals[c])
                 s == <<now>> \o refusals[c]
                 r == SubSeq(s, 1, IF n < 4 THEN n + 1 ELSE 4)
                 k == MessageKey(c)
      <3>1. /\ n \in 0..4 /\ strikes[c] \in 0..3 /\ strikes[c] <= n
            /\ refusals[c] \in Seq(Nat)
        BY <1>2, <2>1, DoorFacts DEF StrikesRemembered, StrikesKept
      <3>2. /\ s \in Seq(Nat) /\ Len(s) = n + 1 /\ s[1] = now
            /\ \A i \in 1..n : s[i + 1] = refusals[c][i]
        BY <1>1, <3>1
      <3>3. /\ r \in Seq(Nat) /\ Len(r) = (IF n < 4 THEN n + 1 ELSE 4) /\ r[1] = now
            /\ \A i \in 1..3 : i <= n => r[i + 1] = refusals[c][i]
        <4> DEFINE m == IF n < 4 THEN n + 1 ELSE 4
        <4>1. m \in 1..(n + 1) /\ (\A i \in 1..3 : i <= n => i + 1 \in 1..m) BY <3>1
        <4> HIDE DEF s, m, n
        <4>2. SubSeq(s, 1, m) \in Seq(Nat) /\ Len(SubSeq(s, 1, m)) = m
              /\ \A j \in 1..m : SubSeq(s, 1, m)[j] = s[j]
          BY <3>1, <3>2, <4>1
        <4>3. 1 \in 1..m BY <3>1, <4>1
        <4> QED BY <3>1, <3>2, <4>1, <4>2, <4>3 DEF m
      <3>4. Limited(k) /\ strikes' = [strikes EXCEPT ![c] = @ + 1]
            /\ refusals' = [refusals EXCEPT ![c] = r]
        BY <2>4 DEF MessageLimited, MessageCutOff, Refused, MessageKey
      <3> HIDE DEF n, s, r
      <3>5. strikes'[c] = strikes[c] + 1 /\ refusals'[c] = r
        BY <1>2, <3>4
      <3>6. conn'[c] = "cut" <=> strikes[c] + 1 > 3
        BY <1>2, <2>1, <2>4, <3>1, <3>5 DEF MessageLimited, MessageCutOff
      <3>7. /\ limiters'[k] # None
            /\ limiters'[k].last <= r[strikes[c] + 1]
            /\ r[1] < limiters'[k].last + Cost[k]
        <4>1. /\ limiters'[k] # None /\ limiters'[k].last = Limiter(k).last
              /\ limiters[k] # None => Limiter(k) = limiters[k]
              /\ Limiter(k).last \in Nat /\ Limiter(k).last <= now
              /\ now < Limiter(k).last + Cost[k]
          BY <1>1, <3>4, RefusedIsEmpty
        <4>2. CASE strikes[c] = 0
          BY <3>3, <4>1, <4>2
        <4>3. CASE strikes[c] > 0
          <5>1. limiters[k] # None /\ limiters[k].last <= refusals[c][strikes[c]]
            BY <1>2, <4>3 DEF StrikesRemembered, StrikesKept
          <5>2. r[strikes[c] + 1] = refusals[c][strikes[c]]
            <6>1. strikes[c] \in 1..3 /\ strikes[c] <= n BY <3>1, <4>3
            <6> QED BY <3>3, <6>1
          <5> QED BY <3>3, <4>1, <5>1, <5>2
        <4> QED BY <3>1, <4>2, <4>3
      <3>8. Len(r) <= 4 /\ strikes[c] + 1 <= Len(r)
        BY <3>1, <3>3
      <3>9. ASSUME NEW d \in Conns, d = c PROVE StrikesKept(d)'
        <4>1. strikes'[d] = strikes[c] + 1 /\ refusals'[d] = r /\ MessageKey(d) = k
          BY <3>5, <3>9
        <4>2. (conn'[d] = "cut" => strikes'[d] = 4) /\ (conn'[d] # "cut" => strikes'[d] <= 3)
          BY <3>1, <3>6, <3>9, <4>1
        <4> HIDE DEF k
        <4>3. /\ limiters'[MessageKey(d)] # None
              /\ limiters'[MessageKey(d)].last <= refusals'[d][strikes'[d]]
              /\ refusals'[d][1] < limiters'[MessageKey(d)].last + Cost[MessageKey(d)]
          BY <3>7, <4>1
        <4>4. refusals'[d] \in Seq(Nat) /\ Len(refusals'[d]) <= 4 /\ strikes'[d] <= Len(refusals'[d])
          BY <3>3, <3>8, <4>1
        <4> QED BY <4>2, <4>3, <4>4 DEF StrikesKept
      <3> QED BY <2>9, <3>9 DEF StrikesRemembered
    <2> QED BY <1>4, <2>3, <2>4
  <1> QED BY <1>3, <1>4 DEF Talk

LEMMA RowsStep ==
    ASSUME DoorInv, [Next]_vars
    PROVE  RowsArePaid'
  <1>1. /\ LimitTypeOK /\ rooms \in [Keys -> Nat] /\ due \in [Keys -> Nat]
        /\ Cost \in [Keys -> Nat] /\ RowsArePaid
    <2>1. Cost \in [Keys -> Nat] BY LimitAssumption
    <2> QED BY <2>1, DoorFacts DEF DoorInv
  <1>2. \A n, c, d \in Nat : n * c <= d => /\ (n + 1) * c <= d + c
                                           /\ n * c <= d + c
    <2>1. \A n, c \in Nat : (n + 1) * c = n * c + c /\ n * c \in Nat OBVIOUS
    <2> QED BY <2>1
  <1>3. RowsPaid
    <2>1. Talk => RowsPaid
      <3> SUFFICES ASSUME NEW c \in Conns, Message(c) \/ MessageLimited(c) \/ MessageCutOff(c)
                   PROVE  RowsPaid
        BY DEF Talk
      <3>1. CASE MessageLimited(c) \/ MessageCutOff(c)
        BY <3>1 DEF MessageLimited, MessageCutOff, RowsPaid
      <3>2. CASE Message(c)
        <4> DEFINE k == MessageKey(c)
        <4>1. k \in Keys /\ rooms' = rooms /\ due' = [due EXCEPT ![k] = @ + Cost[k]]
          BY <3>2, KeyFacts DEF Message, MessageKey
        <4> HIDE DEF k
        <4>2. rooms' = [rooms EXCEPT ![k] = @ + 0] BY <1>1, <4>1
        <4> QED BY <4>1, <4>2 DEF RowsPaid
      <3> QED BY <3>1, <3>2
    <2> QED BY <1>1, <2>1, OtherSteps
  <1>4. CASE rooms' = rooms /\ due' = due
    BY <1>1, <1>4 DEF RowsArePaid
  <1>5. ASSUME NEW k \in Keys, NEW n \in {0, 1},
               rooms' = [rooms EXCEPT ![k] = @ + n], due' = [due EXCEPT ![k] = @ + Cost[k]]
        PROVE  RowsArePaid'
    <2>1. rooms[k] \in Nat /\ due[k] \in Nat /\ Cost[k] \in Nat /\ rooms[k] * Cost[k] <= due[k]
      BY <1>1 DEF RowsArePaid
    <2>2. rooms'[k] * Cost[k] <= due'[k]
      <3>1. due'[k] = due[k] + Cost[k] /\ rooms'[k] = rooms[k] + n BY <1>1, <1>5
      <3>2. (rooms[k] + 1) * Cost[k] <= due[k] + Cost[k] /\ rooms[k] * Cost[k] <= due[k] + Cost[k]
        BY <1>2, <2>1
      <3>3. rooms'[k] = rooms[k] \/ rooms'[k] = rooms[k] + 1 BY <2>1, <3>1
      <3> QED BY <3>1, <3>2, <3>3
    <2>3. \A j \in Keys : j # k => rooms'[j] = rooms[j] /\ due'[j] = due[j]
      BY <1>1, <1>5
    <2> QED BY <1>1, <2>2, <2>3 DEF RowsArePaid
  <1> QED BY <1>3, <1>4, <1>5 DEF RowsPaid

LEMMA LinksStep ==
    ASSUME DoorInv, [Next]_vars
    PROVE  LinksAllowed'
  <1>1. LimitTypeOK /\ rooms \in [Keys -> Nat] /\ LinksAllowed
    BY DEF DoorInv, DoorTypeOK
  <1>2. CASE Talk
    BY <1>1, <1>2 DEF Talk, Message, MessageLimited, MessageCutOff, LinksAllowed
  <1>3. CASE ~Talk
    <2>1. LinksFromForms
      BY <1>1, <1>3, OtherSteps
    <2> QED BY <1>1, <2>1 DEF LinksFromForms, LinksAllowed, Acceptable, HostAllowed
  <1> QED BY <1>2, <1>3

LEMMA DoorInvStep == DoorInv /\ [Next]_vars => DoorInv'
  BY DoorTypeStep, StrikesStep, RowsStep, LinksStep DEF DoorInv

THEOREM DoorInvariant == Spec => []DoorInv
  BY DoorInvInitially, DoorInvStep, PTL DEF Spec

\* DoorTypeOK: the limiters, the connections, the strikes and the histories have
\* their types, and no connection collects more strikes than it takes to cut it.
THEOREM DoorTypeCorrect == Spec => []DoorTypeOK
  BY DoorInvariant, PTL DEF DoorInv

\* LinksAllowed: no link is handed out to a host outside the white list.
THEOREM LinksAreAllowed == Spec => []LinksAllowed
  BY DoorInvariant, PTL DEF DoorInv

\* OnlyFloodsAreCut: a connection is cut only after four refusals in less than
\* the time that refills one message.
THEOREM FloodsAreCut == Spec => []OnlyFloodsAreCut
  <1>1. DoorInv => OnlyFloodsAreCut
    <2> SUFFICES ASSUME DoorInv, NEW c \in Conns, conn[c] = "cut"
                 PROVE  Len(refusals[c]) = 4
                        /\ refusals[c][1] - refusals[c][4] < Cost[<<"message", c>>]
      BY DEF OnlyFloodsAreCut
    <2>1. /\ refusals[c] \in Seq(Nat) /\ Len(refusals[c]) <= 4 /\ 4 <= Len(refusals[c])
          /\ limiters[MessageKey(c)] # None
          /\ limiters[MessageKey(c)].last <= refusals[c][4]
          /\ refusals[c][1] < limiters[MessageKey(c)].last + Cost[MessageKey(c)]
      BY DEF DoorInv, StrikesRemembered, StrikesKept, rateLimitMaxConsecutiveViolations
    <2>2. Len(refusals[c]) = 4 /\ refusals[c][1] \in Nat /\ refusals[c][4] \in Nat
      <3> DEFINE n == Len(refusals[c])
      <3>1. n \in 0..4 BY <2>1, LengthToFour
      <3>2. 4 <= n BY <2>1
      <3> HIDE DEF n
      <3>3. n = 4 BY <3>1, <3>2
      <3> QED BY <2>1, <3>3, Elements DEF n
    <2>3. limiters[MessageKey(c)].last \in Nat /\ Cost[MessageKey(c)] \in Nat
      BY <2>1, KeyFacts, LimitAssumption DEF DoorInv, DoorTypeOK, LimitTypeOK, MessageKey
    <2> DEFINE first == refusals[c][4]
               last  == refusals[c][1]
               made  == limiters[MessageKey(c)].last
               cost  == Cost[MessageKey(c)]
    <2>4. first \in Nat /\ last \in Nat /\ made \in Nat /\ cost \in Nat
          /\ made <= first /\ last < made + cost
      BY <2>1, <2>2, <2>3
    <2> HIDE DEF first, last, made, cost
    <2>5. last - first < cost
      BY <2>4
    <2> QED BY <2>2, <2>5 DEF first, last, cost, MessageKey
  <1> QED BY <1>1, DoorInvariant, PTL

\* RowsBounded: the rows an address makes are paid for from its burst and what
\* is refilled, whatever comes of its requests.
THEOREM RowsAreBounded == Spec => []RowsBounded
  <1>1. DoorInv /\ SpentBounded /\ ResponsiblePays => RowsBounded
    <2> SUFFICES ASSUME DoorInv, SpentBounded, ResponsiblePays, NEW k \in Keys
                 PROVE  rooms[k] * Cost[k] <= Cap[k] + now
      BY DEF RowsBounded
    <2>1. LimitTypeOK /\ rooms[k] \in Nat /\ due[k] \in Nat /\ rooms[k] * Cost[k] <= due[k]
      BY DEF DoorInv, DoorTypeOK, RowsArePaid
    <2>2. due[k] + Tokens(k) <= Cap[k] + now
      BY DEF SpentBounded, ResponsiblePays
    <2>3. Tokens(k) \in Nat /\ Cap[k] \in Nat /\ Cost[k] \in Nat /\ now \in Nat
      BY <2>1, TokensBounded, LimitAssumption DEF LimitTypeOK
    <2>4. rooms[k] * Cost[k] \in Nat BY <2>1, <2>3
    <2> QED BY <2>1, <2>2, <2>3, <2>4
  <1> QED BY <1>1, DoorInvariant, AddressesAreBounded, ResponsibleAlwaysPays, PTL
=============================================================================
