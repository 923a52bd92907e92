--------------------------- MODULE MemberViewsProofs ---------------------------
(***************************************************************************)
(* Proofs about MemberViews, for any number of connections and any ids     *)
(* they ask for.                                                           *)
(***************************************************************************)
EXTENDS MemberViews, TLAPS

LEMMA IdFacts ==
    /\ None \notin Clients /\ None \notin Ids /\ Clients \subseteq Ids
    /\ \A c \in Clients : Wanted[c] \in Ids /\ Wanted[c] \notin Clients
BY ViewAssumption DEF Ids, Range

-----------------------------------------------------------------------------
(* What the invariants rest on *)

IsMember(c) == members[id[c]] = c

\* A member is found under its own id, and its goroutine is past joinRoom.
Placed == \A i \in Present :
    /\ id[members[i]] = i
    /\ pc[members[i]] \in {"entered", "reading", "presence", "kicked"}

\* An id made up for a connection is used by no other.
MadeUp == \A c \in Clients : id[c] \in Clients => id[c] = c

\* The id of a connection that waits is free, and nobody else waits for it.
Reserved == \A c \in Clients : pc[c] = "waiting" =>
    /\ members[id[c]] = None
    /\ \A d \in Clients \ {c} : pc[d] = "waiting" => id[d] # id[c]

\* The role a presence message is about to store is still the true one.
TakenTruthful == "raced" \notin excuses =>
    \A c \in Clients : pc[c] = "presence" /\ IsMember(c) =>
        (taken[c] = "host" <=> id[c] = host)

Regular == excuses \cap {"reused", "kicked"} = {}

\* As long as nobody is kicked and no id used twice, every goroutine in its room
\* is a member under an id of its own.
Distinct == Regular => \A c \in Clients :
    /\ pc[c] # "kicked"
    /\ pc[c] \in {"entered", "reading", "presence"} => IsMember(c)
    /\ pc[c] # "new" => \A d \in Clients \ {c} : pc[d] # "new" => id[d] # id[c]

\* ... and the notice it is sending is about itself.
OwnNotice == Regular => \A c \in Clients : todo[c] # {} =>
    /\ note[c].id = id[c] /\ c \notin todo[c]
    /\ \/ pc[c] = "done" /\ note[c].type = "left"
       \/ pc[c] = "reading" /\ note[c].type = "joined"

\* The owner of id j is there, or is about to tell x of its departure.
Teller(x, j) == \E d \in Clients \ {x} :
    id[d] = j /\ (IsMember(d) \/ (pc[d] = "done" /\ x \in todo[d]))

\* Whom a member knows is there, or is about to take its leave.
KnowsNoOther == Regular =>
    \A x \in Clients : IsMember(x) => \A j \in roster[x] : Teller(x, j)

Heard(x, d) ==
    \/ id[d] \in roster[x]
    \/ pc[d] = "entered"
    \/ x \in todo[d] /\ note[d].type = "joined"

\* Whom it does not know is about to tell it that it has come.
KnowsOthers == Regular =>
    \A x, d \in Clients : IsMember(x) /\ IsMember(d) /\ x # d => Heard(x, d)

-----------------------------------------------------------------------------
\* Every step keeps the types.
LEMMA TypesKept ==
    ASSUME TypeOK, [Next]_vars
    PROVE  TypeOK'
<1> USE IdFacts DEF TypeOK, Labels
<1>1. ASSUME NEW c \in Clients, Ask(c)
      PROVE  TypeOK'
  <2>1. pc' \in [Clients -> Labels] /\ joinedAt' \in [Clients -> Nat] /\ clock' \in Nat
    BY <1>1 DEF Ask, Goto
  <2>2. id' \in [Clients -> Ids]
    BY <1>1 DEF Ask
  <2>3. asked' \in [Clients -> Clients \cup {None}]
    BY <1>1 DEF Ask
  <2>4. excuses' \subseteq {"reused", "kicked", "raced"}
    BY <1>1 DEF Ask
  <2> QED
    BY <1>1, <2>1, <2>2, <2>3, <2>4 DEF Ask, roomVars, viewVars, noteVars
<1>2. ASSUME NEW c \in Clients, Enter(c)
      PROVE  TypeOK'
  BY <1>2 DEF Enter, Goto, Send, Reading, Existed, Notice, MembersBut, Present, timeVars,
     roomVars, viewVars, noteVars
<1>3. ASSUME NEW c \in Clients, Announce(c)
      PROVE  TypeOK'
  BY <1>3 DEF Announce, Goto, Send, Reading, Existed, Notice, MembersBut, Present, timeVars,
     roomVars, viewVars, noteVars
<1>4. ASSUME NEW c \in Clients, GiveUp(c)
      PROVE  TypeOK'
  BY <1>4 DEF GiveUp, Goto, timeVars, roomVars, viewVars, noteVars
<1>5. ASSUME NEW c \in Clients, NEW m \in Clients, Tell(c, m)
      PROVE  TypeOK'
  BY <1>5 DEF Tell, timeVars, roomVars
<1>6. ASSUME NEW c \in Clients, TakeRole(c)
      PROVE  TypeOK'
  BY <1>6 DEF TakeRole, Goto, Reading, timeVars, roomVars, viewVars, noteVars
<1>7. ASSUME NEW c \in Clients, setUser(c)
      PROVE  TypeOK'
  BY <1>7 DEF setUser, Goto, timeVars, roomVars, viewVars, noteVars
<1>8. ASSUME NEW c \in Clients, NEW i \in Ids, KickDelete(c, i)
      PROVE  TypeOK'
  BY <1>8 DEF KickDelete, Goto, Reading, Notice, timeVars, viewVars
<1>9. ASSUME NEW c \in Clients, KickAnnounce(c)
      PROVE  TypeOK'
  BY <1>9 DEF KickAnnounce, Goto, Send, Reading, Existed, Notice, MembersBut, Present,
     timeVars, roomVars, viewVars, noteVars
<1>10. ASSUME NEW c \in Clients, Leave(c)
       PROVE  TypeOK'
  BY <1>10 DEF Leave, Goto, Send, Reading, Existed, Notice, MembersBut, Present, timeVars,
     roomVars, viewVars, noteVars
<1>11. ASSUME NEW c \in Clients, HandOver(c)
       PROVE  TypeOK'
  BY <1>11 DEF HandOver, Goto, Send, Reading, Existed, Notice, MembersBut, Present,
     timeVars, roomVars, viewVars, noteVars
<1>12. ASSUME NEW c \in Clients, LeaveLast(c)
       PROVE  TypeOK'
  BY <1>12 DEF LeaveLast, Goto, Send, Reading, Existed, Notice, MembersBut, Present,
     timeVars, roomVars, viewVars, noteVars
<1>13. CASE UNCHANGED vars
  BY <1>13 DEF vars, timeVars, roomVars, viewVars, noteVars
<1> HIDE IdFacts DEF TypeOK
<1> QED
  BY <1>1, <1>2, <1>3, <1>4, <1>5, <1>6, <1>7, <1>8, <1>9, <1>10,
      <1>11, <1>12, <1>13 DEF Next

\* Members stay where they are found.
LEMMA PlacedKept ==
    ASSUME TypeOK, Placed, [Next]_vars
    PROVE  Placed'
<1> USE IdFacts DEF TypeOK, Placed, Present
<1>1. ASSUME NEW c \in Clients, Ask(c)
      PROVE  Placed'
  BY <1>1 DEF Ask, Goto, roomVars, viewVars, noteVars
<1>2. ASSUME NEW c \in Clients, Enter(c)
      PROVE  Placed'
  BY <1>2 DEF Enter, Goto, noteVars
<1>3. ASSUME NEW c \in Clients, Announce(c)
      PROVE  Placed'
  BY <1>3 DEF Announce, Goto, Send, Notice, timeVars, roomVars, viewVars
<1>4. ASSUME NEW c \in Clients, GiveUp(c)
      PROVE  Placed'
  BY <1>4 DEF GiveUp, Goto, timeVars, roomVars, viewVars, noteVars
<1>5. ASSUME NEW c \in Clients, NEW m \in Clients, Tell(c, m)
      PROVE  Placed'
  BY <1>5 DEF Tell, timeVars, roomVars
<1>6. ASSUME NEW c \in Clients, TakeRole(c)
      PROVE  Placed'
  BY <1>6 DEF TakeRole, Goto, Reading, timeVars, roomVars, viewVars, noteVars
<1>7. ASSUME NEW c \in Clients, setUser(c)
      PROVE  Placed'
  BY <1>7 DEF setUser, Goto, timeVars, roomVars, viewVars, noteVars
<1>8. ASSUME NEW c \in Clients, NEW i \in Ids, KickDelete(c, i)
      PROVE  Placed'
  BY <1>8 DEF KickDelete, Goto, Reading, Notice, timeVars, viewVars
<1>9. ASSUME NEW c \in Clients, KickAnnounce(c)
      PROVE  Placed'
  BY <1>9 DEF KickAnnounce, Goto, timeVars, roomVars, viewVars
<1>10. ASSUME NEW c \in Clients, Leave(c)
       PROVE  Placed'
  BY <1>10 DEF Leave, Goto, Send, Reading, Existed, Notice, MembersBut, timeVars, roomVars,
     viewVars, noteVars
<1>11. ASSUME NEW c \in Clients, HandOver(c)
       PROVE  Placed'
  BY <1>11 DEF HandOver, Goto, Send, Reading, Existed, Notice, MembersBut, timeVars,
     roomVars, viewVars, noteVars
<1>12. ASSUME NEW c \in Clients, LeaveLast(c)
       PROVE  Placed'
  BY <1>12 DEF LeaveLast, Goto, Send, Reading, Existed, Notice, MembersBut, timeVars,
     roomVars, viewVars, noteVars
<1>13. CASE UNCHANGED vars
  BY <1>13 DEF vars, timeVars, roomVars, viewVars, noteVars
<1> HIDE IdFacts DEF TypeOK, Placed, Present
<1> QED
  BY <1>1, <1>2, <1>3, <1>4, <1>5, <1>6, <1>7, <1>8, <1>9, <1>10,
      <1>11, <1>12, <1>13 DEF Next

\* An id that was made up stays with its connection.
LEMMA MadeUpKept ==
    ASSUME TypeOK, MadeUp, [Next]_vars
    PROVE  MadeUp'
<1> USE IdFacts DEF TypeOK, MadeUp
<1>1. ASSUME NEW c \in Clients, Ask(c)
      PROVE  MadeUp'
  BY <1>1 DEF Ask, Goto, roomVars, viewVars, noteVars
<1>2. ASSUME NEW c \in Clients, Enter(c)
      PROVE  MadeUp'
  BY <1>2 DEF Enter, Goto, noteVars
<1>3. ASSUME NEW c \in Clients, Announce(c)
      PROVE  MadeUp'
  BY <1>3 DEF Announce, Goto, Send, Notice, timeVars, roomVars, viewVars
<1>4. ASSUME NEW c \in Clients, GiveUp(c)
      PROVE  MadeUp'
  BY <1>4 DEF GiveUp, Goto, timeVars, roomVars, viewVars, noteVars
<1>5. ASSUME NEW c \in Clients, NEW m \in Clients, Tell(c, m)
      PROVE  MadeUp'
  BY <1>5 DEF Tell, timeVars, roomVars
<1>6. ASSUME NEW c \in Clients, TakeRole(c)
      PROVE  MadeUp'
  BY <1>6 DEF TakeRole, Goto, Reading, timeVars, roomVars, viewVars, noteVars
<1>7. ASSUME NEW c \in Clients, setUser(c)
      PROVE  MadeUp'
  BY <1>7 DEF setUser, Goto, timeVars, roomVars, viewVars, noteVars
<1>8. ASSUME NEW c \in Clients, NEW i \in Ids, KickDelete(c, i)
      PROVE  MadeUp'
  BY <1>8 DEF KickDelete, Goto, Reading, Notice, timeVars, viewVars
<1>9. ASSUME NEW c \in Clients, KickAnnounce(c)
      PROVE  MadeUp'
  BY <1>9 DEF KickAnnounce, Goto, timeVars, roomVars, viewVars
<1>10. ASSUME NEW c \in Clients, Leave(c)
       PROVE  MadeUp'
  BY <1>10 DEF Leave, Goto, Send, Reading, Existed, Notice, timeVars, viewVars
<1>11. ASSUME NEW c \in Clients, HandOver(c)
       PROVE  MadeUp'
  BY <1>11 DEF HandOver, Goto, Send, Reading, Existed, Notice, timeVars
<1>12. ASSUME NEW c \in Clients, LeaveLast(c)
       PROVE  MadeUp'
  BY <1>12 DEF LeaveLast, Goto, Reading, Existed, timeVars, viewVars, noteVars
<1>13. CASE UNCHANGED vars
  BY <1>13 DEF vars, timeVars, roomVars, viewVars, noteVars
<1> HIDE IdFacts DEF TypeOK, MadeUp
<1> QED
  BY <1>1, <1>2, <1>3, <1>4, <1>5, <1>6, <1>7, <1>8, <1>9, <1>10,
      <1>11, <1>12, <1>13 DEF Next

\* Nobody takes the id of one that waits.
LEMMA ReservedKept ==
    ASSUME TypeOK, Placed, MadeUp, Reserved, [Next]_vars
    PROVE  Reserved'
<1> USE IdFacts DEF TypeOK, Reserved
<1>1. ASSUME NEW c \in Clients, Ask(c)
      PROVE  Reserved'
  <2>1. members[id'[c]] = None /\ \A d \in Clients \ {c} : pc[d] = "waiting" => id[d] # id'[c]
    <3>1. CASE Taken(Wanted[c])
      <4>1. id'[c] = c
        BY <1>1, <3>1 DEF Ask
      <4>2. members[c] = None
        <5> SUFFICES ASSUME members[c] # None
                     PROVE  FALSE
          OBVIOUS
        <5>0. c \in Present
          BY DEF Present
        <5>1. members[c] \in Clients
          BY <5>0 DEF Present
        <5>2. id[members[c]] = c /\ pc[members[c]] # "new"
          BY <5>0 DEF Placed
        <5>3. members[c] = c
          BY <5>1, <5>2 DEF MadeUp
        <5> QED
          BY <1>1, <5>2, <5>3 DEF Ask
      <4> QED
        BY <4>1, <4>2 DEF MadeUp
    <3>2. CASE ~Taken(Wanted[c])
      BY <1>1, <3>2 DEF Ask, Taken
    <3> QED
      BY <3>1, <3>2
  <2>2. /\ \A d \in Clients : d # c => id'[d] = id[d] /\ pc'[d] = pc[d]
        /\ members' = members
    BY <1>1 DEF Ask, Goto, roomVars
  <2>3. \A d \in Clients \ {c} : pc'[d] = "waiting" => members'[id'[d]] = None
    BY <2>2
  <2> QED
    BY <2>1, <2>2, <2>3
<1>2. ASSUME NEW c \in Clients, Enter(c)
      PROVE  Reserved'
  BY <1>2 DEF Enter, Goto
<1>3. ASSUME NEW c \in Clients, Announce(c)
      PROVE  Reserved'
  BY <1>3 DEF Announce, Goto, Send, Notice, timeVars, roomVars, viewVars
<1>4. ASSUME NEW c \in Clients, GiveUp(c)
      PROVE  Reserved'
  BY <1>4 DEF GiveUp, Goto, timeVars, roomVars, viewVars, noteVars
<1>5. ASSUME NEW c \in Clients, NEW m \in Clients, Tell(c, m)
      PROVE  Reserved'
  BY <1>5 DEF Tell, timeVars, roomVars
<1>6. ASSUME NEW c \in Clients, TakeRole(c)
      PROVE  Reserved'
  BY <1>6 DEF TakeRole, Goto, Reading, timeVars, roomVars, viewVars, noteVars
<1>7. ASSUME NEW c \in Clients, setUser(c)
      PROVE  Reserved'
  BY <1>7 DEF setUser, Goto, timeVars, roomVars, viewVars, noteVars
<1>8. ASSUME NEW c \in Clients, NEW i \in Ids, KickDelete(c, i)
      PROVE  Reserved'
  BY <1>8 DEF KickDelete, Goto, Reading, Notice, timeVars, viewVars
<1>9. ASSUME NEW c \in Clients, KickAnnounce(c)
      PROVE  Reserved'
  BY <1>9 DEF KickAnnounce, Goto, timeVars, roomVars, viewVars
<1>10. ASSUME NEW c \in Clients, Leave(c)
       PROVE  Reserved'
  BY <1>10 DEF Leave, Goto, Send, Reading, Existed, Notice, timeVars, viewVars
<1>11. ASSUME NEW c \in Clients, HandOver(c)
       PROVE  Reserved'
  <2>1. /\ \A d \in Clients : d # c => pc'[d] = pc[d]
        /\ id' = id /\ members' = [members EXCEPT ![id[c]] = None] /\ pc'[c] = "done"
    BY <1>11 DEF HandOver, Goto
  <2> QED
    BY <2>1
<1>12. ASSUME NEW c \in Clients, LeaveLast(c)
       PROVE  Reserved'
  BY <1>12 DEF LeaveLast, Goto, Reading, Existed, timeVars, viewVars, noteVars
<1>13. CASE UNCHANGED vars
  BY <1>13 DEF vars, timeVars, roomVars, viewVars, noteVars
<1> HIDE IdFacts DEF TypeOK, Reserved
<1> QED
  BY <1>1, <1>2, <1>3, <1>4, <1>5, <1>6, <1>7, <1>8, <1>9, <1>10,
      <1>11, <1>12, <1>13 DEF Next

\* auth_ok and host_changed are ordered by Room.mu.
LEMMA HostKnownKept ==
    ASSUME TypeOK, Placed, HostKnown, [Next]_vars
    PROVE  HostKnown'
<1> USE IdFacts DEF TypeOK, HostKnown, Present, Placed
<1>1. ASSUME NEW c \in Clients, Ask(c)
      PROVE  HostKnown'
  BY <1>1 DEF Ask, Goto, roomVars, viewVars, noteVars
<1>2. ASSUME NEW c \in Clients, Enter(c)
      PROVE  HostKnown'
  BY <1>2 DEF Enter, Goto, noteVars
<1>3. ASSUME NEW c \in Clients, Announce(c)
      PROVE  HostKnown'
  BY <1>3 DEF Announce, Goto, Send, Notice, timeVars, roomVars, viewVars
<1>4. ASSUME NEW c \in Clients, GiveUp(c)
      PROVE  HostKnown'
  BY <1>4 DEF GiveUp, Goto, timeVars, roomVars, viewVars, noteVars
<1>5. ASSUME NEW c \in Clients, NEW m \in Clients, Tell(c, m)
      PROVE  HostKnown'
  BY <1>5 DEF Tell, timeVars, roomVars
<1>6. ASSUME NEW c \in Clients, TakeRole(c)
      PROVE  HostKnown'
  BY <1>6 DEF TakeRole, Goto, Reading, timeVars, roomVars, viewVars, noteVars
<1>7. ASSUME NEW c \in Clients, setUser(c)
      PROVE  HostKnown'
  BY <1>7 DEF setUser, Goto, timeVars, roomVars, viewVars, noteVars
<1>8. ASSUME NEW c \in Clients, NEW i \in Ids, KickDelete(c, i)
      PROVE  HostKnown'
  BY <1>8 DEF KickDelete, Goto, Reading, Notice, timeVars, viewVars
<1>9. ASSUME NEW c \in Clients, KickAnnounce(c)
      PROVE  HostKnown'
  BY <1>9 DEF KickAnnounce, Goto, timeVars, roomVars, viewVars
<1>10. ASSUME NEW c \in Clients, Leave(c)
       PROVE  HostKnown'
  BY <1>10 DEF Leave, Goto, Send, Reading, Existed, Notice, timeVars, viewVars
<1>11. ASSUME NEW c \in Clients, HandOver(c)
       PROVE  HostKnown'
  <2> DEFINE rest == MembersBut({id[c]})
  <2>1. PICK h \in rest : /\ host' = id[h]
                           /\ hostSeen' = [x \in Clients |-> IF x \in rest THEN id[h] ELSE hostSeen[x]]
    BY <1>11 DEF HandOver
  <2>2. members' = [members EXCEPT ![id[c]] = None]
    BY <1>11 DEF HandOver
  <2>3. \A i \in Ids : members'[i] # None => members'[i] \in rest
    BY <2>2 DEF MembersBut
  <2>4. \A i \in Ids : members'[i] # None => members'[i] \in Clients
    BY <2>2
  <2>5. \A x \in rest : x \in Clients => hostSeen'[x] = host'
    BY <2>1
  <2> HIDE DEF rest
  <2> QED
    BY <2>3, <2>4, <2>5
<1>12. ASSUME NEW c \in Clients, LeaveLast(c)
       PROVE  HostKnown'
  <2>1. members' = [members EXCEPT ![id[c]] = None] /\ MembersBut({id[c]}) = {}
    BY <1>12 DEF LeaveLast
  <2>2. \A i \in Ids \ {id[c]} : members[i] = None
    <3> SUFFICES ASSUME NEW i \in Ids \ {id[c]}, members[i] # None
                 PROVE  members[i] \in MembersBut({id[c]})
      BY <2>1
    <3> QED
      BY DEF MembersBut
  <2>3. \A i \in Ids : members'[i] = None
    BY <2>1, <2>2
  <2> QED
    BY <2>3
<1>13. CASE UNCHANGED vars
  BY <1>13 DEF vars, timeVars, roomVars, viewVars, noteVars
<1> HIDE IdFacts DEF TypeOK, HostKnown, Present, Placed
<1> QED
  BY <1>1, <1>2, <1>3, <1>4, <1>5, <1>6, <1>7, <1>8, <1>9, <1>10,
      <1>11, <1>12, <1>13 DEF Next

\* A presence message stores a role that a migration has not overtaken.
LEMMA TakenKept ==
    ASSUME TypeOK, Placed, Reserved, TakenTruthful, [Next]_vars
    PROVE  TakenTruthful'
<1> USE IdFacts DEF TypeOK, TakenTruthful, IsMember
<1>1. ASSUME NEW c \in Clients, Ask(c)
      PROVE  TakenTruthful'
  BY <1>1 DEF Ask, Goto, roomVars, viewVars, noteVars
<1>2. ASSUME NEW c \in Clients, Enter(c)
      PROVE  TakenTruthful'
  BY <1>2 DEF Enter, Goto, noteVars
<1>3. ASSUME NEW c \in Clients, Announce(c)
      PROVE  TakenTruthful'
  BY <1>3 DEF Announce, Goto, Send, Notice, timeVars, roomVars, viewVars
<1>4. ASSUME NEW c \in Clients, GiveUp(c)
      PROVE  TakenTruthful'
  BY <1>4 DEF GiveUp, Goto, timeVars, roomVars, viewVars, noteVars
<1>5. ASSUME NEW c \in Clients, NEW m \in Clients, Tell(c, m)
      PROVE  TakenTruthful'
  BY <1>5 DEF Tell, timeVars, roomVars
<1>6. ASSUME NEW c \in Clients, TakeRole(c)
      PROVE  TakenTruthful'
  BY <1>6 DEF TakeRole, Goto, Reading, timeVars, roomVars, viewVars, noteVars
<1>7. ASSUME NEW c \in Clients, setUser(c)
      PROVE  TakenTruthful'
  BY <1>7 DEF setUser, Goto, timeVars, roomVars, viewVars, noteVars
<1>8. ASSUME NEW c \in Clients, NEW i \in Ids, KickDelete(c, i)
      PROVE  TakenTruthful'
  BY <1>8 DEF KickDelete, Goto, Reading, Notice, timeVars, viewVars
<1>9. ASSUME NEW c \in Clients, KickAnnounce(c)
      PROVE  TakenTruthful'
  BY <1>9 DEF KickAnnounce, Goto, timeVars, roomVars, viewVars
<1>10. ASSUME NEW c \in Clients, Leave(c)
       PROVE  TakenTruthful'
  BY <1>10 DEF Leave, Goto, Send, Reading, Existed, Notice, timeVars, viewVars
<1>11. ASSUME NEW c \in Clients, HandOver(c)
       PROVE  TakenTruthful'
  <2> DEFINE rest == MembersBut({id[c]})
  <2>1. PICK h \in rest : /\ host' = id[h]
                           /\ excuses' = excuses \cup {e \in {"raced"} : pc[h] = "presence"}
    BY <1>11 DEF HandOver
  <2>2. members' = [members EXCEPT ![id[c]] = None] /\ id' = id /\ taken' = taken
        /\ pc' = [pc EXCEPT ![c] = "done"] /\ id[c] = host
    BY <1>11 DEF HandOver, Goto
  <2>3. h \in Clients /\ id[h] # id[c] /\ members[id[h]] = h
    BY DEF MembersBut, Placed, Present
  <2> SUFFICES ASSUME "raced" \notin excuses', NEW d \in Clients,
                      pc'[d] = "presence", members'[id'[d]] = d
               PROVE  taken'[d] = "host" <=> id'[d] = host'
    OBVIOUS
  <2>4. d # h
    BY <2>1, <2>2
  <2>5. pc[d] = "presence" /\ members[id[d]] = d /\ id[d] # host
    BY <2>2
  <2>6. id[d] # id[h]
    BY <2>3, <2>4, <2>5
  <2> QED
    BY <2>1, <2>2, <2>5, <2>6
<1>12. ASSUME NEW c \in Clients, LeaveLast(c)
       PROVE  TakenTruthful'
  BY <1>12 DEF LeaveLast, MembersBut, Goto
<1>13. CASE UNCHANGED vars
  BY <1>13 DEF vars, timeVars, roomVars, viewVars, noteVars
<1> HIDE IdFacts DEF TypeOK, TakenTruthful, IsMember
<1> QED
  BY <1>1, <1>2, <1>3, <1>4, <1>5, <1>6, <1>7, <1>8, <1>9, <1>10,
      <1>11, <1>12, <1>13 DEF Next

\* The host, and nobody else, has the role of the host.
LEMMA RoleKept ==
    ASSUME TypeOK, Placed, Reserved, TakenTruthful, RoleTruthful, [Next]_vars
    PROVE  RoleTruthful'
<1> USE IdFacts DEF TypeOK, RoleTruthful, Present, Placed
<1>1. ASSUME NEW c \in Clients, Ask(c)
      PROVE  RoleTruthful'
  BY <1>1 DEF Ask, Goto, roomVars, viewVars, noteVars
<1>2. ASSUME NEW c \in Clients, Enter(c)
      PROVE  RoleTruthful'
  <2>1. id[c] # host
    BY <1>2 DEF Enter, Reserved
  <2> QED
    BY <1>2, <2>1 DEF Enter
<1>3. ASSUME NEW c \in Clients, Announce(c)
      PROVE  RoleTruthful'
  BY <1>3 DEF Announce, Goto, Send, Notice, timeVars, roomVars, viewVars
<1>4. ASSUME NEW c \in Clients, GiveUp(c)
      PROVE  RoleTruthful'
  BY <1>4 DEF GiveUp, Goto, timeVars, roomVars, viewVars, noteVars
<1>5. ASSUME NEW c \in Clients, NEW m \in Clients, Tell(c, m)
      PROVE  RoleTruthful'
  BY <1>5 DEF Tell, timeVars, roomVars
<1>6. ASSUME NEW c \in Clients, TakeRole(c)
      PROVE  RoleTruthful'
  BY <1>6 DEF TakeRole, Goto, Reading, timeVars, roomVars, viewVars, noteVars
<1>7. ASSUME NEW c \in Clients, setUser(c)
      PROVE  RoleTruthful'
  BY <1>7 DEF setUser, TakenTruthful, IsMember, roomVars
<1>8. ASSUME NEW c \in Clients, NEW i \in Ids, KickDelete(c, i)
      PROVE  RoleTruthful'
  BY <1>8 DEF KickDelete, Goto, Reading, Notice, timeVars, viewVars
<1>9. ASSUME NEW c \in Clients, KickAnnounce(c)
      PROVE  RoleTruthful'
  BY <1>9 DEF KickAnnounce, Goto, timeVars, roomVars, viewVars
<1>10. ASSUME NEW c \in Clients, Leave(c)
       PROVE  RoleTruthful'
  BY <1>10 DEF Leave, Goto, Send, Reading, Existed, Notice, timeVars, viewVars
<1>11. ASSUME NEW c \in Clients, HandOver(c)
       PROVE  RoleTruthful'
  <2> DEFINE rest == MembersBut({id[c]})
  <2>1. PICK h \in rest : host' = id[h] /\ role' = [role EXCEPT ![h] = "host"]
    BY <1>11 DEF HandOver
  <2>2. members' = [members EXCEPT ![id[c]] = None] /\ id[c] = host /\ excuses \subseteq excuses'
    BY <1>11 DEF HandOver
  <2>3. h \in Clients /\ id[h] # id[c] /\ members[id[h]] = h
    BY DEF MembersBut
  <2> SUFFICES ASSUME "raced" \notin excuses', NEW i \in Ids, members'[i] # None
               PROVE  role'[members'[i]] = "host" <=> i = host'
    OBVIOUS
  <2>4. i # host /\ members'[i] = members[i] /\ role[members[i]] # "host"
    BY <2>2
  <2>5. CASE i = id[h]
    BY <2>1, <2>3, <2>4, <2>5
  <2>6. CASE i # id[h]
    BY <2>1, <2>3, <2>4, <2>6
  <2> QED
    BY <2>5, <2>6
<1>12. ASSUME NEW c \in Clients, LeaveLast(c)
       PROVE  RoleTruthful'
  BY <1>12 DEF LeaveLast, MembersBut
<1>13. CASE UNCHANGED vars
  BY <1>13 DEF vars, timeVars, roomVars, viewVars, noteVars
<1> HIDE IdFacts DEF TypeOK, RoleTruthful, Present, Placed
<1> QED
  BY <1>1, <1>2, <1>3, <1>4, <1>5, <1>6, <1>7, <1>8, <1>9, <1>10,
      <1>11, <1>12, <1>13 DEF Next

\* Until somebody is kicked or an id used again, whoever is in the room is a member.
LEMMA DistinctKept ==
    ASSUME TypeOK, Placed, Reserved, Distinct, [Next]_vars
    PROVE  Distinct'
<1> USE IdFacts DEF TypeOK, Distinct, IsMember, Regular
<1>1. ASSUME NEW c \in Clients, Ask(c)
      PROVE  Distinct'
  <2>1. \A d \in Clients : d # c => id'[d] = id[d] /\ pc'[d] = pc[d]
    BY <1>1 DEF Ask, Goto
  <2>2. members' = members /\ excuses \subseteq excuses' /\ pc'[c] = "waiting"
    BY <1>1 DEF Ask, Goto, roomVars
  <2>3. "reused" \notin excuses' => \A d \in Clients \ {c} : pc[d] # "new" => id[d] # id'[c]
    BY <1>1 DEF Ask
  <2>4. Distinct'
    <3> SUFFICES ASSUME excuses' \cap {"reused", "kicked"} = {}, NEW x \in Clients
                 PROVE  /\ pc'[x] # "kicked"
                        /\ pc'[x] \in {"entered", "reading", "presence"} => members'[id'[x]] = x
                        /\ pc'[x] # "new" => \A d \in Clients \ {x} : pc'[d] # "new" => id'[d] # id'[x]
      OBVIOUS
    <3>1. CASE x = c
      BY <2>1, <2>2, <2>3, <3>1
    <3>2. CASE x # c
      <4>1. id'[x] = id[x] /\ pc'[x] = pc[x]
        BY <2>1, <3>2
      <4>2. excuses \cap {"reused", "kicked"} = {}
        BY <2>2
      <4>3. pc[x] # "kicked" /\ (pc[x] \in {"entered", "reading", "presence"} => members[id[x]] = x)
        BY <4>2
      <4>4. ASSUME NEW d \in Clients \ {x}, pc'[d] # "new", pc[x] # "new"
            PROVE  id'[d] # id'[x]
        <5>1. CASE d = c
          BY <2>2, <2>3, <3>2, <4>1, <4>4, <5>1
        <5>2. CASE d # c
          BY <2>1, <4>1, <4>2, <4>4, <5>2
        <5> QED
          BY <5>1, <5>2
      <4> QED
        BY <2>2, <4>1, <4>3, <4>4
    <3> QED
      BY <3>1, <3>2
  <2> QED
    BY <2>4
<1>2. ASSUME NEW c \in Clients, Enter(c)
      PROVE  Distinct'
  BY <1>2 DEF Enter, Goto, noteVars
<1>3. ASSUME NEW c \in Clients, Announce(c)
      PROVE  Distinct'
  BY <1>3 DEF Announce, Goto, Send, Notice, timeVars, roomVars, viewVars
<1>4. ASSUME NEW c \in Clients, GiveUp(c)
      PROVE  Distinct'
  BY <1>4 DEF GiveUp, Goto, timeVars, roomVars, viewVars, noteVars
<1>5. ASSUME NEW c \in Clients, NEW m \in Clients, Tell(c, m)
      PROVE  Distinct'
  BY <1>5 DEF Tell, timeVars, roomVars
<1>6. ASSUME NEW c \in Clients, TakeRole(c)
      PROVE  Distinct'
  BY <1>6 DEF TakeRole, Goto, Reading, timeVars, roomVars, viewVars, noteVars
<1>7. ASSUME NEW c \in Clients, setUser(c)
      PROVE  Distinct'
  BY <1>7 DEF setUser, Goto, timeVars, roomVars, viewVars, noteVars
<1>8. ASSUME NEW c \in Clients, NEW i \in Ids, KickDelete(c, i)
      PROVE  Distinct'
  BY <1>8 DEF KickDelete, Goto, Reading, Notice, timeVars, viewVars
<1>9. ASSUME NEW c \in Clients, KickAnnounce(c)
      PROVE  Distinct'
  BY <1>9 DEF KickAnnounce, Goto, timeVars, roomVars, viewVars
<1>10. ASSUME NEW c \in Clients, Leave(c)
       PROVE  Distinct'
  BY <1>10 DEF Leave, Goto, Send, Reading, Existed, Notice, timeVars, viewVars
<1>11. ASSUME NEW c \in Clients, HandOver(c)
       PROVE  Distinct'
  <2>1. /\ members' = [members EXCEPT ![id[c]] = None] /\ id' = id
        /\ pc' = [pc EXCEPT ![c] = "done"] /\ excuses \subseteq excuses' /\ pc[c] = "reading"
    BY <1>11 DEF HandOver, Goto, Reading
  <2> QED
    BY <2>1
<1>12. ASSUME NEW c \in Clients, LeaveLast(c)
       PROVE  Distinct'
  <2>1. /\ members' = [members EXCEPT ![id[c]] = None] /\ id' = id
        /\ pc' = [pc EXCEPT ![c] = "done"] /\ excuses' = excuses /\ pc[c] = "reading"
    BY <1>12 DEF LeaveLast, Goto, Reading
  <2> QED
    BY <2>1
<1>13. CASE UNCHANGED vars
  BY <1>13 DEF vars, timeVars, roomVars, viewVars, noteVars
<1> HIDE IdFacts DEF TypeOK, Distinct, IsMember, Regular
<1> QED
  BY <1>1, <1>2, <1>3, <1>4, <1>5, <1>6, <1>7, <1>8, <1>9, <1>10,
      <1>11, <1>12, <1>13 DEF Next

\* ... and tells of itself.
LEMMA OwnNoticeKept ==
    ASSUME TypeOK, Placed, Distinct, OwnNotice, [Next]_vars
    PROVE  OwnNotice'
<1> USE IdFacts DEF TypeOK, OwnNotice, Regular
<1>1. ASSUME NEW c \in Clients, Ask(c)
      PROVE  OwnNotice'
  BY <1>1 DEF Ask, Goto, roomVars, viewVars, noteVars
<1>2. ASSUME NEW c \in Clients, Enter(c)
      PROVE  OwnNotice'
  BY <1>2 DEF Enter, Goto, noteVars
<1>3. ASSUME NEW c \in Clients, Announce(c)
      PROVE  OwnNotice'
  <2>1. c \notin MembersBut({id[c]})
    BY DEF MembersBut, Placed
  <2> QED
    BY <1>3, <2>1 DEF Announce, Goto, Send, Notice
<1>4. ASSUME NEW c \in Clients, GiveUp(c)
      PROVE  OwnNotice'
  BY <1>4 DEF GiveUp, Goto, timeVars, roomVars, viewVars, noteVars
<1>5. ASSUME NEW c \in Clients, NEW m \in Clients, Tell(c, m)
      PROVE  OwnNotice'
  BY <1>5 DEF Tell, timeVars, roomVars
<1>6. ASSUME NEW c \in Clients, TakeRole(c)
      PROVE  OwnNotice'
  BY <1>6 DEF TakeRole, Goto, Reading, timeVars, roomVars, viewVars, noteVars
<1>7. ASSUME NEW c \in Clients, setUser(c)
      PROVE  OwnNotice'
  BY <1>7 DEF setUser, Goto, timeVars, roomVars, viewVars, noteVars
<1>8. ASSUME NEW c \in Clients, NEW i \in Ids, KickDelete(c, i)
      PROVE  OwnNotice'
  BY <1>8 DEF KickDelete, Goto, Reading, Notice, timeVars, viewVars
<1>9. ASSUME NEW c \in Clients, KickAnnounce(c)
      PROVE  OwnNotice'
  BY <1>9 DEF KickAnnounce, Distinct, Regular
<1>10. ASSUME NEW c \in Clients, Leave(c)
       PROVE  OwnNotice'
  <2>1. c \notin MembersBut({id[c]})
    BY DEF MembersBut, Placed
  <2> QED
    BY <1>10, <2>1 DEF Leave, Goto, Send, Notice
<1>11. ASSUME NEW c \in Clients, HandOver(c)
       PROVE  OwnNotice'
  <2>1. c \notin MembersBut({id[c]})
    BY DEF MembersBut, Placed
  <2>2. /\ note' = [note EXCEPT ![c] = Notice("left", id[c])] /\ id' = id
        /\ todo' = [todo EXCEPT ![c] = MembersBut({id[c]})]
        /\ pc' = [pc EXCEPT ![c] = "done"] /\ excuses \subseteq excuses'
    BY <1>11 DEF HandOver, Goto, Send
  <2> QED
    BY <2>1, <2>2 DEF Notice
<1>12. ASSUME NEW c \in Clients, LeaveLast(c)
       PROVE  OwnNotice'
  BY <1>12 DEF LeaveLast, Goto, Reading, Existed, timeVars, viewVars, noteVars
<1>13. CASE UNCHANGED vars
  BY <1>13 DEF vars, timeVars, roomVars, viewVars, noteVars
<1> HIDE IdFacts DEF TypeOK, OwnNotice, Regular
<1> QED
  BY <1>1, <1>2, <1>3, <1>4, <1>5, <1>6, <1>7, <1>8, <1>9, <1>10,
      <1>11, <1>12, <1>13 DEF Next

\* Nobody is known for longer than the notice of its departure takes.
LEMMA KnowsNoOtherKept ==
    ASSUME TypeOK, Placed, Reserved, Distinct, OwnNotice, KnowsNoOther, [Next]_vars
    PROVE  KnowsNoOther'
<1> USE IdFacts DEF TypeOK
<1>1. ASSUME NEW c \in Clients, Ask(c)
      PROVE  KnowsNoOther'
  <2> SUFFICES ASSUME Regular', NEW x \in Clients, IsMember(x)', NEW j \in roster'[x]
               PROVE  Teller(x, j)'
    BY DEF KnowsNoOther
  <2>1. Regular
    BY <1>1 DEF Ask, Regular
  <2>2. \A d \in Clients : d # c => id'[d] = id[d] /\ pc'[d] = pc[d]
    BY <1>1 DEF Ask, Goto
  <2>3. members' = members /\ roster' = roster /\ todo' = todo
    BY <1>1 DEF Ask, roomVars, viewVars, noteVars
  <2>4. \A i \in Ids : members[i] # c
    BY <1>1, SMTT(30) DEF Ask, Placed, Present
  <2>5. x # c /\ IsMember(x)
    <3>1. id'[c] \in Ids
      BY <1>1 DEF Ask
    <3> QED
      BY <2>2, <2>3, <2>4, <3>1 DEF IsMember
  <2>6. PICK d \in Clients \ {x} : id[d] = j /\ (IsMember(d) \/ (pc[d] = "done" /\ x \in todo[d]))
    BY <2>1, <2>3, <2>5 DEF KnowsNoOther, Teller
  <2>7. d # c
    BY <1>1, <2>4, <2>6 DEF Ask, IsMember
  <2> QED
    BY <2>2, <2>3, <2>6, <2>7 DEF IsMember, Teller
<1>2. ASSUME NEW c \in Clients, Enter(c)
      PROVE  KnowsNoOther'
  <2> SUFFICES ASSUME Regular', NEW x \in Clients, IsMember(x)', NEW j \in roster'[x]
               PROVE  Teller(x, j)'
    BY DEF KnowsNoOther
  <2>1. Regular
    BY <1>2 DEF Enter, Regular
  <2>2. /\ members' = [members EXCEPT ![id[c]] = c] /\ members[id[c]] = None
        /\ id' = id /\ todo' = todo /\ pc' = [pc EXCEPT ![c] = "entered"] /\ pc[c] = "waiting"
        /\ roster' = [roster EXCEPT ![c] = Present \ {id[c]}]
    BY <1>2 DEF Enter, Goto, Reserved, noteVars
  <2>3. \A d \in Clients : IsMember(d) => IsMember(d)'
    BY <2>2 DEF IsMember
  <2>4. CASE x = c
    <3>1. j \in Present
      BY <2>2, <2>4
    <3>2. PICK d \in Clients : members[j] = d
      BY <3>1 DEF Present
    <3>3. id[d] = j /\ pc[d] \in {"entered", "reading", "presence", "kicked"}
      BY <3>1, <3>2 DEF Placed
    <3>4. IsMember(d) /\ d # x
      BY <2>2, <2>4, <3>2, <3>3 DEF IsMember
    <3>5. IsMember(d)' /\ id'[d] = j
      BY <2>2, <2>3, <3>3, <3>4
    <3> QED
      BY <3>4, <3>5 DEF Teller
  <2>5. CASE x # c
    <3>1. IsMember(x) /\ j \in roster[x]
      BY <2>2, <2>5 DEF IsMember
    <3>2. PICK d \in Clients \ {x} : id[d] = j /\ (IsMember(d) \/ (pc[d] = "done" /\ x \in todo[d]))
      BY <2>1, <3>1 DEF KnowsNoOther, Teller
    <3> QED
      BY <2>2, <2>3, <3>2 DEF Teller
  <2> QED
    BY <2>4, <2>5
<1>3. ASSUME NEW c \in Clients, Announce(c)
      PROVE  KnowsNoOther'
  <2>1. \A d \in Clients : pc[d] = "done" => pc'[d] = "done" /\ todo'[d] = todo[d]
    BY <1>3 DEF Announce, Goto, Send
  <2>2. id' = id /\ members' = members /\ roster' = roster /\ excuses' = excuses
    BY <1>3 DEF Announce, roomVars, viewVars
  <2>3. Regular' => Regular
    BY <2>2 DEF Regular
  <2>4. \A x \in Clients : IsMember(x)' => IsMember(x)
    BY <2>2 DEF IsMember
  <2>5. \A x \in Clients : \A j : Teller(x, j) => Teller(x, j)'
    BY <2>1, <2>2 DEF Teller, IsMember
  <2> QED
    BY <2>2, <2>3, <2>4, <2>5 DEF KnowsNoOther
<1>4. ASSUME NEW c \in Clients, GiveUp(c)
      PROVE  KnowsNoOther'
  BY <1>4 DEF GiveUp, Goto, timeVars, roomVars, viewVars, noteVars, KnowsNoOther, Teller,
     IsMember, Regular
<1>5. ASSUME NEW c \in Clients, NEW m \in Clients, Tell(c, m)
      PROVE  KnowsNoOther'
  <2> SUFFICES ASSUME Regular', NEW x \in Clients, IsMember(x)', NEW j \in roster'[x]
               PROVE  Teller(x, j)'
    BY DEF KnowsNoOther
  <2>1. Regular
    BY <1>5 DEF Tell, Regular
  <2>2. /\ id' = id /\ members' = members /\ pc' = pc /\ m \in todo[c]
        /\ todo' = [todo EXCEPT ![c] = todo[c] \ {m}]
    <3>1. id' = id /\ members' = members /\ pc' = pc
      BY <1>5 DEF Tell, roomVars
    <3>2. m \in todo[c] /\ todo' = [todo EXCEPT ![c] = todo[c] \ {m}]
      BY <1>5 DEF Tell
    <3> QED
      BY <3>1, <3>2
  <2>3. IsMember(x)
    BY <2>2 DEF IsMember
  <2>4. /\ note[c].id = id[c] /\ c \notin todo[c]
        /\ \/ pc[c] = "done" /\ note[c].type = "left"
           \/ pc[c] = "reading" /\ note[c].type = "joined"
    BY <2>1, <2>2 DEF OwnNotice
  <2>5. CASE x = m /\ j = id[c]
    <3>1. pc[c] = "reading"
      BY <1>5, <2>4, <2>5 DEF Tell
    <3>2. IsMember(c) /\ c # x
      BY <2>1, <2>2, <2>4, <2>5, <3>1 DEF Distinct
    <3>3. IsMember(c)' /\ id'[c] = j
      BY <2>2, <2>5, <3>2 DEF IsMember
    <3> QED
      BY <3>2, <3>3 DEF Teller
  <2>6. CASE x # m \/ j # id[c]
    <3>1. j \in roster[x]
      BY <1>5, <2>4, <2>6 DEF Tell
    <3>2. PICK d \in Clients \ {x} : id[d] = j /\ (IsMember(d) \/ (pc[d] = "done" /\ x \in todo[d]))
      BY <2>1, <2>3, <3>1 DEF KnowsNoOther, Teller
    <3>3. x \in todo[d] => x \in todo'[d]
      BY <2>2, <2>6, <3>2
    <3> QED
      BY <2>2, <3>2, <3>3 DEF Teller, IsMember
  <2> QED
    BY <2>5, <2>6
<1>6. ASSUME NEW c \in Clients, TakeRole(c)
      PROVE  KnowsNoOther'
  BY <1>6 DEF TakeRole, Goto, Reading, timeVars, roomVars, viewVars, noteVars, KnowsNoOther,
     Teller, IsMember, Regular
<1>7. ASSUME NEW c \in Clients, setUser(c)
      PROVE  KnowsNoOther'
  BY <1>7 DEF setUser, Goto, timeVars, roomVars, viewVars, noteVars, KnowsNoOther, Teller,
     IsMember, Regular
<1>8. ASSUME NEW c \in Clients, NEW i \in Ids, KickDelete(c, i)
      PROVE  KnowsNoOther'
  BY <1>8 DEF KickDelete, Goto, Reading, Notice, timeVars, viewVars, KnowsNoOther, Teller,
     IsMember, Regular
<1>9. ASSUME NEW c \in Clients, KickAnnounce(c)
      PROVE  KnowsNoOther'
  BY <1>9 DEF KickAnnounce, Distinct, KnowsNoOther, Regular
<1>10. ASSUME NEW c \in Clients, Leave(c)
       PROVE  KnowsNoOther'
  <2> SUFFICES ASSUME Regular', NEW x \in Clients, IsMember(x)', NEW j \in roster'[x]
               PROVE  Teller(x, j)'
    BY DEF KnowsNoOther
  <2>1. Regular
    BY <1>10 DEF Leave, Regular
  <2>2. /\ members' = [members EXCEPT ![id[c]] = None] /\ id' = id /\ roster' = roster
        /\ pc' = [pc EXCEPT ![c] = "done"] /\ pc[c] = "reading"
    BY <1>10 DEF Leave, Goto, Reading, viewVars
  <2>3. /\ x # c /\ IsMember(x) /\ IsMember(c)
        /\ \A d \in Clients \ {c} : IsMember(d) => id[d] # id[c]
    BY <2>1, <2>2 DEF Distinct, IsMember
  <2>4. PICK d \in Clients \ {x} : id[d] = j /\ (IsMember(d) \/ (pc[d] = "done" /\ x \in todo[d]))
    BY <2>1, <2>2, <2>3 DEF KnowsNoOther, Teller
  <2>5. CASE d = c
    <3>1. x \in MembersBut({id[c]})
      BY <2>3 DEF MembersBut, Present, IsMember
    <3>2. x \in todo'[c]
      BY <1>10, <2>3, <3>1 DEF Leave, Send, Existed, IsMember
    <3> QED
      BY <2>2, <2>4, <2>5, <3>2 DEF Teller
  <2>6. CASE d # c
    BY <1>10, <2>2, <2>3, <2>4, <2>6 DEF Leave, Send, IsMember, Teller
  <2> QED
    BY <2>5, <2>6
<1>11. ASSUME NEW c \in Clients, HandOver(c)
       PROVE  KnowsNoOther'
  <2> SUFFICES ASSUME Regular', NEW x \in Clients, IsMember(x)', NEW j \in roster'[x]
               PROVE  Teller(x, j)'
    BY DEF KnowsNoOther
  <2>1. Regular
    BY <1>11 DEF HandOver, Regular
  <2>2. /\ members' = [members EXCEPT ![id[c]] = None] /\ id' = id /\ roster' = roster
        /\ pc' = [pc EXCEPT ![c] = "done"] /\ pc[c] = "reading"
    BY <1>11 DEF HandOver, Goto, Reading, viewVars
  <2>3. /\ x # c /\ IsMember(x) /\ IsMember(c)
        /\ \A d \in Clients \ {c} : IsMember(d) => id[d] # id[c]
    BY <2>1, <2>2 DEF Distinct, IsMember
  <2>4. PICK d \in Clients \ {x} : id[d] = j /\ (IsMember(d) \/ (pc[d] = "done" /\ x \in todo[d]))
    BY <2>1, <2>2, <2>3 DEF KnowsNoOther, Teller
  <2>5. CASE d = c
    <3>1. x \in MembersBut({id[c]})
      BY <2>3 DEF MembersBut, Present, IsMember
    <3>2. x \in todo'[c]
      BY <1>11, <2>3, <3>1 DEF HandOver, Send, Existed, IsMember
    <3> QED
      BY <2>2, <2>4, <2>5, <3>2 DEF Teller
  <2>6. CASE d # c
    BY <1>11, <2>2, <2>3, <2>4, <2>6 DEF HandOver, Send, IsMember, Teller
  <2> QED
    BY <2>5, <2>6
<1>12. ASSUME NEW c \in Clients, LeaveLast(c)
       PROVE  KnowsNoOther'
  <2>1. members' = [members EXCEPT ![id[c]] = None] /\ id' = id /\ MembersBut({id[c]}) = {}
    BY <1>12 DEF LeaveLast
  <2>2. ASSUME NEW x \in Clients, IsMember(x)'
        PROVE  FALSE
    <3>1. id[x] # id[c] /\ members[id[x]] = x
      BY <2>1, <2>2 DEF IsMember
    <3>2. x \in MembersBut({id[c]})
      BY <3>1 DEF MembersBut, Present
    <3> QED
      BY <2>1, <3>2
  <2> QED
    BY <2>2 DEF KnowsNoOther
<1>13. CASE UNCHANGED vars
  BY <1>13 DEF vars, timeVars, roomVars, viewVars, noteVars, KnowsNoOther, Teller, IsMember,
     Regular
<1> HIDE IdFacts DEF TypeOK
<1> QED
  BY <1>1, <1>2, <1>3, <1>4, <1>5, <1>6, <1>7, <1>8, <1>9, <1>10,
      <1>11, <1>12, <1>13 DEF Next

\* Nobody is unknown for longer than the notice of its arrival takes.
LEMMA KnowsOthersKept ==
    ASSUME TypeOK, Placed, Reserved, Distinct, OwnNotice, KnowsOthers, [Next]_vars
    PROVE  KnowsOthers'
<1> USE IdFacts DEF TypeOK
<1>1. ASSUME NEW c \in Clients, Ask(c)
      PROVE  KnowsOthers'
  <2> SUFFICES ASSUME Regular', NEW x \in Clients, NEW d \in Clients,
                      IsMember(x)', IsMember(d)', x # d
               PROVE  Heard(x, d)'
    BY DEF KnowsOthers
  <2>1. Regular
    BY <1>1 DEF Ask, Regular
  <2>2. /\ \A y \in Clients : y # c => id'[y] = id[y] /\ pc'[y] = pc[y]
        /\ members' = members /\ roster' = roster /\ todo' = todo /\ note' = note
    BY <1>1 DEF Ask, Goto, roomVars, viewVars, noteVars
  <2>3. \A i \in Ids : members[i] # c
    BY <1>1, SMTT(30) DEF Ask, Placed, Present
  <2>4. id'[c] \in Ids
    BY <1>1 DEF Ask
  <2>5. x # c /\ d # c /\ IsMember(x) /\ IsMember(d)
    BY <2>2, <2>3, <2>4 DEF IsMember
  <2>6. Heard(x, d)
    BY <2>1, <2>5 DEF KnowsOthers
  <2> QED
    BY <2>2, <2>5, <2>6 DEF Heard
<1>2. ASSUME NEW c \in Clients, Enter(c)
      PROVE  KnowsOthers'
  <2> SUFFICES ASSUME Regular', NEW x \in Clients, NEW d \in Clients,
                      IsMember(x)', IsMember(d)', x # d
               PROVE  Heard(x, d)'
    BY DEF KnowsOthers
  <2>1. Regular
    BY <1>2 DEF Enter, Regular
  <2>2. /\ members' = [members EXCEPT ![id[c]] = c] /\ members[id[c]] = None
        /\ id' = id /\ todo' = todo /\ note' = note /\ pc' = [pc EXCEPT ![c] = "entered"]
        /\ roster' = [roster EXCEPT ![c] = Present \ {id[c]}]
    BY <1>2 DEF Enter, Goto, Reserved, noteVars
  <2>3. CASE d = c
    BY <2>2, <2>3 DEF Heard
  <2>4. CASE d # c /\ x = c
    BY <2>2, <2>4 DEF Heard, IsMember, Present
  <2>5. CASE d # c /\ x # c
    <3>1. IsMember(x) /\ IsMember(d)
      BY <2>2, <2>5 DEF IsMember
    <3>2. Heard(x, d)
      BY <2>1, <3>1 DEF KnowsOthers
    <3> QED
      BY <2>2, <2>5, <3>2 DEF Heard
  <2> QED
    BY <2>3, <2>4, <2>5
<1>3. ASSUME NEW c \in Clients, Announce(c)
      PROVE  KnowsOthers'
  <2> SUFFICES ASSUME Regular', NEW x \in Clients, NEW d \in Clients,
                      IsMember(x)', IsMember(d)', x # d
               PROVE  Heard(x, d)'
    BY DEF KnowsOthers
  <2>1. Regular
    BY <1>3 DEF Announce, Regular
  <2>2. /\ todo' = [todo EXCEPT ![c] = MembersBut({id[c]})]
        /\ note' = [note EXCEPT ![c] = Notice("joined", id[c])]
        /\ id' = id /\ members' = members /\ roster' = roster /\ pc' = [pc EXCEPT ![c] = "reading"]
    BY <1>3 DEF Announce, Goto, Send, roomVars, viewVars
  <2>3. IsMember(x) /\ IsMember(d)
    BY <2>2 DEF IsMember
  <2>4. CASE d = c
    <3>1. x \in MembersBut({id[c]})
      BY <2>3, <2>4 DEF MembersBut, Present, IsMember
    <3> QED
      BY <2>2, <2>4, <3>1 DEF Heard, Notice
  <2>5. CASE d # c
    <3>1. Heard(x, d)
      BY <2>1, <2>3 DEF KnowsOthers
    <3> QED
      BY <2>2, <2>5, <3>1 DEF Heard
  <2> QED
    BY <2>4, <2>5
<1>4. ASSUME NEW c \in Clients, GiveUp(c)
      PROVE  KnowsOthers'
  BY <1>4 DEF GiveUp, Goto, timeVars, roomVars, viewVars, noteVars, KnowsOthers, Heard,
     IsMember, Regular
<1>5. ASSUME NEW c \in Clients, NEW m \in Clients, Tell(c, m)
      PROVE  KnowsOthers'
  <2> SUFFICES ASSUME Regular', NEW x \in Clients, NEW d \in Clients,
                      IsMember(x)', IsMember(d)', x # d
               PROVE  Heard(x, d)'
    BY DEF KnowsOthers
  <2>1. Regular
    BY <1>5 DEF Tell, Regular
  <2>2. id' = id /\ members' = members /\ pc' = pc /\ note' = note
    BY <1>5 DEF Tell, roomVars
  <2>3. m \in todo[c] /\ todo' = [todo EXCEPT ![c] = todo[c] \ {m}]
    BY <1>5 DEF Tell
  <2>4. /\ note[c].id = id[c]
        /\ \/ pc[c] = "done" /\ note[c].type = "left"
           \/ pc[c] = "reading" /\ note[c].type = "joined"
    BY <2>1, <2>3 DEF OwnNotice
  <2>5. IsMember(x) /\ IsMember(d) /\ Heard(x, d)
    BY <2>1, <2>2 DEF KnowsOthers, IsMember
  <2>6. pc[d] \in {"entered", "reading", "presence", "kicked"}
    BY <2>5 DEF Placed, Present, IsMember
  <2>7. CASE x # m
    BY <1>5, <2>2, <2>3, <2>5, <2>7 DEF Tell, Heard
  <2>8. CASE x = m /\ d = c
    BY <1>5, <2>2, <2>4, <2>6, <2>8 DEF Tell, Heard
  <2>9. CASE x = m /\ d # c
    <3>1. id[d] # id[c]
      BY <2>1, <2>4, <2>6, <2>9 DEF Distinct
    <3>2. id[d] \in roster[x] => id[d] \in roster'[x]
      BY <1>5, <2>4, <2>9, <3>1 DEF Tell
    <3> QED
      BY <2>2, <2>3, <2>5, <2>9, <3>2 DEF Heard
  <2> QED
    BY <2>7, <2>8, <2>9
<1>6. ASSUME NEW c \in Clients, TakeRole(c)
      PROVE  KnowsOthers'
  BY <1>6 DEF TakeRole, Goto, Reading, timeVars, roomVars, viewVars, noteVars, KnowsOthers,
     Heard, IsMember, Regular
<1>7. ASSUME NEW c \in Clients, setUser(c)
      PROVE  KnowsOthers'
  BY <1>7 DEF setUser, Goto, timeVars, roomVars, viewVars, noteVars, KnowsOthers, Heard,
     IsMember, Regular
<1>8. ASSUME NEW c \in Clients, NEW i \in Ids, KickDelete(c, i)
      PROVE  KnowsOthers'
  BY <1>8 DEF KickDelete, Goto, Reading, Notice, timeVars, viewVars, KnowsOthers, Heard,
     IsMember, Regular
<1>9. ASSUME NEW c \in Clients, KickAnnounce(c)
      PROVE  KnowsOthers'
  BY <1>9 DEF KickAnnounce, Distinct, KnowsOthers, Regular
<1>10. ASSUME NEW c \in Clients, Leave(c)
       PROVE  KnowsOthers'
  <2> SUFFICES ASSUME Regular', NEW x \in Clients, NEW d \in Clients,
                      IsMember(x)', IsMember(d)', x # d
               PROVE  Heard(x, d)'
    BY DEF KnowsOthers
  <2>1. Regular
    BY <1>10 DEF Leave, Regular
  <2>2. /\ members' = [members EXCEPT ![id[c]] = None] /\ id' = id /\ roster' = roster
        /\ pc' = [pc EXCEPT ![c] = "done"] /\ pc[c] = "reading"
    BY <1>10 DEF Leave, Goto, Reading, viewVars
  <2>3. x # c /\ d # c /\ IsMember(x) /\ IsMember(d)
    BY <2>1, <2>2 DEF Distinct, IsMember
  <2>4. Heard(x, d)
    BY <2>1, <2>3 DEF KnowsOthers
  <2>5. todo'[d] = todo[d] /\ note'[d] = note[d]
    BY <1>10, <2>3 DEF Leave, Send, noteVars
  <2> QED
    BY <2>2, <2>3, <2>4, <2>5 DEF Heard
<1>11. ASSUME NEW c \in Clients, HandOver(c)
       PROVE  KnowsOthers'
  <2> SUFFICES ASSUME Regular', NEW x \in Clients, NEW d \in Clients,
                      IsMember(x)', IsMember(d)', x # d
               PROVE  Heard(x, d)'
    BY DEF KnowsOthers
  <2>1. Regular
    BY <1>11 DEF HandOver, Regular
  <2>2. /\ members' = [members EXCEPT ![id[c]] = None] /\ id' = id /\ roster' = roster
        /\ pc' = [pc EXCEPT ![c] = "done"] /\ pc[c] = "reading"
    BY <1>11 DEF HandOver, Goto, Reading, viewVars
  <2>3. x # c /\ d # c /\ IsMember(x) /\ IsMember(d)
    BY <2>1, <2>2 DEF Distinct, IsMember
  <2>4. Heard(x, d)
    BY <2>1, <2>3 DEF KnowsOthers
  <2>5. todo'[d] = todo[d] /\ note'[d] = note[d]
    BY <1>11, <2>3 DEF HandOver, Send, noteVars
  <2> QED
    BY <2>2, <2>3, <2>4, <2>5 DEF Heard
<1>12. ASSUME NEW c \in Clients, LeaveLast(c)
       PROVE  KnowsOthers'
  <2> SUFFICES ASSUME Regular', NEW x \in Clients, NEW d \in Clients,
                      IsMember(x)', IsMember(d)', x # d
               PROVE  Heard(x, d)'
    BY DEF KnowsOthers
  <2>1. Regular
    BY <1>12 DEF LeaveLast, Regular
  <2>2. /\ members' = [members EXCEPT ![id[c]] = None] /\ id' = id /\ roster' = roster
        /\ pc' = [pc EXCEPT ![c] = "done"] /\ pc[c] = "reading"
    BY <1>12 DEF LeaveLast, Goto, Reading, viewVars
  <2>3. x # c /\ d # c /\ IsMember(x) /\ IsMember(d)
    BY <2>1, <2>2 DEF Distinct, IsMember
  <2>4. Heard(x, d)
    BY <2>1, <2>3 DEF KnowsOthers
  <2>5. todo'[d] = todo[d] /\ note'[d] = note[d]
    BY <1>12, <2>3 DEF LeaveLast, Send, noteVars
  <2> QED
    BY <2>2, <2>3, <2>4, <2>5 DEF Heard
<1>13. CASE UNCHANGED vars
  BY <1>13 DEF vars, timeVars, roomVars, viewVars, noteVars, KnowsOthers, Heard, IsMember,
     Regular
<1> HIDE IdFacts DEF TypeOK
<1> QED
  BY <1>1, <1>2, <1>3, <1>4, <1>5, <1>6, <1>7, <1>8, <1>9, <1>10,
      <1>11, <1>12, <1>13 DEF Next

-----------------------------------------------------------------------------
(* The theorems *)

ViewInv ==
    /\ TypeOK /\ Placed /\ MadeUp /\ Reserved /\ HostKnown
    /\ TakenTruthful /\ RoleTruthful
    /\ Distinct /\ OwnNotice /\ KnowsNoOther /\ KnowsOthers

LEMMA ViewInvHolds == Spec => []ViewInv
<1>1. Init => ViewInv
  <2> SUFFICES ASSUME Init
               PROVE  ViewInv
    OBVIOUS
  <2> USE IdFacts, ViewAssumption
  <2>1. TypeOK
    BY DEF Init, TypeOK, Labels, Notice
  <2>2. Placed /\ MadeUp /\ Reserved
    BY DEF Init, Placed, MadeUp, Reserved, Present
  <2>3. HostKnown /\ TakenTruthful /\ RoleTruthful
    BY DEF Init, HostKnown, TakenTruthful, RoleTruthful, Present
  <2>4. Distinct
    BY DEF Init, Distinct, IsMember
  <2>5. OwnNotice /\ KnowsNoOther
    BY DEF Init, OwnNotice, KnowsNoOther
  <2>6. KnowsOthers
    BY DEF Init, KnowsOthers, IsMember
  <2> QED
    BY <2>1, <2>2, <2>3, <2>4, <2>5, <2>6 DEF ViewInv
<1>2. ViewInv /\ [Next]_vars => ViewInv'
  BY TypesKept, PlacedKept, MadeUpKept, ReservedKept, HostKnownKept, TakenKept, RoleKept,
     DistinctKept, OwnNoticeKept, KnowsNoOtherKept, KnowsOthersKept DEF ViewInv
<1> QED
  BY <1>1, <1>2, PTL DEF Spec

\* Every reachable state is well typed.
THEOREM ViewsTypeCorrect == Spec => []TypeOK
BY ViewInvHolds, PTL DEF ViewInv

\* Every member knows the host at every moment: auth_ok and host_changed are
\* sent in the critical sections in which they become true.
THEOREM HostIsKnown == Spec => []HostKnown
BY ViewInvHolds, PTL DEF ViewInv

\* The roles that a newcomer is shown are true, but for a presence message that
\* a migration overtakes.
THEOREM RolesAreTrue == Spec => []RoleTruthful
BY ViewInvHolds, PTL DEF ViewInv

\* However the notices of joinRoom and leaveRoom overtake each other, rosters
\* are right when they have arrived, for any number of connections.
THEOREM RostersAgree == Spec => []RosterAgrees
<1>1. ASSUME ViewInv
      PROVE  RosterAgrees
  <2> SUFFICES ASSUME Settled, Regular, NEW i \in Present
               PROVE  roster[members[i]] = Present \ {i}
    BY DEF RosterAgrees, Regular
  <2> DEFINE x == members[i]
  <2>1. TypeOK /\ Placed /\ KnowsNoOther /\ KnowsOthers
    BY <1>1 DEF ViewInv
  <2>2. x \in Clients /\ id[x] = i /\ IsMember(x) /\ i \in Ids
    BY <2>1 DEF TypeOK, Placed, Present, IsMember
  <2>3. roster[x] \subseteq Ids
    BY <2>1, <2>2 DEF TypeOK
  <2> HIDE DEF x
  <2>4. ASSUME NEW j \in roster[x]
        PROVE  j \in Present \ {i}
    <3>1. Teller(x, j)
      BY <2>1, <2>2 DEF KnowsNoOther
    <3>2. PICK d \in Clients \ {x} : id[d] = j /\ IsMember(d)
      BY <3>1 DEF Teller, Settled
    <3>3. members[j] = d /\ members[i] = x /\ j \in Ids /\ d # None
      BY <2>2, <2>3, <3>2, IdFacts DEF IsMember
    <3> QED
      BY <3>2, <3>3 DEF Present
  <2>5. ASSUME NEW j \in Present \ {i}
        PROVE  j \in roster[x]
    <3>1. PICK d \in Clients : members[j] = d
      BY <2>1 DEF TypeOK, Present
    <3>2. id[d] = j /\ IsMember(d)
      BY <2>1, <3>1 DEF Placed, IsMember
    <3>3. d # x
      BY <2>2, <3>2
    <3>4. Heard(x, d)
      BY <2>1, <2>2, <3>2, <3>3 DEF KnowsOthers
    <3> QED
      BY <3>2, <3>4 DEF Heard, Settled
  <2> QED
    BY <2>4, <2>5 DEF x
<1> QED
  BY <1>1, ViewInvHolds, PTL
=============================================================================
