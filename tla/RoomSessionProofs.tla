------------------------- MODULE RoomSessionProofs -------------------------
(***************************************************************************)
(* More proofs about RoomMembership: the limit on rooms, the members that  *)
(* ids keep apart, and the refinement of RoomSession.                      *)
(***************************************************************************)
EXTENDS RoomMembershipProofs, FiniteSetTheorems

-----------------------------------------------------------------------------
(* The limit on rooms *)

\* The room ids the hub knows.
Listed == {r \in RoomIds : hub[r] # None}

HubBounded ==
    /\ IsFiniteSet(Listed)
    /\ MaxGlobalRooms > 0 => Cardinality(Listed) <= MaxGlobalRooms

\* Forgetting keeps the limit.
LEMMA FewerListed ==
    ASSUME HubBounded, Listed' \subseteq Listed
    PROVE  HubBounded'
<1>1. IsFiniteSet(Listed') /\ Cardinality(Listed') <= Cardinality(Listed)
  BY FS_Subset DEF HubBounded
<1>2. Cardinality(Listed') \in Nat /\ Cardinality(Listed) \in Nat
  BY <1>1, FS_CardinalityType DEF HubBounded
<1> QED
  BY <1>1, <1>2, ConstantsAssumption DEF HubBounded

\* A room is only made while the hub is below its limit.
LEMMA OneMoreListed ==
    ASSUME TypeOK, Placed, HubBounded, NEW c \in Clients, MakeRoom(c)
    PROVE  HubBounded'
<1>1. room[c] \in RoomIds /\ hub[room[c]] = None /\ hub' = [hub EXCEPT ![room[c]] = c]
  BY HubObject DEF MakeRoom, Stamp
<1>2. Listed' = Listed \cup {room[c]} /\ room[c] \notin Listed
  BY <1>1, NoneIsNoEntry DEF Listed, TypeOK
<1>3. /\ IsFiniteSet(Listed')
      /\ Cardinality(Listed') = Cardinality(Listed) + 1
  BY <1>2, FS_AddElement DEF HubBounded
<1>4. Cardinality(Listed) \in Nat
  BY FS_CardinalityType DEF HubBounded
<1>5. MaxGlobalRooms > 0 => Cardinality(Listed) < MaxGlobalRooms
  BY <1>4, ConstantsAssumption DEF MakeRoom, HubFull, Listed
<1> QED
  BY <1>3, <1>4, <1>5, ConstantsAssumption DEF HubBounded

\* No other step adds an entry to the hub.
LEMMA ListedKept ==
    ASSUME TypeOK, Placed, [Next]_vars, \A c \in Clients : ~MakeRoom(c)
    PROVE  Listed' \subseteq Listed
<1>1. CASE hub' = hub
  BY <1>1 DEF Listed
<1>2. ASSUME NEW c \in Clients, Forget(c) PROVE Listed' \subseteq Listed
  BY <1>2 DEF Forget, Listed, TypeOK
<1>3. CASE Crash
  BY <1>3 DEF Crash, Listed
<1>4. ASSUME NEW c \in Clients, Join(c) PROVE hub' = hub
  BY <1>4 DEF Join, OpenRoom, Authenticate, RejectAuth, FindRoom, RefuseRoom, Found, TurnAway,
              AskToJoin, Admit, EnterRoom, Refuse
<1>5. ASSUME NEW c \in Clients, Order(c) PROVE hub' = hub
  BY <1>5 DEF Order, Command, Decide, CommandNobody, Kick, KickDelete
<1>6. ASSUME NEW c \in Clients, Disconnect(c) \/ Leave(c) \/ CloseRow(c) PROVE hub' = hub
  BY <1>6 DEF Disconnect, Leave, LeavePlainly, LeaveAndMigrate, LeaveAndClose, CloseRow
<1>7. ASSUME NEW r \in RoomIds, Expire(r) \/ \E k \in Keys : CreateRoom(r, k) PROVE hub' = hub
  BY <1>7 DEF Expire, CreateRoom
<1>8. CASE UNCHANGED vars
  BY <1>1, <1>8 DEF vars
<1> QED
  BY <1>1, <1>2, <1>3, <1>4, <1>5, <1>6, <1>7, <1>8 DEF Next, Depart

LEMMA HubBoundedKept ==
    ASSUME TypeOK, Placed, HubBounded, [Next]_vars
    PROVE  HubBounded'
<1>1. CASE \E c \in Clients : MakeRoom(c)
  BY <1>1, OneMoreListed
<1>2. CASE \A c \in Clients : ~MakeRoom(c)
  BY <1>2, ListedKept, FewerListed
<1> QED
  BY <1>1, <1>2

\* What the hub maps to and has members is listed, each object once.
LEMMA LiveRoomsListed ==
    ASSUME TypeOK, RoomInv, HubBounded
    PROVE  LiveRoomsBounded
<1> DEFINE L == {obj[c] : c \in {d \in Clients : InRoom(d)}}
           f == [o \in L |-> room[o]]
<1>1. ASSUME NEW o \in L PROVE o \in Clients /\ room[o] \in Listed /\ hub[room[o]] = o
  <2>1. PICK c \in Clients : InRoom(c) /\ o = obj[c]
    OBVIOUS
  <2>2. o \in Clients /\ id[c] \in Ids /\ clients[o][id[c]] # None
    BY <2>1, NoneIsNoEntry DEF InRoom, TypeOK
  <2>3. room[o] \in RoomIds /\ hub[room[o]] = o
    BY <2>2, MemberRoom
  <2> QED
    BY <2>2, <2>3, NoneIsNoEntry DEF Listed
<1>2. f \in Injection(L, Listed)
  <2>1. f \in [L -> Listed] /\ \A o \in L : f[o] = room[o]
    BY <1>1
  <2>2. \A o, p \in L : f[o] = f[p] => o = p
    <3> HIDE DEF L
    <3> QED BY <1>1, <2>1
  <2> HIDE DEF L, f
  <2> QED
    BY <2>1, <2>2 DEF Injection, IsInjective
<1>3. IsFiniteSet(L) /\ Cardinality(L) <= Cardinality(Listed)
  <2> HIDE DEF L, f
  <2> QED BY <1>2, FS_Injection DEF HubBounded
<1>4. Cardinality(L) \in Nat /\ Cardinality(Listed) \in Nat
  <2> HIDE DEF L
  <2> QED BY <1>3, FS_CardinalityType DEF HubBounded
<1> HIDE DEF L
<1>5. MaxGlobalRooms > 0 => Cardinality(L) <= MaxGlobalRooms
  BY <1>3, <1>4, ConstantsAssumption DEF HubBounded
<1> QED
  BY <1>5 DEF LiveRoomsBounded, L

\* LiveRoomsBounded: the hub's limit on its rooms bounds the room objects that
\* have members, those it has forgotten included (hub.go:577).
THEOREM LiveRoomsAreBounded == Spec => []LiveRoomsBounded
<1>1. Init => HubBounded
  <2> SUFFICES ASSUME Init PROVE HubBounded
    OBVIOUS
  <2>1. Listed = {}
    BY DEF Init, Listed
  <2> QED
    BY <2>1, FS_EmptySet, ConstantsAssumption DEF HubBounded
<1>2. TypeOK /\ RoomInv /\ HubBounded /\ [Next]_vars => HubBounded'
  BY HubBoundedKept DEF RoomInv
<1>3. TypeOK /\ RoomInv /\ HubBounded => LiveRoomsBounded
  BY LiveRoomsListed
<1> QED
  BY <1>1, <1>2, <1>3, Invariance, PTL DEF Spec

-----------------------------------------------------------------------------
(* Members whose ids are their own *)

\* Every connection presents an id of its own, or none.
OwnIdsOnly == \A c \in Clients : AskedIds[c] \subseteq {c}

SelfNamed == \A c \in Clients : id[c] \in {c, None}

\* Whom somebody is kicking was shut down and does not come back.
Shut == \A c \in Clients : pc[c] = "kicking" =>
    /\ kickId[c] \in Clients
    /\ ~open[kickId[c]]
    /\ pc[kickId[c]] \notin {"new", "authed"}

\* No step gives a connection the id of another.
LEMMA SelfNamedKept ==
    ASSUME TypeOK, Placed, OwnIdsOnly, SelfNamed, [Next]_vars
    PROVE  SelfNamed'
<1> USE DEF TypeOK, OwnIdsOnly, SelfNamed
<1>1. ASSUME NEW c \in Clients, NEW r \in RoomIds, NEW k \in Keys, NEW i \in AskedIds[c],
             Authenticate(c, r, k, i)
      PROVE  SelfNamed'
  BY <1>1 DEF Authenticate, EnsureRoom, Goto, queueVars, roomVars
<1>2. ASSUME NEW c \in Clients, RejectAuth(c)
      PROVE  SelfNamed'
  BY <1>2 DEF RejectAuth, Goto, connVars, queueVars, roomVars, dbVars
<1>3. ASSUME NEW c \in Clients, FindRoom(c)
      PROVE  SelfNamed'
  BY <1>3 DEF FindRoom, Stamp, Hold, Goto, roomVars, dbVars
<1>4. ASSUME NEW c \in Clients, MakeRoom(c)
      PROVE  SelfNamed'
  BY <1>4 DEF MakeRoom, Stamp, Hold, Goto, roomVars, dbVars
<1>5. ASSUME NEW c \in Clients, RefuseRoom(c)
      PROVE  SelfNamed'
  BY <1>5 DEF RefuseRoom, Stamp, Goto, roomVars, dbVars
<1>6. ASSUME NEW c \in Clients, Found(c)
      PROVE  SelfNamed'
  BY <1>6 DEF Found, UniqueId, Goto, queueVars, dbVars
<1>7. ASSUME NEW c \in Clients, TurnAway(c)
      PROVE  SelfNamed'
  BY <1>7 DEF TurnAway, UniqueId, Goto, roomVars, dbVars
<1>8. ASSUME NEW c \in Clients, AskToJoin(c)
      PROVE  SelfNamed'
  BY <1>8 DEF AskToJoin, UniqueId, Goto, queueVars, dbVars
<1>9. ASSUME NEW c \in Clients, Admit(c)
      PROVE  SelfNamed'
  BY <1>9 DEF Admit, EnterRoom, Goto, connVars, queueVars, dbVars
<1>10. ASSUME NEW c \in Clients, Refuse(c)
      PROVE  SelfNamed'
  BY <1>10 DEF Refuse, Goto, connVars, dbVars
<1>11. ASSUME NEW c \in Clients, Command(c)
      PROVE  SelfNamed'
  BY <1>11 DEF Command, Goto, connVars, queueVars, roomVars, dbVars
<1>12. ASSUME NEW c \in Clients, NEW d \in Clients, NEW verdict \in {"approved", "rejected"},
             Decide(c, d, verdict)
      PROVE  SelfNamed'
  BY <1>12 DEF Decide, Goto, connVars, roomVars, dbVars
<1>13. ASSUME NEW c \in Clients, CommandNobody(c)
      PROVE  SelfNamed'
  BY <1>13 DEF CommandNobody, Goto, connVars, queueVars, roomVars, dbVars
<1>14. ASSUME NEW c \in Clients, NEW i \in Ids, Kick(c, i)
      PROVE  SelfNamed'
  BY <1>14 DEF Kick, Goto, connVars, roomVars, dbVars
<1>15. ASSUME NEW c \in Clients, KickDelete(c)
      PROVE  SelfNamed'
  BY <1>15 DEF KickDelete, Goto, connVars, dbVars
<1>16. ASSUME NEW c \in Clients, Disconnect(c)
      PROVE  SelfNamed'
  BY <1>16 DEF Disconnect, Goto, connVars, roomVars, dbVars
<1>17. ASSUME NEW c \in Clients, LeavePlainly(c)
      PROVE  SelfNamed'
  BY <1>17 DEF LeavePlainly, DropEntry, Goto, connVars, queueVars, dbVars
<1>18. ASSUME NEW c \in Clients, LeaveAndMigrate(c)
      PROVE  SelfNamed'
  BY <1>18 DEF LeaveAndMigrate, DropEntry, Goto, connVars, queueVars, dbVars
<1>19. ASSUME NEW c \in Clients, LeaveAndClose(c)
      PROVE  SelfNamed'
  BY <1>19 DEF LeaveAndClose, DropEntry, Goto, connVars, dbVars
<1>20. ASSUME NEW c \in Clients, Forget(c)
      PROVE  SelfNamed'
  BY <1>20 DEF Forget, Goto, connVars, queueVars, roomVars, dbVars
<1>21. ASSUME NEW c \in Clients, CloseRow(c)
      PROVE  SelfNamed'
  BY <1>21 DEF CloseRow, Goto, connVars, queueVars, roomVars
<1>22. ASSUME NEW r \in RoomIds, Expire(r)
      PROVE  SelfNamed'
  BY <1>22 DEF Expire, connVars, queueVars, roomVars
<1>23. ASSUME NEW r \in RoomIds, NEW k \in Keys, CreateRoom(r, k)
      PROVE  SelfNamed'
  BY <1>23 DEF CreateRoom, EnsureRoom, connVars, queueVars, roomVars
<1>24. CASE Crash
  BY <1>24 DEF Crash, NoEntries, connVars, dbVars
<1>25. CASE UNCHANGED vars
  BY <1>25 DEF vars, connVars, queueVars, roomVars, dbVars
<1> HIDE DEF TypeOK, OwnIdsOnly, SelfNamed
<1> QED
  BY <1>1, <1>2, <1>3, <1>4, <1>5, <1>6, <1>7, <1>8, <1>9, <1>10, <1>11, <1>12, <1>13,
     <1>14, <1>15, <1>16, <1>17, <1>18, <1>19, <1>20, <1>21, <1>22, <1>23, <1>24, <1>25
  DEF Next, Join, OpenRoom, Order, Leave, Depart

\* An entry of a room is that of the connection it is named after.
LEMMA OwnEntry ==
    ASSUME TypeOK, RoomInv, SelfNamed, NEW o \in Clients, NEW i \in Ids, clients[o][i] # None
    PROVE  i \in Clients /\ clients[o][i] = i /\ Serving(i)
<1>1. clients[o][i] \in Clients /\ id[clients[o][i]] = i /\ Serving(clients[o][i])
  BY DEF TypeOK, RoomInv, Registered
<1> QED
  BY <1>1, NoneIsNoEntry DEF SelfNamed

\* Past authentication a connection holds an object and its own name.
LEMMA SelfPlaced ==
    ASSUME TypeOK, RoomInv, SelfNamed, NEW c \in Clients, pc[c] \notin {"new", "authed", "done"}
    PROVE  obj[c] \in Clients /\ id[c] = c /\ c \in Ids
BY NoneIsNoEntry DEF RoomInv, Placed, SelfNamed

\* Nobody who is being kicked is opened again.
LEMMA ShutKept ==
    ASSUME TypeOK, RoomInv, SelfNamed, Shut, [Next]_vars
    PROVE  Shut'
<1> USE NoneIsNoEntry DEF TypeOK, Shut
<1>1. ASSUME NEW c \in Clients, NEW r \in RoomIds, NEW k \in Keys, NEW i \in AskedIds[c],
             Authenticate(c, r, k, i)
      PROVE  Shut'
  BY <1>1 DEF Authenticate, EnsureRoom, Goto, queueVars, roomVars
<1>2. ASSUME NEW c \in Clients, RejectAuth(c)
      PROVE  Shut'
  BY <1>2 DEF RejectAuth, Goto, connVars, queueVars, roomVars, dbVars
<1>3. ASSUME NEW c \in Clients, FindRoom(c)
      PROVE  Shut'
  <2>1. /\ pc[c] = "authed" /\ pc' = [pc EXCEPT ![c] = "entering"]
        /\ open' = [open EXCEPT ![c] = TRUE] /\ kickId' = kickId
    BY <1>3 DEF FindRoom, Stamp, Hold, Goto
  <2> QED
    BY <2>1
<1>4. ASSUME NEW c \in Clients, MakeRoom(c)
      PROVE  Shut'
  <2>1. /\ pc[c] = "authed" /\ pc' = [pc EXCEPT ![c] = "entering"]
        /\ open' = [open EXCEPT ![c] = TRUE] /\ kickId' = kickId
    BY <1>4 DEF MakeRoom, Stamp, Hold, Goto
  <2> QED
    BY <2>1
<1>5. ASSUME NEW c \in Clients, RefuseRoom(c)
      PROVE  Shut'
  BY <1>5 DEF RefuseRoom, Stamp, Goto, roomVars, dbVars
<1>6. ASSUME NEW c \in Clients, Found(c)
      PROVE  Shut'
  BY <1>6 DEF Found, UniqueId, Goto, queueVars, dbVars
<1>7. ASSUME NEW c \in Clients, TurnAway(c)
      PROVE  Shut'
  BY <1>7 DEF TurnAway, UniqueId, Goto, roomVars, dbVars
<1>8. ASSUME NEW c \in Clients, AskToJoin(c)
      PROVE  Shut'
  BY <1>8 DEF AskToJoin, UniqueId, Goto, queueVars, dbVars
<1>9. ASSUME NEW c \in Clients, Admit(c)
      PROVE  Shut'
  BY <1>9 DEF Admit, EnterRoom, Goto, connVars, queueVars, dbVars
<1>10. ASSUME NEW c \in Clients, Refuse(c)
      PROVE  Shut'
  BY <1>10 DEF Refuse, Goto, connVars, dbVars
<1>11. ASSUME NEW c \in Clients, Command(c)
      PROVE  Shut'
  BY <1>11 DEF Command, Goto, connVars, queueVars, roomVars, dbVars
<1>12. ASSUME NEW c \in Clients, NEW d \in Clients, NEW verdict \in {"approved", "rejected"},
             Decide(c, d, verdict)
      PROVE  Shut'
  BY <1>12 DEF Decide, Goto, connVars, roomVars, dbVars
<1>13. ASSUME NEW c \in Clients, CommandNobody(c)
      PROVE  Shut'
  BY <1>13 DEF CommandNobody, Goto, connVars, queueVars, roomVars, dbVars
<1>14. ASSUME NEW c \in Clients, NEW i \in Ids, Kick(c, i)
      PROVE  Shut'
  <2>1. obj[c] \in Clients
    BY <1>14 DEF Kick, RoomInv, Placed
  <2>2. i \in Clients /\ clients[obj[c]][i] = i /\ Serving(i)
    BY <1>14, <2>1, OwnEntry DEF Kick
  <2> QED
    BY <1>14, <2>2 DEF Kick, Goto, Serving
<1>15. ASSUME NEW c \in Clients, KickDelete(c)
      PROVE  Shut'
  BY <1>15 DEF KickDelete, Goto, connVars, dbVars
<1>16. ASSUME NEW c \in Clients, Disconnect(c)
      PROVE  Shut'
  BY <1>16 DEF Disconnect, Goto, connVars, roomVars, dbVars
<1>17. ASSUME NEW c \in Clients, LeavePlainly(c)
      PROVE  Shut'
  BY <1>17 DEF LeavePlainly, DropEntry, Goto, connVars, queueVars, dbVars
<1>18. ASSUME NEW c \in Clients, LeaveAndMigrate(c)
      PROVE  Shut'
  BY <1>18 DEF LeaveAndMigrate, DropEntry, Goto, connVars, queueVars, dbVars
<1>19. ASSUME NEW c \in Clients, LeaveAndClose(c)
      PROVE  Shut'
  BY <1>19 DEF LeaveAndClose, DropEntry, Goto, connVars, dbVars
<1>20. ASSUME NEW c \in Clients, Forget(c)
      PROVE  Shut'
  BY <1>20 DEF Forget, Goto, connVars, queueVars, roomVars, dbVars
<1>21. ASSUME NEW c \in Clients, CloseRow(c)
      PROVE  Shut'
  BY <1>21 DEF CloseRow, Goto, connVars, queueVars, roomVars
<1>22. ASSUME NEW r \in RoomIds, Expire(r)
      PROVE  Shut'
  BY <1>22 DEF Expire, connVars, queueVars, roomVars
<1>23. ASSUME NEW r \in RoomIds, NEW k \in Keys, CreateRoom(r, k)
      PROVE  Shut'
  BY <1>23 DEF CreateRoom, EnsureRoom, connVars, queueVars, roomVars
<1>24. CASE Crash
  BY <1>24 DEF Crash, NoEntries, connVars, dbVars
<1>25. CASE UNCHANGED vars
  BY <1>25 DEF vars, connVars, queueVars, roomVars, dbVars
<1> HIDE DEF TypeOK, Shut
<1> QED
  BY <1>1, <1>2, <1>3, <1>4, <1>5, <1>6, <1>7, <1>8, <1>9, <1>10, <1>11, <1>12, <1>13,
     <1>14, <1>15, <1>16, <1>17, <1>18, <1>19, <1>20, <1>21, <1>22, <1>23, <1>24, <1>25
  DEF Next, Join, OpenRoom, Order, Leave, Depart

\* Only who was shut down is ever removed by somebody else.
LEMMA PresentKept ==
    ASSUME TypeOK, RoomInv, SelfNamed, Shut, NoGhost, [Next]_vars
    PROVE  NoGhost'
<1> USE NoneIsNoEntry DEF TypeOK, NoGhost, InRoom
<1>1. ASSUME NEW c \in Clients, NEW r \in RoomIds, NEW k \in Keys, NEW i \in AskedIds[c],
             Authenticate(c, r, k, i)
      PROVE  NoGhost'
  <2>1. clients' = clients /\ \A e \in Clients :
            Serving(e)' /\ open'[e] => Serving(e) /\ open[e] /\ obj'[e] = obj[e] /\ id'[e] = id[e]
    BY <1>1 DEF Serving, Authenticate, EnsureRoom, Goto, queueVars, roomVars
  <2> QED
    BY <2>1
<1>2. ASSUME NEW c \in Clients, RejectAuth(c)
      PROVE  NoGhost'
  <2>1. clients' = clients /\ \A e \in Clients :
            Serving(e)' /\ open'[e] => Serving(e) /\ open[e] /\ obj'[e] = obj[e] /\ id'[e] = id[e]
    BY <1>2 DEF Serving, RejectAuth, Goto, connVars, queueVars, roomVars, dbVars
  <2> QED
    BY <2>1
<1>3. ASSUME NEW c \in Clients, FindRoom(c)
      PROVE  NoGhost'
  <2>1. clients' = clients /\ \A e \in Clients :
            Serving(e)' /\ open'[e] => Serving(e) /\ open[e] /\ obj'[e] = obj[e] /\ id'[e] = id[e]
    BY <1>3 DEF Serving, FindRoom, Stamp, Hold, Goto, roomVars, dbVars
  <2> QED
    BY <2>1
<1>4. ASSUME NEW c \in Clients, MakeRoom(c)
      PROVE  NoGhost'
  <2>1. clients' = clients /\ \A e \in Clients :
            Serving(e)' /\ open'[e] => Serving(e) /\ open[e] /\ obj'[e] = obj[e] /\ id'[e] = id[e]
    BY <1>4 DEF Serving, MakeRoom, Stamp, Hold, Goto, roomVars, dbVars
  <2> QED
    BY <2>1
<1>5. ASSUME NEW c \in Clients, RefuseRoom(c)
      PROVE  NoGhost'
  <2>1. clients' = clients /\ \A e \in Clients :
            Serving(e)' /\ open'[e] => Serving(e) /\ open[e] /\ obj'[e] = obj[e] /\ id'[e] = id[e]
    BY <1>5 DEF Serving, RefuseRoom, Stamp, Goto, roomVars, dbVars
  <2> QED
    BY <2>1
<1>6. ASSUME NEW c \in Clients, Found(c)
      PROVE  NoGhost'
  <2>1. obj[c] \in Clients /\ id[c] = c /\ c \in Ids
    BY <1>6, SelfPlaced DEF Found
  <2>2. \A p \in Clients, j \in Ids :
            clients'[p][j] = IF p = obj[c] /\ j = c THEN c ELSE clients[p][j]
    BY <1>6, <2>1, SetEntry DEF Found, UniqueId, EnterRoom
  <2>3. obj' = obj /\ id' = id /\ open' = open
        /\ \A d \in Clients : d # c => pc'[d] = pc[d]
    BY <1>6, <2>1 DEF Found, UniqueId, EnterRoom, Goto, connVars, queueVars
  <2>4. ASSUME NEW d \in Clients, Serving(d)', open'[d]
        PROVE  InRoom(d)'
    <3>1. CASE d = c
      BY <2>1, <2>2, <2>3, <3>1
    <3>2. CASE d # c
      <4>1. Serving(d) /\ open[d]
        BY <2>3, <2>4, <3>2 DEF Serving
      <4>2. obj[d] \in Clients /\ id[d] = d /\ d \in Ids /\ clients[obj[d]][d] = d
        BY <4>1, SelfPlaced DEF Serving
      <4> QED
        BY <2>2, <2>3, <3>2, <4>2
    <3> QED
      BY <3>1, <3>2
  <2> QED
    BY <2>4
<1>7. ASSUME NEW c \in Clients, TurnAway(c)
      PROVE  NoGhost'
  <2>1. clients' = clients /\ \A e \in Clients :
            Serving(e)' /\ open'[e] => Serving(e) /\ open[e] /\ obj'[e] = obj[e] /\ id'[e] = id[e]
    BY <1>7 DEF Serving, TurnAway, UniqueId, Goto, roomVars, dbVars
  <2> QED
    BY <2>1
<1>8. ASSUME NEW c \in Clients, AskToJoin(c)
      PROVE  NoGhost'
  <2>1. clients' = clients /\ \A e \in Clients :
            Serving(e)' /\ open'[e] => Serving(e) /\ open[e] /\ obj'[e] = obj[e] /\ id'[e] = id[e]
    BY <1>8 DEF Serving, AskToJoin, UniqueId, Goto, queueVars, dbVars
  <2> QED
    BY <2>1
<1>9. ASSUME NEW c \in Clients, Admit(c)
      PROVE  NoGhost'
  <2>1. obj[c] \in Clients /\ id[c] = c /\ c \in Ids
    BY <1>9, SelfPlaced DEF Admit
  <2>2. \A p \in Clients, j \in Ids :
            clients'[p][j] = IF p = obj[c] /\ j = c THEN c ELSE clients[p][j]
    BY <1>9, <2>1, SetEntry DEF Admit, UniqueId, EnterRoom
  <2>3. obj' = obj /\ id' = id /\ open' = open
        /\ \A d \in Clients : d # c => pc'[d] = pc[d]
    BY <1>9, <2>1 DEF Admit, UniqueId, EnterRoom, Goto, connVars, queueVars
  <2>4. ASSUME NEW d \in Clients, Serving(d)', open'[d]
        PROVE  InRoom(d)'
    <3>1. CASE d = c
      BY <2>1, <2>2, <2>3, <3>1
    <3>2. CASE d # c
      <4>1. Serving(d) /\ open[d]
        BY <2>3, <2>4, <3>2 DEF Serving
      <4>2. obj[d] \in Clients /\ id[d] = d /\ d \in Ids /\ clients[obj[d]][d] = d
        BY <4>1, SelfPlaced DEF Serving
      <4> QED
        BY <2>2, <2>3, <3>2, <4>2
    <3> QED
      BY <3>1, <3>2
  <2> QED
    BY <2>4
<1>10. ASSUME NEW c \in Clients, Refuse(c)
      PROVE  NoGhost'
  <2>1. clients' = clients /\ \A e \in Clients :
            Serving(e)' /\ open'[e] => Serving(e) /\ open[e] /\ obj'[e] = obj[e] /\ id'[e] = id[e]
    BY <1>10 DEF Serving, Refuse, Goto, connVars, dbVars
  <2> QED
    BY <2>1
<1>11. ASSUME NEW c \in Clients, Command(c)
      PROVE  NoGhost'
  <2>1. clients' = clients /\ \A e \in Clients :
            Serving(e)' /\ open'[e] => Serving(e) /\ open[e] /\ obj'[e] = obj[e] /\ id'[e] = id[e]
    BY <1>11 DEF Serving, Command, Goto, connVars, queueVars, roomVars, dbVars
  <2> QED
    BY <2>1
<1>12. ASSUME NEW c \in Clients, NEW d \in Clients, NEW verdict \in {"approved", "rejected"},
             Decide(c, d, verdict)
      PROVE  NoGhost'
  <2>1. clients' = clients /\ \A e \in Clients :
            Serving(e)' /\ open'[e] => Serving(e) /\ open[e] /\ obj'[e] = obj[e] /\ id'[e] = id[e]
    BY <1>12 DEF Serving, Decide, Goto, connVars, roomVars, dbVars
  <2> QED
    BY <2>1
<1>13. ASSUME NEW c \in Clients, CommandNobody(c)
      PROVE  NoGhost'
  <2>1. clients' = clients /\ \A e \in Clients :
            Serving(e)' /\ open'[e] => Serving(e) /\ open[e] /\ obj'[e] = obj[e] /\ id'[e] = id[e]
    BY <1>13 DEF Serving, CommandNobody, Goto, connVars, queueVars, roomVars, dbVars
  <2> QED
    BY <2>1
<1>14. ASSUME NEW c \in Clients, NEW i \in Ids, Kick(c, i)
      PROVE  NoGhost'
  <2>1. clients' = clients /\ \A e \in Clients :
            Serving(e)' /\ open'[e] => Serving(e) /\ open[e] /\ obj'[e] = obj[e] /\ id'[e] = id[e]
    BY <1>14 DEF Serving, Kick, Goto, connVars, roomVars, dbVars
  <2> QED
    BY <2>1
<1>15. ASSUME NEW c \in Clients, KickDelete(c)
      PROVE  NoGhost'
  <2>1. obj[c] \in Clients /\ kickId[c] \in Clients /\ kickId[c] \in Ids /\ ~open[kickId[c]]
    BY <1>15 DEF KickDelete, RoomInv, Placed, Shut
  <2>2. \A p \in Clients, j \in Ids :
            clients'[p][j] = IF p = obj[c] /\ j = kickId[c] THEN None ELSE clients[p][j]
    BY <1>15, <2>1, SetEntry DEF KickDelete
  <2>3. obj' = obj /\ id' = id /\ open' = open
        /\ \A d \in Clients : Serving(d)' => Serving(d)
    BY <1>15 DEF KickDelete, Goto, connVars, Serving
  <2>4. ASSUME NEW d \in Clients, Serving(d)', open'[d]
        PROVE  InRoom(d)'
    <3>1. d # kickId[c] /\ Serving(d) /\ open[d]
      BY <2>1, <2>3, <2>4
    <3>2. obj[d] \in Clients /\ id[d] = d /\ d \in Ids /\ clients[obj[d]][d] = d
      BY <3>1, SelfPlaced DEF Serving
    <3> QED
      BY <2>2, <2>3, <3>1, <3>2
  <2> QED
    BY <2>4
<1>16. ASSUME NEW c \in Clients, Disconnect(c)
      PROVE  NoGhost'
  <2>1. clients' = clients /\ \A e \in Clients :
            Serving(e)' /\ open'[e] => Serving(e) /\ open[e] /\ obj'[e] = obj[e] /\ id'[e] = id[e]
    BY <1>16 DEF Serving, Disconnect, Goto, connVars, roomVars, dbVars
  <2> QED
    BY <2>1
<1>17. ASSUME NEW c \in Clients, LeavePlainly(c)
      PROVE  NoGhost'
  <2>1. obj[c] \in Clients /\ id[c] = c /\ c \in Ids
    BY <1>17, SelfPlaced DEF LeavePlainly
  <2>2. \A p \in Clients, j \in Ids :
            clients'[p][j] = IF p = obj[c] /\ j = c THEN None ELSE clients[p][j]
    BY <1>17, <2>1, SetEntry DEF LeavePlainly, DropEntry
  <2>3. obj' = obj /\ id' = id /\ open' = open /\ ~Serving(c)'
        /\ \A d \in Clients : d # c => pc'[d] = pc[d]
    BY <1>17 DEF LeavePlainly, Goto, connVars, queueVars, Serving
  <2>4. ASSUME NEW d \in Clients, Serving(d)', open'[d]
        PROVE  InRoom(d)'
    <3>1. d # c /\ Serving(d) /\ open[d]
      BY <2>3, <2>4 DEF Serving
    <3>2. obj[d] \in Clients /\ id[d] = d /\ d \in Ids /\ clients[obj[d]][d] = d
      BY <3>1, SelfPlaced DEF Serving
    <3> QED
      BY <2>2, <2>3, <3>1, <3>2
  <2> QED
    BY <2>4
<1>18. ASSUME NEW c \in Clients, LeaveAndMigrate(c)
      PROVE  NoGhost'
  <2>1. obj[c] \in Clients /\ id[c] = c /\ c \in Ids
    BY <1>18, SelfPlaced DEF LeaveAndMigrate
  <2>2. \A p \in Clients, j \in Ids :
            clients'[p][j] = IF p = obj[c] /\ j = c THEN None ELSE clients[p][j]
    BY <1>18, <2>1, SetEntry DEF LeaveAndMigrate, DropEntry
  <2>3. obj' = obj /\ id' = id /\ open' = open /\ ~Serving(c)'
        /\ \A d \in Clients : d # c => pc'[d] = pc[d]
    BY <1>18 DEF LeaveAndMigrate, Goto, connVars, queueVars, Serving
  <2>4. ASSUME NEW d \in Clients, Serving(d)', open'[d]
        PROVE  InRoom(d)'
    <3>1. d # c /\ Serving(d) /\ open[d]
      BY <2>3, <2>4 DEF Serving
    <3>2. obj[d] \in Clients /\ id[d] = d /\ d \in Ids /\ clients[obj[d]][d] = d
      BY <3>1, SelfPlaced DEF Serving
    <3> QED
      BY <2>2, <2>3, <3>1, <3>2
  <2> QED
    BY <2>4
<1>19. ASSUME NEW c \in Clients, LeaveAndClose(c)
      PROVE  NoGhost'
  <2>1. obj[c] \in Clients /\ id[c] = c /\ c \in Ids
    BY <1>19, SelfPlaced DEF LeaveAndClose
  <2>2. \A p \in Clients, j \in Ids :
            clients'[p][j] = IF p = obj[c] /\ j = c THEN None ELSE clients[p][j]
    BY <1>19, <2>1, SetEntry DEF LeaveAndClose, DropEntry
  <2>3. obj' = obj /\ id' = id /\ open' = open /\ ~Serving(c)'
        /\ \A d \in Clients : d # c => pc'[d] = pc[d]
    BY <1>19 DEF LeaveAndClose, Goto, connVars, queueVars, Serving
  <2>4. ASSUME NEW d \in Clients, Serving(d)', open'[d]
        PROVE  InRoom(d)'
    <3>1. d # c /\ Serving(d) /\ open[d]
      BY <2>3, <2>4 DEF Serving
    <3>2. obj[d] \in Clients /\ id[d] = d /\ d \in Ids /\ clients[obj[d]][d] = d
      BY <3>1, SelfPlaced DEF Serving
    <3> QED
      BY <2>2, <2>3, <3>1, <3>2
  <2> QED
    BY <2>4
<1>20. ASSUME NEW c \in Clients, Forget(c)
      PROVE  NoGhost'
  <2>1. clients' = clients /\ \A e \in Clients :
            Serving(e)' /\ open'[e] => Serving(e) /\ open[e] /\ obj'[e] = obj[e] /\ id'[e] = id[e]
    BY <1>20 DEF Serving, Forget, Goto, connVars, queueVars, roomVars, dbVars
  <2> QED
    BY <2>1
<1>21. ASSUME NEW c \in Clients, CloseRow(c)
      PROVE  NoGhost'
  <2>1. clients' = clients /\ \A e \in Clients :
            Serving(e)' /\ open'[e] => Serving(e) /\ open[e] /\ obj'[e] = obj[e] /\ id'[e] = id[e]
    BY <1>21 DEF Serving, CloseRow, Goto, connVars, queueVars, roomVars
  <2> QED
    BY <2>1
<1>22. ASSUME NEW r \in RoomIds, Expire(r)
      PROVE  NoGhost'
  <2>1. clients' = clients /\ \A e \in Clients :
            Serving(e)' /\ open'[e] => Serving(e) /\ open[e] /\ obj'[e] = obj[e] /\ id'[e] = id[e]
    BY <1>22 DEF Serving, Expire, connVars, queueVars, roomVars
  <2> QED
    BY <2>1
<1>23. ASSUME NEW r \in RoomIds, NEW k \in Keys, CreateRoom(r, k)
      PROVE  NoGhost'
  <2>1. clients' = clients /\ \A e \in Clients :
            Serving(e)' /\ open'[e] => Serving(e) /\ open[e] /\ obj'[e] = obj[e] /\ id'[e] = id[e]
    BY <1>23 DEF Serving, CreateRoom, EnsureRoom, connVars, queueVars, roomVars
  <2> QED
    BY <2>1
<1>24. CASE Crash
  BY <1>24 DEF Crash, Serving
<1>25. CASE UNCHANGED vars
  <2>1. clients' = clients /\ \A e \in Clients :
            Serving(e)' /\ open'[e] => Serving(e) /\ open[e] /\ obj'[e] = obj[e] /\ id'[e] = id[e]
    BY <1>25 DEF Serving, vars, connVars, queueVars, roomVars, dbVars
  <2> QED
    BY <2>1
<1> HIDE DEF TypeOK, NoGhost, InRoom
<1> QED
  BY <1>1, <1>2, <1>3, <1>4, <1>5, <1>6, <1>7, <1>8, <1>9, <1>10, <1>11, <1>12, <1>13,
     <1>14, <1>15, <1>16, <1>17, <1>18, <1>19, <1>20, <1>21, <1>22, <1>23, <1>24, <1>25
  DEF Next, Join, OpenRoom, Order, Leave, Depart

\* NoGhost: as long as every connection presents an id of its own, who was
\* admitted and not shut down is in its room (hub.go:735 and 1246 delete by id).
THEOREM OwnIdsLeaveNoGhosts == ASSUME OwnIdsOnly PROVE Spec => []NoGhost
<1>1. Init => SelfNamed /\ Shut /\ NoGhost
  BY DEF Init, SelfNamed, Shut, NoGhost, Serving
<1>2. TypeOK /\ RoomInv /\ SelfNamed /\ Shut /\ NoGhost /\ [Next]_vars
        => SelfNamed' /\ Shut' /\ NoGhost'
  BY SelfNamedKept, ShutKept, PresentKept DEF RoomInv
<1> QED
  BY <1>1, <1>2, Invariance, PTL DEF Spec

-----------------------------------------------------------------------------
(* The place of a connection that waits *)

\* The id a connection has is a shared name or its own.
NamedApart == \A c \in Clients : id[c] \in Names \cup {c, None}

\* Whoever waits for a room that is open is in its list of requests, and
\* nobody who is in the room has the same id: admission replaces no member.
PlaceKept(c) == pending[obj[c]][id[c]] = c /\ clients[obj[c]][id[c]] = None

Reserved == \A c \in Clients : pc[c] = "waiting" /\ ~closed[obj[c]] => PlaceKept(c)

\* Ids are given by the client, or made for it.
LEMMA NamedApartKept ==
    ASSUME TypeOK, Placed, NamedApart, [Next]_vars
    PROVE  NamedApart'
<1> USE ConstantsAssumption DEF TypeOK, Placed, NamedApart
<1>1. ASSUME NEW c \in Clients, NEW r \in RoomIds, NEW k \in Keys, NEW i \in AskedIds[c],
             Authenticate(c, r, k, i)
      PROVE  NamedApart'
  BY <1>1 DEF Authenticate, EnsureRoom, Goto, queueVars, roomVars
<1>2. ASSUME NEW c \in Clients, RejectAuth(c)
      PROVE  NamedApart'
  BY <1>2 DEF RejectAuth, Goto, connVars, queueVars, roomVars, dbVars
<1>3. ASSUME NEW c \in Clients, FindRoom(c)
      PROVE  NamedApart'
  BY <1>3 DEF FindRoom, Stamp, Hold, Goto, roomVars, dbVars
<1>4. ASSUME NEW c \in Clients, MakeRoom(c)
      PROVE  NamedApart'
  BY <1>4 DEF MakeRoom, Stamp, Hold, Goto, roomVars, dbVars
<1>5. ASSUME NEW c \in Clients, RefuseRoom(c)
      PROVE  NamedApart'
  BY <1>5 DEF RefuseRoom, Stamp, Goto, roomVars, dbVars
<1>6. ASSUME NEW c \in Clients, Found(c)
      PROVE  NamedApart'
  BY <1>6 DEF Found, UniqueId, Goto, queueVars, dbVars
<1>7. ASSUME NEW c \in Clients, TurnAway(c)
      PROVE  NamedApart'
  BY <1>7 DEF TurnAway, UniqueId, Goto, roomVars, dbVars
<1>8. ASSUME NEW c \in Clients, AskToJoin(c)
      PROVE  NamedApart'
  BY <1>8 DEF AskToJoin, UniqueId, Goto, queueVars, dbVars
<1>9. ASSUME NEW c \in Clients, Admit(c)
      PROVE  NamedApart'
  BY <1>9 DEF Admit, EnterRoom, Goto, connVars, queueVars, dbVars
<1>10. ASSUME NEW c \in Clients, Refuse(c)
      PROVE  NamedApart'
  BY <1>10 DEF Refuse, Goto, connVars, dbVars
<1>11. ASSUME NEW c \in Clients, Command(c)
      PROVE  NamedApart'
  BY <1>11 DEF Command, Goto, connVars, queueVars, roomVars, dbVars
<1>12. ASSUME NEW c \in Clients, NEW d \in Clients, NEW verdict \in {"approved", "rejected"},
             Decide(c, d, verdict)
      PROVE  NamedApart'
  BY <1>12 DEF Decide, Goto, connVars, roomVars, dbVars
<1>13. ASSUME NEW c \in Clients, CommandNobody(c)
      PROVE  NamedApart'
  BY <1>13 DEF CommandNobody, Goto, connVars, queueVars, roomVars, dbVars
<1>14. ASSUME NEW c \in Clients, NEW i \in Ids, Kick(c, i)
      PROVE  NamedApart'
  BY <1>14 DEF Kick, Goto, connVars, roomVars, dbVars
<1>15. ASSUME NEW c \in Clients, KickDelete(c)
      PROVE  NamedApart'
  BY <1>15 DEF KickDelete, Goto, connVars, dbVars
<1>16. ASSUME NEW c \in Clients, Disconnect(c)
      PROVE  NamedApart'
  BY <1>16 DEF Disconnect, Goto, connVars, roomVars, dbVars
<1>17. ASSUME NEW c \in Clients, LeavePlainly(c)
      PROVE  NamedApart'
  BY <1>17 DEF LeavePlainly, DropEntry, Goto, connVars, queueVars, dbVars
<1>18. ASSUME NEW c \in Clients, LeaveAndMigrate(c)
      PROVE  NamedApart'
  BY <1>18 DEF LeaveAndMigrate, DropEntry, Goto, connVars, queueVars, dbVars
<1>19. ASSUME NEW c \in Clients, LeaveAndClose(c)
      PROVE  NamedApart'
  BY <1>19 DEF LeaveAndClose, DropEntry, Goto, connVars, dbVars
<1>20. ASSUME NEW c \in Clients, Forget(c)
      PROVE  NamedApart'
  BY <1>20 DEF Forget, Goto, connVars, queueVars, roomVars, dbVars
<1>21. ASSUME NEW c \in Clients, CloseRow(c)
      PROVE  NamedApart'
  BY <1>21 DEF CloseRow, Goto, connVars, queueVars, roomVars
<1>22. ASSUME NEW r \in RoomIds, Expire(r)
      PROVE  NamedApart'
  BY <1>22 DEF Expire, connVars, queueVars, roomVars
<1>23. ASSUME NEW r \in RoomIds, NEW k \in Keys, CreateRoom(r, k)
      PROVE  NamedApart'
  BY <1>23 DEF CreateRoom, EnsureRoom, connVars, queueVars, roomVars
<1>24. CASE Crash
  BY <1>24 DEF Crash, NoEntries, connVars, dbVars
<1>25. CASE UNCHANGED vars
  BY <1>25 DEF vars, connVars, queueVars, roomVars, dbVars
<1> HIDE DEF TypeOK, Placed, NamedApart
<1> QED
  BY <1>1, <1>2, <1>3, <1>4, <1>5, <1>6, <1>7, <1>8, <1>9, <1>10, <1>11, <1>12, <1>13,
     <1>14, <1>15, <1>16, <1>17, <1>18, <1>19, <1>20, <1>21, <1>22, <1>23, <1>24, <1>25
  DEF Next, Join, OpenRoom, Order, Leave, Depart

LEMMA WaitingPlaced ==
    ASSUME TypeOK, RoomInv, NEW c \in Clients, pc[c] \notin {"new", "authed", "done"}
    PROVE  obj[c] \in Clients /\ id[c] \in Ids /\ room[c] \in RoomIds
BY DEF RoomInv, Placed

\* The id a room gives to a newcomer is free in it.
LEMMA UniqueIdIsFree ==
    ASSUME TypeOK, RoomInv, NamedApart, NEW c \in Clients, pc[c] = "entering",
           NEW i, i = UniqueId(obj[c], c, id[c])
    PROVE  /\ i \in Ids
           /\ clients[obj[c]][i] = None /\ pending[obj[c]][i] = None
<1> DEFINE o == obj[c]
<1>1. o \in Clients /\ id[c] \in Ids
  BY WaitingPlaced
<1>2. CASE ~Occupied(o, id[c])
  BY <1>1, <1>2 DEF UniqueId, Occupied
<1>3. CASE Occupied(o, id[c])
  <2>1. i = c
    BY <1>3 DEF UniqueId
  <2>2. ASSUME NEW x \in Clients, id[x] = c PROVE x = c
    BY <2>2, ConstantsAssumption DEF NamedApart
  <2>3. clients[o][c] = None
    <3> SUFFICES ASSUME clients[o][c] # None PROVE FALSE
      OBVIOUS
    <3>1. clients[o][c] \in Clients /\ id[clients[o][c]] = c /\ Serving(clients[o][c])
      BY <1>1, NoneIsNoEntry DEF TypeOK, RoomInv, Registered
    <3> QED
      BY <2>2, <3>1 DEF Serving
  <2>4. pending[o][c] = None
    <3> SUFFICES ASSUME pending[o][c] # None PROVE FALSE
      OBVIOUS
    <3>1. pending[o][c] \in Clients /\ id[pending[o][c]] = c /\ pc[pending[o][c]] = "waiting"
      BY <1>1, NoneIsNoEntry DEF TypeOK, RoomInv, Registered
    <3> QED
      BY <2>2, <3>1
  <2> QED
    BY <2>1, <2>3, <2>4, NoneIsNoEntry
<1> QED
  BY <1>2, <1>3

\* Nobody else is given the id of a connection that waits.
LEMMA ReservedKept ==
    ASSUME TypeOK, RoomInv, NamedApart, Reserved, [Next]_vars
    PROVE  Reserved'
<1> USE NoneIsNoEntry DEF TypeOK, Reserved
<1>1. ASSUME NEW c \in Clients, NEW r \in RoomIds, NEW k \in Keys, NEW i \in AskedIds[c],
             Authenticate(c, r, k, i)
      PROVE  Reserved'
  <2>1. /\ clients' = clients /\ pending' = pending /\ closed' = closed
        /\ \A e \in Clients : pc'[e] = "waiting" =>
                pc[e] = "waiting" /\ obj'[e] = obj[e] /\ id'[e] = id[e]
    BY <1>1 DEF Authenticate, EnsureRoom, Goto, queueVars, roomVars
  <2> QED
    BY <2>1 DEF PlaceKept
<1>2. ASSUME NEW c \in Clients, RejectAuth(c)
      PROVE  Reserved'
  <2>1. /\ clients' = clients /\ pending' = pending /\ closed' = closed
        /\ \A e \in Clients : pc'[e] = "waiting" =>
                pc[e] = "waiting" /\ obj'[e] = obj[e] /\ id'[e] = id[e]
    BY <1>2 DEF RejectAuth, Goto, connVars, queueVars, roomVars, dbVars
  <2> QED
    BY <2>1 DEF PlaceKept
<1>3. ASSUME NEW c \in Clients, FindRoom(c)
      PROVE  Reserved'
  <2>1. /\ clients' = clients /\ pending' = pending /\ closed' = closed
        /\ \A e \in Clients : pc'[e] = "waiting" =>
                pc[e] = "waiting" /\ obj'[e] = obj[e] /\ id'[e] = id[e]
    BY <1>3 DEF FindRoom, Stamp, Hold, Goto, roomVars, dbVars
  <2> QED
    BY <2>1 DEF PlaceKept
<1>4. ASSUME NEW c \in Clients, MakeRoom(c)
      PROVE  Reserved'
  <2>1. /\ clients' = clients /\ pending' = pending /\ closed' = closed
        /\ \A e \in Clients : pc'[e] = "waiting" =>
                pc[e] = "waiting" /\ obj'[e] = obj[e] /\ id'[e] = id[e]
    BY <1>4 DEF MakeRoom, Stamp, Hold, Goto, roomVars, dbVars
  <2> QED
    BY <2>1 DEF PlaceKept
<1>5. ASSUME NEW c \in Clients, RefuseRoom(c)
      PROVE  Reserved'
  <2>1. /\ clients' = clients /\ pending' = pending /\ closed' = closed
        /\ \A e \in Clients : pc'[e] = "waiting" =>
                pc[e] = "waiting" /\ obj'[e] = obj[e] /\ id'[e] = id[e]
    BY <1>5 DEF RefuseRoom, Stamp, Goto, roomVars, dbVars
  <2> QED
    BY <2>1 DEF PlaceKept
<1>6. ASSUME NEW c \in Clients, Found(c)
      PROVE  Reserved'
  <2> DEFINE i == UniqueId(obj[c], c, id[c])
  <2>1. obj[c] \in Clients /\ i \in Ids /\ hostID[obj[c]] = None
    BY <1>6, WaitingPlaced, UniqueIdIsFree DEF Found
  <2>2. \A p \in Clients, j \in Ids :
            clients'[p][j] = IF p = obj[c] /\ j = i THEN c ELSE clients[p][j]
    BY <1>6, <2>1, SetEntry DEF Found
  <2>3. /\ pending' = pending /\ closed' = closed /\ obj' = obj
        /\ \A d \in Clients : pc'[d] = "waiting" => pc[d] = "waiting" /\ id'[d] = id[d]
    BY <1>6 DEF Found, Goto, queueVars
  <2>4. ASSUME NEW d \in Clients, pc[d] = "waiting", ~closed[obj[d]], id'[d] = id[d]
        PROVE  PlaceKept(d)'
    <3>1. obj[d] # obj[c]
      BY <2>1, <2>4 DEF RoomInv, Founded
    <3>2. PlaceKept(d) /\ obj[d] \in Clients /\ id[d] \in Ids
      BY <2>4, WaitingPlaced
    <3> HIDE DEF i
    <3> QED
      BY <2>2, <2>3, <2>4, <3>1, <3>2 DEF PlaceKept
  <2> HIDE DEF i
  <2> QED
    BY <2>3, <2>4
<1>7. ASSUME NEW c \in Clients, TurnAway(c)
      PROVE  Reserved'
  <2>1. /\ clients' = clients /\ pending' = pending /\ closed' = closed
        /\ \A e \in Clients : pc'[e] = "waiting" =>
                pc[e] = "waiting" /\ obj'[e] = obj[e] /\ id'[e] = id[e]
    BY <1>7 DEF TurnAway, UniqueId, Goto, roomVars, dbVars
  <2> QED
    BY <2>1 DEF PlaceKept
<1>8. ASSUME NEW c \in Clients, AskToJoin(c)
      PROVE  Reserved'
  <2> DEFINE i == UniqueId(obj[c], c, id[c])
  <2>1. /\ obj[c] \in Clients /\ i \in Ids
        /\ clients[obj[c]][i] = None /\ pending[obj[c]][i] = None
    BY <1>8, WaitingPlaced, UniqueIdIsFree DEF AskToJoin
  <2>2. \A p \in Clients, j \in Ids :
            pending'[p][j] = IF p = obj[c] /\ j = i THEN c ELSE pending[p][j]
    BY <1>8, <2>1, SetEntry DEF AskToJoin
  <2>3. /\ clients' = clients /\ closed' = closed /\ obj' = obj /\ id'[c] = i
        /\ \A d \in Clients : d # c => pc'[d] = pc[d] /\ id'[d] = id[d]
    BY <1>8 DEF AskToJoin, Goto, queueVars
  <2>4. PlaceKept(c)'
    BY <2>1, <2>2, <2>3 DEF PlaceKept
  <2>5. ASSUME NEW d \in Clients, d # c, pc[d] = "waiting", ~closed[obj[d]]
        PROVE  PlaceKept(d)'
    <3>1. PlaceKept(d) /\ obj[d] \in Clients /\ id[d] \in Ids
      BY <2>5, WaitingPlaced
    <3>2. ~(obj[d] = obj[c] /\ id[d] = i)
      BY <2>1, <3>1, NoneIsNoEntry DEF PlaceKept
    <3> HIDE DEF i
    <3> QED
      BY <2>2, <2>3, <2>5, <3>1, <3>2 DEF PlaceKept
  <2> HIDE DEF i
  <2> QED
    BY <2>3, <2>4, <2>5
<1>9. ASSUME NEW c \in Clients, Admit(c)
      PROVE  Reserved'
  <2>1. obj[c] \in Clients /\ id[c] \in Ids /\ PlaceKept(c)
    BY <1>9, WaitingPlaced DEF Admit
  <2>2. \A p \in Clients, j \in Ids :
            /\ clients'[p][j] = IF p = obj[c] /\ j = id[c] THEN c ELSE clients[p][j]
            /\ pending'[p][j] = IF p = obj[c] /\ j = id[c] THEN None ELSE pending[p][j]
    BY <1>9, <2>1, SetEntry DEF Admit, EnterRoom
  <2>3. /\ closed' = closed /\ obj' = obj /\ id' = id
        /\ \A d \in Clients : pc'[d] = "waiting" => d # c /\ pc[d] = "waiting"
    BY <1>9 DEF Admit, EnterRoom, Goto, connVars
  <2>4. ASSUME NEW d \in Clients, d # c, pc[d] = "waiting", ~closed[obj[d]]
        PROVE  PlaceKept(d)'
    <3>1. PlaceKept(d) /\ obj[d] \in Clients /\ id[d] \in Ids
      BY <2>4, WaitingPlaced
    <3>2. ~(obj[d] = obj[c] /\ id[d] = id[c])
      BY <2>1, <2>4, <3>1 DEF PlaceKept
    <3> QED
      BY <2>2, <2>3, <3>1, <3>2 DEF PlaceKept
  <2> QED
    BY <2>3, <2>4
<1>10. ASSUME NEW c \in Clients, Refuse(c)
      PROVE  Reserved'
  <2>1. obj[c] \in Clients /\ id[c] \in Ids /\ (~closed[obj[c]] => PlaceKept(c))
    BY <1>10, WaitingPlaced DEF Refuse
  <2>2. \A p \in Clients, j \in Ids :
            pending'[p][j] = IF p = obj[c] /\ j = id[c] THEN None ELSE pending[p][j]
    BY <1>10, <2>1, SetEntry DEF Refuse
  <2>3. /\ clients' = clients /\ closed' = closed /\ obj' = obj /\ id' = id
        /\ \A d \in Clients : pc'[d] = "waiting" => d # c /\ pc[d] = "waiting"
    BY <1>10 DEF Refuse, Goto, connVars
  <2>4. ASSUME NEW d \in Clients, d # c, pc[d] = "waiting", ~closed[obj[d]]
        PROVE  PlaceKept(d)'
    <3>1. PlaceKept(d) /\ obj[d] \in Clients /\ id[d] \in Ids
      BY <2>4, WaitingPlaced
    <3>2. ~(obj[d] = obj[c] /\ id[d] = id[c])
      BY <2>1, <2>4, <3>1 DEF PlaceKept
    <3> QED
      BY <2>2, <2>3, <3>1, <3>2 DEF PlaceKept
  <2> QED
    BY <2>3, <2>4
<1>11. ASSUME NEW c \in Clients, Command(c)
      PROVE  Reserved'
  <2>1. /\ clients' = clients /\ pending' = pending /\ closed' = closed
        /\ \A e \in Clients : pc'[e] = "waiting" =>
                pc[e] = "waiting" /\ obj'[e] = obj[e] /\ id'[e] = id[e]
    BY <1>11 DEF Command, Goto, connVars, queueVars, roomVars, dbVars
  <2> QED
    BY <2>1 DEF PlaceKept
<1>12. ASSUME NEW c \in Clients, NEW d \in Clients, NEW verdict \in {"approved", "rejected"},
             Decide(c, d, verdict)
      PROVE  Reserved'
  <2>1. /\ clients' = clients /\ pending' = pending /\ closed' = closed
        /\ \A e \in Clients : pc'[e] = "waiting" =>
                pc[e] = "waiting" /\ obj'[e] = obj[e] /\ id'[e] = id[e]
    BY <1>12 DEF Decide, Goto, connVars, roomVars, dbVars
  <2> QED
    BY <2>1 DEF PlaceKept
<1>13. ASSUME NEW c \in Clients, CommandNobody(c)
      PROVE  Reserved'
  <2>1. /\ clients' = clients /\ pending' = pending /\ closed' = closed
        /\ \A e \in Clients : pc'[e] = "waiting" =>
                pc[e] = "waiting" /\ obj'[e] = obj[e] /\ id'[e] = id[e]
    BY <1>13 DEF CommandNobody, Goto, connVars, queueVars, roomVars, dbVars
  <2> QED
    BY <2>1 DEF PlaceKept
<1>14. ASSUME NEW c \in Clients, NEW i \in Ids, Kick(c, i)
      PROVE  Reserved'
  <2>1. /\ clients' = clients /\ pending' = pending /\ closed' = closed
        /\ \A e \in Clients : pc'[e] = "waiting" =>
                pc[e] = "waiting" /\ obj'[e] = obj[e] /\ id'[e] = id[e]
    BY <1>14 DEF Kick, Goto, connVars, roomVars, dbVars
  <2> QED
    BY <2>1 DEF PlaceKept
<1>15. ASSUME NEW c \in Clients, KickDelete(c)
      PROVE  Reserved'
  <2>1. obj[c] \in Clients /\ kickId[c] \in Ids
    BY <1>15, WaitingPlaced DEF KickDelete, RoomInv, Placed
  <2>2. \A p \in Clients, j \in Ids :
            clients'[p][j] = IF p = obj[c] /\ j = kickId[c] THEN None ELSE clients[p][j]
    BY <1>15, <2>1, SetEntry DEF KickDelete, DropEntry
  <2>3. /\ pending' = pending /\ closed' = closed /\ obj' = obj /\ id' = id
        /\ \A d \in Clients : pc'[d] = "waiting" => pc[d] = "waiting"
    BY <1>15 DEF KickDelete, Goto, connVars, queueVars
  <2>4. ASSUME NEW d \in Clients, pc[d] = "waiting", ~closed[obj[d]]
        PROVE  PlaceKept(d)'
    <3>1. PlaceKept(d) /\ obj[d] \in Clients /\ id[d] \in Ids
      BY <2>4, WaitingPlaced
    <3> QED
      BY <2>2, <2>3, <3>1 DEF PlaceKept
  <2> QED
    BY <2>3, <2>4
<1>16. ASSUME NEW c \in Clients, Disconnect(c)
      PROVE  Reserved'
  <2>1. /\ clients' = clients /\ pending' = pending /\ closed' = closed
        /\ \A e \in Clients : pc'[e] = "waiting" =>
                pc[e] = "waiting" /\ obj'[e] = obj[e] /\ id'[e] = id[e]
    BY <1>16 DEF Disconnect, Goto, connVars, roomVars, dbVars
  <2> QED
    BY <2>1 DEF PlaceKept
<1>17. ASSUME NEW c \in Clients, LeavePlainly(c)
      PROVE  Reserved'
  <2>1. obj[c] \in Clients /\ id[c] \in Ids
    BY <1>17, WaitingPlaced DEF LeavePlainly
  <2>2. \A p \in Clients, j \in Ids :
            clients'[p][j] = IF p = obj[c] /\ j = id[c] THEN None ELSE clients[p][j]
    BY <1>17, <2>1, SetEntry DEF LeavePlainly, DropEntry
  <2>3. /\ pending' = pending /\ closed' = closed /\ obj' = obj /\ id' = id
        /\ \A d \in Clients : pc'[d] = "waiting" => pc[d] = "waiting"
    BY <1>17 DEF LeavePlainly, Goto, connVars, queueVars
  <2>4. ASSUME NEW d \in Clients, pc[d] = "waiting", ~closed[obj[d]]
        PROVE  PlaceKept(d)'
    <3>1. PlaceKept(d) /\ obj[d] \in Clients /\ id[d] \in Ids
      BY <2>4, WaitingPlaced
    <3> QED
      BY <2>2, <2>3, <3>1 DEF PlaceKept
  <2> QED
    BY <2>3, <2>4
<1>18. ASSUME NEW c \in Clients, LeaveAndMigrate(c)
      PROVE  Reserved'
  <2>1. obj[c] \in Clients /\ id[c] \in Ids
    BY <1>18, WaitingPlaced DEF LeaveAndMigrate
  <2>2. \A p \in Clients, j \in Ids :
            clients'[p][j] = IF p = obj[c] /\ j = id[c] THEN None ELSE clients[p][j]
    BY <1>18, <2>1, SetEntry DEF LeaveAndMigrate, DropEntry
  <2>3. /\ pending' = pending /\ closed' = closed /\ obj' = obj /\ id' = id
        /\ \A d \in Clients : pc'[d] = "waiting" => pc[d] = "waiting"
    BY <1>18 DEF LeaveAndMigrate, Goto, connVars, queueVars
  <2>4. ASSUME NEW d \in Clients, pc[d] = "waiting", ~closed[obj[d]]
        PROVE  PlaceKept(d)'
    <3>1. PlaceKept(d) /\ obj[d] \in Clients /\ id[d] \in Ids
      BY <2>4, WaitingPlaced
    <3> QED
      BY <2>2, <2>3, <3>1 DEF PlaceKept
  <2> QED
    BY <2>3, <2>4
<1>19. ASSUME NEW c \in Clients, LeaveAndClose(c)
      PROVE  Reserved'
  <2>1. obj[c] \in Clients /\ id[c] \in Ids
    BY <1>19, WaitingPlaced DEF LeaveAndClose
  <2>2. /\ \A p \in Clients, j \in Ids : p # obj[c] =>
                clients'[p][j] = clients[p][j] /\ pending'[p][j] = pending[p][j]
        /\ closed' = [closed EXCEPT ![obj[c]] = TRUE] /\ obj' = obj /\ id' = id
        /\ \A d \in Clients : pc'[d] = "waiting" => pc[d] = "waiting"
    BY <1>19, <2>1 DEF LeaveAndClose, DropEntry, Goto, connVars
  <2>3. ASSUME NEW d \in Clients, pc[d] = "waiting", ~closed'[obj[d]]
        PROVE  PlaceKept(d)'
    <3>1. obj[d] \in Clients /\ id[d] \in Ids /\ obj[d] # obj[c] /\ ~closed[obj[d]]
      BY <2>1, <2>2, <2>3, WaitingPlaced
    <3> QED
      BY <2>2, <2>3, <3>1 DEF PlaceKept
  <2> QED
    BY <2>2, <2>3
<1>20. ASSUME NEW c \in Clients, Forget(c)
      PROVE  Reserved'
  <2>1. /\ clients' = clients /\ pending' = pending /\ closed' = closed
        /\ \A e \in Clients : pc'[e] = "waiting" =>
                pc[e] = "waiting" /\ obj'[e] = obj[e] /\ id'[e] = id[e]
    BY <1>20 DEF Forget, Goto, connVars, queueVars, roomVars, dbVars
  <2> QED
    BY <2>1 DEF PlaceKept
<1>21. ASSUME NEW c \in Clients, CloseRow(c)
      PROVE  Reserved'
  <2>1. /\ clients' = clients /\ pending' = pending /\ closed' = closed
        /\ \A e \in Clients : pc'[e] = "waiting" =>
                pc[e] = "waiting" /\ obj'[e] = obj[e] /\ id'[e] = id[e]
    BY <1>21 DEF CloseRow, Goto, connVars, queueVars, roomVars
  <2> QED
    BY <2>1 DEF PlaceKept
<1>22. ASSUME NEW r \in RoomIds, Expire(r)
      PROVE  Reserved'
  <2>1. /\ clients' = clients /\ pending' = pending /\ closed' = closed
        /\ \A e \in Clients : pc'[e] = "waiting" =>
                pc[e] = "waiting" /\ obj'[e] = obj[e] /\ id'[e] = id[e]
    BY <1>22 DEF Expire, connVars, queueVars, roomVars
  <2> QED
    BY <2>1 DEF PlaceKept
<1>23. ASSUME NEW r \in RoomIds, NEW k \in Keys, CreateRoom(r, k)
      PROVE  Reserved'
  <2>1. /\ clients' = clients /\ pending' = pending /\ closed' = closed
        /\ \A e \in Clients : pc'[e] = "waiting" =>
                pc[e] = "waiting" /\ obj'[e] = obj[e] /\ id'[e] = id[e]
    BY <1>23 DEF CreateRoom, EnsureRoom, connVars, queueVars, roomVars
  <2> QED
    BY <2>1 DEF PlaceKept
<1>24. CASE Crash
  BY <1>24 DEF Crash
<1>25. CASE UNCHANGED vars
  <2>1. /\ clients' = clients /\ pending' = pending /\ closed' = closed
        /\ \A e \in Clients : pc'[e] = "waiting" =>
                pc[e] = "waiting" /\ obj'[e] = obj[e] /\ id'[e] = id[e]
    BY <1>25 DEF vars, connVars, queueVars, roomVars, dbVars
  <2> QED
    BY <2>1 DEF PlaceKept
<1> HIDE DEF TypeOK, Reserved
<1> QED
  BY <1>1, <1>2, <1>3, <1>4, <1>5, <1>6, <1>7, <1>8, <1>9, <1>10, <1>11, <1>12, <1>13,
     <1>14, <1>15, <1>16, <1>17, <1>18, <1>19, <1>20, <1>21, <1>22, <1>23, <1>24, <1>25
  DEF Next, Join, OpenRoom, Order, Leave, Depart

LEMMA SessionInvariance == Spec => [](TypeOK /\ RoomInv /\ NamedApart /\ Reserved)
<1>1. Init => NamedApart /\ Reserved
  BY DEF Init, NamedApart, Reserved
<1>2. TypeOK /\ RoomInv /\ NamedApart /\ Reserved /\ [Next]_vars => NamedApart' /\ Reserved'
  BY NamedApartKept, ReservedKept DEF RoomInv
<1> QED
  BY <1>1, <1>2, Invariance, PTL DEF Spec

-----------------------------------------------------------------------------
(* RoomMembership implements RoomSession *)

Joining == {"new", "authed", "entering", "waiting"}

\* The state of the session, as the refinement mapping computes it.
MembersOf == [r \in RoomIds |-> {c \in Clients : InRoom(c) /\ room[c] = r}]
Invited   == {c \in Clients : result[c] = "approved"}
Spent     == {c \in Clients : pc[c] \notin Joining}

SessionStep == [Session!Next]_(Session!vars)

\* What the mapped state has to do for a step to be one of the session: one
\* lemma for a stutter, and one for each action of RoomSession.
LEMMA Stutters ==
    ASSUME MembersOf' = MembersOf, Invited' = Invited, Spent' = Spent
    PROVE  SessionStep
BY DEF SessionStep, Session!vars, MembersOf, Invited, Spent, Joining

LEMMA GivesUp ==
    ASSUME NEW c \in Clients, MembersOf' = MembersOf, Invited' = Invited, Spent' = Spent \cup {c}
    PROVE  SessionStep
<1>1. Session!GiveUp(c)
  BY DEF Session!GiveUp, MembersOf, Invited, Spent, Joining
<1> QED
  BY <1>1 DEF SessionStep, Session!Next

LEMMA Invites ==
    ASSUME NEW c \in Clients, c \notin Spent,
           MembersOf' = MembersOf, Invited' = Invited \cup {c}, Spent' = Spent
    PROVE  SessionStep
<1>1. Session!Invite(c)
  BY DEF Session!Invite, MembersOf, Invited, Spent, Joining
<1> QED
  BY <1>1 DEF SessionStep, Session!Next

LEMMA Founds ==
    ASSUME NEW c \in Clients, NEW r \in RoomIds, c \notin Spent, MembersOf[r] = {},
           MembersOf' = [MembersOf EXCEPT ![r] = {c}], Invited' = Invited, Spent' = Spent \cup {c}
    PROVE  SessionStep
<1>1. Session!Found(r, c)
  BY DEF Session!Found, MembersOf, Invited, Spent, Joining
<1> QED
  BY <1>1 DEF SessionStep, Session!Next

LEMMA Admits ==
    ASSUME NEW c \in Clients, NEW r \in RoomIds, c \in Invited \ Spent, MembersOf[r] # {},
           MembersOf' = [MembersOf EXCEPT ![r] = @ \cup {c}], Invited' = Invited,
           Spent' = Spent \cup {c}
    PROVE  SessionStep
<1>1. Session!Admit(r, c)
  BY DEF Session!Admit, MembersOf, Invited, Spent, Joining
<1> QED
  BY <1>1 DEF SessionStep, Session!Next

LEMMA Removes ==
    ASSUME NEW c \in Clients, NEW r \in RoomIds,
           MembersOf' = [MembersOf EXCEPT ![r] = @ \ {c}], Invited' = Invited, Spent' = Spent
    PROVE  SessionStep
<1>1. Session!Remove(r, c)
  BY DEF Session!Remove, MembersOf, Invited, Spent, Joining
<1> QED
  BY <1>1 DEF SessionStep, Session!Next

\* How a connection's next phase shows in the session.
LEMMA SpentStep ==
    ASSUME NEW c \in Clients, \A d \in Clients : d # c => pc'[d] = pc[d]
    PROVE  /\ pc'[c] \notin Joining => Spent' = Spent \cup {c}
           /\ pc'[c] \in Joining /\ pc[c] \in Joining => Spent' = Spent
           /\ pc'[c] \notin Joining /\ pc[c] \notin Joining => Spent' = Spent
BY DEF Spent

\* Members are connections that serve.
LEMMA NoEntryOf ==
    ASSUME TypeOK, RoomInv, NEW c \in Clients, ~Serving(c)
    PROVE  /\ \A o \in Clients, i \in Ids : clients[o][i] # c
           /\ ~InRoom(c)
<1>1. \A o \in Clients, i \in Ids : clients[o][i] # c
  BY NoneIsNoEntry DEF RoomInv, Registered
<1> QED
  BY <1>1, NoneIsNoEntry DEF InRoom, TypeOK

LEMMA SameMembers ==
    ASSUME \A d \in Clients : (InRoom(d)' <=> InRoom(d)) /\ (InRoom(d) => room'[d] = room[d])
    PROVE  MembersOf' = MembersOf
<1>1. \A d \in Clients, r \in RoomIds : InRoom(d)' /\ room'[d] = r <=> InRoom(d) /\ room[d] = r
  OBVIOUS
<1> QED
  BY <1>1 DEF MembersOf

\* Steps that touch one connection, which is not in its room before or after.
LEMMA Outside ==
    ASSUME TypeOK, RoomInv, NEW c \in Clients, ~Serving(c),
           clients' = clients, obj'[c] \in Clients \cup {None}, id'[c] \in Ids \cup {None},
           \A d \in Clients : d # c =>
                room'[d] = room[d] /\ obj'[d] = obj[d] /\ id'[d] = id[d]
    PROVE  MembersOf' = MembersOf
<1>1. ~InRoom(c) /\ ~InRoom(c)'
  BY NoEntryOf DEF InRoom
<1>2. \A d \in Clients : d # c => (InRoom(d)' <=> InRoom(d))
  BY DEF InRoom
<1> QED
  BY <1>1, <1>2, SameMembers

\* A connection that gets an entry of its own joins its room.
LEMMA Joined ==
    ASSUME TypeOK, RoomInv, NEW c \in Clients, room[c] \in RoomIds, obj[c] \in Clients,
           NEW i \in Ids, clients[obj[c]][i] = None, ~Serving(c),
           \A p \in Clients, j \in Ids :
               clients'[p][j] = IF p = obj[c] /\ j = i THEN c ELSE clients[p][j],
           room' = room, obj' = obj, id'[c] = i, \A d \in Clients : d # c => id'[d] = id[d]
    PROVE  MembersOf' = [MembersOf EXCEPT ![room[c]] = @ \cup {c}]
<1>1. InRoom(c)'
  BY NoneIsNoEntry DEF InRoom
<1>2. ASSUME NEW d \in Clients, d # c PROVE (InRoom(d)' <=> InRoom(d))
  <2>1. CASE obj[d] # None /\ id[d] # None
    <3>1. obj[d] \in Clients /\ id[d] \in Ids
      BY <2>1 DEF TypeOK
    <3> QED
      BY <1>2, <2>1, <3>1, NoneIsNoEntry DEF InRoom
  <2>2. CASE ~(obj[d] # None /\ id[d] # None)
    BY <1>2, <2>2 DEF InRoom
  <2> QED
    BY <2>1, <2>2
<1>3. \A d \in Clients, r \in RoomIds :
        InRoom(d)' /\ room'[d] = r <=> (InRoom(d) /\ room[d] = r) \/ (d = c /\ r = room[c])
  BY <1>1, <1>2
<1>4. \A r \in RoomIds :
        MembersOf'[r] = IF r = room[c] THEN MembersOf[r] \cup {c} ELSE MembersOf[r]
  BY <1>3 DEF MembersOf
<1>5. MembersOf = [r \in RoomIds |-> MembersOf[r]] /\ MembersOf' = [r \in RoomIds |-> MembersOf'[r]]
  BY DEF MembersOf
<1> HIDE DEF MembersOf
<1> QED
  BY <1>4, <1>5

\* Deleting an entry removes the connection behind it, if there is one.
LEMMA Cleared ==
    ASSUME TypeOK, RoomInv, NEW o \in Clients, NEW i \in Ids,
           \A p \in Clients, j \in Ids :
               clients'[p][j] = IF p = o /\ j = i THEN None ELSE clients[p][j],
           room' = room, obj' = obj, id' = id, Invited' = Invited, Spent' = Spent
    PROVE  SessionStep
<1>1. ASSUME NEW d \in Clients, d # clients[o][i] PROVE (InRoom(d)' <=> InRoom(d))
  <2>1. CASE obj[d] # None /\ id[d] # None
    <3>1. obj[d] \in Clients /\ id[d] \in Ids
      BY <2>1 DEF TypeOK
    <3> QED
      BY <1>1, <2>1, <3>1, NoneIsNoEntry DEF InRoom
  <2>2. CASE ~(obj[d] # None /\ id[d] # None)
    BY <2>2 DEF InRoom
  <2> QED
    BY <2>1, <2>2
<1>2. CASE clients[o][i] = None
  <2>1. MembersOf' = MembersOf
    BY <1>1, <1>2, NoneIsNoEntry, SameMembers
  <2> QED
    BY <2>1, Stutters
<1>3. CASE clients[o][i] # None
  <2>0. PICK x \in Clients : x = clients[o][i]
    BY <1>3, NoneIsNoEntry DEF TypeOK, RoomInv, Registered
  <2>1. x \in Clients /\ id[x] = i /\ obj[x] = o /\ Serving(x)
    BY <1>3, <2>0, NoneIsNoEntry DEF TypeOK, RoomInv, Registered
  <2>2. clients'[o][i] = None /\ clients[o][i] = x
    BY <2>0
  <2>3. \A d \in Clients : d # x => (InRoom(d)' <=> InRoom(d))
    BY <1>1, <2>0
  <2>4. room[x] \in RoomIds /\ InRoom(x) /\ ~InRoom(x)'
    <3>1. room[x] \in RoomIds
      BY <2>1 DEF Serving, RoomInv, Placed
    <3>2. x \in Clients /\ x # None
      BY <2>1, NoneIsNoEntry
    <3>3. obj[x] = o /\ id[x] = i /\ o # None /\ i # None /\ obj'[x] = o /\ id'[x] = i
      BY <2>1, NoneIsNoEntry
    <3>4. InRoom(x)
      BY <2>2, <3>3 DEF InRoom
    <3>5. ~InRoom(x)'
      BY <2>2, <3>2, <3>3 DEF InRoom
    <3> QED
      BY <3>1, <3>4, <3>5
  <2>5. \A d \in Clients, r \in RoomIds :
          InRoom(d)' /\ room'[d] = r <=> (InRoom(d) /\ room[d] = r /\ d # x)
    <3>1. TAKE d \in Clients, r \in RoomIds
    <3>2. CASE d = x
      BY <2>4, <3>2
    <3>3. CASE d # x
      <4>1. InRoom(d)' <=> InRoom(d)
        BY <2>3, <3>3
      <4>2. room' = room
        OBVIOUS
      <4> QED
        BY <3>3, <4>1, <4>2
    <3> QED
      BY <3>2, <3>3
  <2>6. \A r \in RoomIds :
          MembersOf'[r] = IF r = room[x] THEN MembersOf[r] \ {x} ELSE MembersOf[r]
    BY <2>5 DEF MembersOf
  <2>7. MembersOf' = [MembersOf EXCEPT ![room[x]] = @ \ {x}]
    <3>1. MembersOf = [r \in RoomIds |-> MembersOf[r]]
          /\ MembersOf' = [r \in RoomIds |-> MembersOf'[r]]
      BY DEF MembersOf
    <3> HIDE DEF MembersOf
    <3> QED
      BY <2>4, <2>6, <3>1
  <2> QED
    BY <2>1, <2>4, <2>7, Removes
<1> QED
  BY <1>2, <1>3

\* Every step of the server is a step of the session, or none.
LEMMA SessionStepTaken ==
    ASSUME TypeOK, RoomInv, NamedApart, Reserved, [Next]_vars
    PROVE  SessionStep
<1>1. ASSUME NEW c \in Clients, NEW r \in RoomIds, NEW k \in Keys, NEW i \in AskedIds[c],
             Authenticate(c, r, k, i)
      PROVE  SessionStep
  <2>1. MembersOf' = MembersOf
    <3>1. /\ ~Serving(c) /\ clients' = clients
          /\ obj'[c] \in Clients \cup {None} /\ id'[c] \in Ids \cup {None}
          /\ \A d \in Clients : d # c => room'[d] = room[d] /\ obj'[d] = obj[d] /\ id'[d] = id[d]
      <4>1. i \in Ids /\ pc[c] = "new" /\ clients' = clients /\ obj' = obj
            /\ id' = [id EXCEPT ![c] = i] /\ room' = [room EXCEPT ![c] = r]
        BY <1>1, ConstantsAssumption DEF Authenticate, roomVars
      <4> QED
        BY <4>1 DEF TypeOK, Serving
    <3> QED
      BY <3>1, Outside
  <2>2. /\ Invited' = Invited /\ pc[c] \in Joining /\ pc'[c] = "authed"
        /\ \A d \in Clients : d # c => pc'[d] = pc[d]
    BY <1>1 DEF Authenticate, Goto, connVars, queueVars, Invited, Joining, TypeOK
  <2>3. Spent' = Spent
    BY <2>2, SpentStep DEF Joining
  <2> QED
    BY <2>1, <2>2, <2>3, Stutters
<1>2. ASSUME NEW c \in Clients, RejectAuth(c)
      PROVE  SessionStep
  <2>1. MembersOf' = MembersOf
    <3>1. /\ ~Serving(c) /\ clients' = clients
          /\ obj'[c] \in Clients \cup {None} /\ id'[c] \in Ids \cup {None}
          /\ \A d \in Clients : d # c => room'[d] = room[d] /\ obj'[d] = obj[d] /\ id'[d] = id[d]
      BY <1>2 DEF RejectAuth, TypeOK, Serving, Goto, connVars, queueVars, roomVars
    <3> QED
      BY <3>1, Outside
  <2>2. /\ Invited' = Invited /\ pc[c] \in Joining /\ pc'[c] = "done"
        /\ \A d \in Clients : d # c => pc'[d] = pc[d]
    BY <1>2 DEF RejectAuth, Goto, connVars, queueVars, Invited, Joining, TypeOK
  <2>3. Spent' = Spent \cup {c}
    BY <2>2, SpentStep DEF Joining
  <2> QED
    BY <2>1, <2>2, <2>3, GivesUp
<1>3. ASSUME NEW c \in Clients, FindRoom(c)
      PROVE  SessionStep
  <2>1. MembersOf' = MembersOf
    <3>1. /\ ~Serving(c) /\ clients' = clients
          /\ obj'[c] \in Clients \cup {None} /\ id'[c] \in Ids \cup {None}
          /\ \A d \in Clients : d # c => room'[d] = room[d] /\ obj'[d] = obj[d] /\ id'[d] = id[d]
      <4>1. room[c] \in RoomIds /\ hub[room[c]] \in Clients \cup {None}
        BY <1>3, HubObject DEF FindRoom, Stamp, RoomInv
      <4> QED
        BY <1>3, <4>1 DEF FindRoom, Stamp, Hold, TypeOK, Serving, roomVars
    <3> QED
      BY <3>1, Outside
  <2>2. /\ Invited' = Invited /\ pc[c] \in Joining /\ pc'[c] = "entering"
        /\ \A d \in Clients : d # c => pc'[d] = pc[d]
    BY <1>3 DEF FindRoom, Stamp, Hold, Goto, connVars, queueVars, Invited, Joining, TypeOK
  <2>3. Spent' = Spent
    BY <2>2, SpentStep DEF Joining
  <2> QED
    BY <2>1, <2>2, <2>3, Stutters
<1>4. ASSUME NEW c \in Clients, MakeRoom(c)
      PROVE  SessionStep
  <2>1. MembersOf' = MembersOf
    <3>1. /\ ~Serving(c) /\ clients' = clients
          /\ obj'[c] \in Clients \cup {None} /\ id'[c] \in Ids \cup {None}
          /\ \A d \in Clients : d # c => room'[d] = room[d] /\ obj'[d] = obj[d] /\ id'[d] = id[d]
      <4>1. room[c] \in RoomIds /\ hub[room[c]] \in Clients \cup {None}
        BY <1>4, HubObject DEF MakeRoom, Stamp, RoomInv
      <4> QED
        BY <1>4, <4>1 DEF MakeRoom, Stamp, Hold, TypeOK, Serving, roomVars
    <3> QED
      BY <3>1, Outside
  <2>2. /\ Invited' = Invited /\ pc[c] \in Joining /\ pc'[c] = "entering"
        /\ \A d \in Clients : d # c => pc'[d] = pc[d]
    BY <1>4 DEF MakeRoom, Stamp, Hold, Goto, connVars, queueVars, Invited, Joining, TypeOK
  <2>3. Spent' = Spent
    BY <2>2, SpentStep DEF Joining
  <2> QED
    BY <2>1, <2>2, <2>3, Stutters
<1>5. ASSUME NEW c \in Clients, RefuseRoom(c)
      PROVE  SessionStep
  <2>1. MembersOf' = MembersOf
    <3>1. /\ ~Serving(c) /\ clients' = clients
          /\ obj'[c] \in Clients \cup {None} /\ id'[c] \in Ids \cup {None}
          /\ \A d \in Clients : d # c => room'[d] = room[d] /\ obj'[d] = obj[d] /\ id'[d] = id[d]
      <4>1. room[c] \in RoomIds /\ hub[room[c]] \in Clients \cup {None}
        BY <1>5, HubObject DEF RefuseRoom, Stamp, RoomInv
      <4> QED
        BY <1>5, <4>1 DEF RefuseRoom, Stamp, Hold, TypeOK, Serving, roomVars
    <3> QED
      BY <3>1, Outside
  <2>2. /\ Invited' = Invited /\ pc[c] \in Joining /\ pc'[c] = "done"
        /\ \A d \in Clients : d # c => pc'[d] = pc[d]
    BY <1>5 DEF RefuseRoom, Stamp, Hold, Goto, connVars, queueVars, Invited, Joining, TypeOK
  <2>3. Spent' = Spent \cup {c}
    BY <2>2, SpentStep DEF Joining
  <2> QED
    BY <2>1, <2>2, <2>3, GivesUp
<1>6. ASSUME NEW c \in Clients, Found(c)
      PROVE  SessionStep
  <2> DEFINE o == obj[c]
             i == UniqueId(o, c, id[c])
  <2>1. /\ o \in Clients /\ i \in Ids /\ room[c] \in RoomIds /\ clients[o][i] = None
        /\ hostID[o] = None /\ hub[room[c]] = o /\ pc[c] = "entering" /\ ~Serving(c)
    BY <1>6, WaitingPlaced, UniqueIdIsFree DEF Found, RoomInv, Anchored, Serving
  <2>2. MembersOf[room[c]] = {}
    <3>1. ASSUME NEW d \in Clients, InRoom(d), room[d] = room[c] PROVE FALSE
      <4>1. obj[d] \in Clients /\ id[d] \in Ids /\ clients[obj[d]][id[d]] # None
        BY <3>1, NoneIsNoEntry DEF InRoom, TypeOK
      <4>2. hub[room[obj[d]]] = obj[d] /\ hostID[obj[d]] \in Ids
        BY <4>1, MemberRoom
      <4>3. room[obj[d]] = room[d]
        BY <4>1, NoneIsNoEntry DEF RoomInv, Owned
      <4> QED
        BY <2>1, <3>1, <4>2, <4>3, NoneIsNoEntry
    <3> QED
      BY <2>1, <3>1 DEF MembersOf
  <2>3. \A p \in Clients, j \in Ids :
            clients'[p][j] = IF p = o /\ j = i THEN c ELSE clients[p][j]
    <3>1. clients' = [clients EXCEPT ![o][i] = c]
      BY <1>6 DEF Found
    <3>2. clients \in [Clients -> [Ids -> Clients \cup {None}]]
      BY DEF TypeOK
    <3> HIDE DEF o, i
    <3> QED
      BY <2>1, <3>1, <3>2, SetEntry
  <2>4. /\ room' = room /\ obj' = obj /\ id'[c] = i
        /\ \A d \in Clients : d # c => id'[d] = id[d]
    BY <1>6, <2>1 DEF Found, TypeOK
  <2>5. MembersOf' = [MembersOf EXCEPT ![room[c]] = {c}]
    <3>1. MembersOf' = [MembersOf EXCEPT ![room[c]] = @ \cup {c}]
      <4> HIDE DEF i
      <4> QED BY <2>1, <2>3, <2>4, Joined
    <3>2. MembersOf[room[c]] \cup {c} = {c}
      BY <2>2
    <3> QED
      BY <3>1, <3>2
  <2>6. Invited' = Invited /\ c \notin Spent /\ Spent' = Spent \cup {c}
    <3>1. /\ pc'[c] = "connected" /\ result' = result
          /\ \A d \in Clients : d # c => pc'[d] = pc[d]
      BY <1>6 DEF Found, Goto, queueVars, TypeOK
    <3> QED
      BY <2>1, <3>1, SpentStep DEF Invited, Spent, Joining
  <2> QED
    BY <2>1, <2>2, <2>5, <2>6, Founds
<1>7. ASSUME NEW c \in Clients, TurnAway(c)
      PROVE  SessionStep
  <2>1. MembersOf' = MembersOf
    <3>1. /\ ~Serving(c) /\ clients' = clients
          /\ obj'[c] \in Clients \cup {None} /\ id'[c] \in Ids \cup {None}
          /\ \A d \in Clients : d # c => room'[d] = room[d] /\ obj'[d] = obj[d] /\ id'[d] = id[d]
      <4>1. obj[c] \in Clients /\ UniqueId(obj[c], c, id[c]) \in Ids
        BY <1>7, WaitingPlaced, NoneIsNoEntry DEF TurnAway, UniqueId
      <4> QED
        BY <1>7, <4>1 DEF TurnAway, TypeOK, Serving, roomVars, queueVars
    <3> QED
      BY <3>1, Outside
  <2>2. /\ Invited' = Invited /\ pc[c] \in Joining /\ pc'[c] = "done"
        /\ \A d \in Clients : d # c => pc'[d] = pc[d]
    BY <1>7 DEF TurnAway, Goto, connVars, queueVars, Invited, Joining, TypeOK
  <2>3. Spent' = Spent \cup {c}
    BY <2>2, SpentStep DEF Joining
  <2> QED
    BY <2>1, <2>2, <2>3, GivesUp
<1>8. ASSUME NEW c \in Clients, AskToJoin(c)
      PROVE  SessionStep
  <2>1. MembersOf' = MembersOf
    <3>1. /\ ~Serving(c) /\ clients' = clients
          /\ obj'[c] \in Clients \cup {None} /\ id'[c] \in Ids \cup {None}
          /\ \A d \in Clients : d # c => room'[d] = room[d] /\ obj'[d] = obj[d] /\ id'[d] = id[d]
      <4>1. obj[c] \in Clients /\ UniqueId(obj[c], c, id[c]) \in Ids
        BY <1>8, WaitingPlaced, NoneIsNoEntry DEF AskToJoin, UniqueId
      <4> QED
        BY <1>8, <4>1 DEF AskToJoin, TypeOK, Serving, roomVars, queueVars
    <3> QED
      BY <3>1, Outside
  <2>2. /\ Invited' = Invited /\ pc[c] \in Joining /\ pc'[c] = "waiting"
        /\ \A d \in Clients : d # c => pc'[d] = pc[d]
    BY <1>8 DEF AskToJoin, Goto, connVars, queueVars, Invited, Joining, TypeOK
  <2>3. Spent' = Spent
    BY <2>2, SpentStep DEF Joining
  <2> QED
    BY <2>1, <2>2, <2>3, Stutters
<1>9. ASSUME NEW c \in Clients, Admit(c)
      PROVE  SessionStep
  <2>1. /\ obj[c] \in Clients /\ id[c] \in Ids /\ room[c] \in RoomIds
        /\ pc[c] = "waiting" /\ ~Serving(c) /\ PlaceKept(c)
    BY <1>9, WaitingPlaced DEF Admit, Serving, Reserved
  <2>2. MembersOf[room[c]] # {}
    <3> DEFINE o == obj[c]
               h == hostID[o]
               d == clients[o][h]
    <3>1. h \in Ids /\ d \in Clients /\ d # None
      <4>1. h # None
        BY <2>1 DEF RoomInv, Founded
      <4>2. h \in Ids /\ clients[o][h] # None
        BY <1>9, <2>1, <4>1 DEF Admit, HostPresent, TypeOK
      <4> QED
        BY <2>1, <4>2 DEF TypeOK
    <3>2. obj[d] = o /\ id[d] = h
      BY <2>1, <3>1 DEF RoomInv, Registered
    <3>3. InRoom(d) /\ room[d] = room[c]
      <4>1. room[o] = room[d] /\ room[o] = room[c]
        BY <2>1, <3>1, <3>2, NoneIsNoEntry DEF RoomInv, Owned
      <4> QED
        BY <2>1, <3>1, <3>2, <4>1, NoneIsNoEntry DEF InRoom
    <3> HIDE DEF d
    <3> QED
      BY <2>1, <3>1, <3>3 DEF MembersOf
  <2>3. \A p \in Clients, j \in Ids :
            clients'[p][j] = IF p = obj[c] /\ j = id[c] THEN c ELSE clients[p][j]
    <3>1. clients' = [clients EXCEPT ![obj[c]][id[c]] = c]
      BY <1>9 DEF Admit, EnterRoom
    <3> QED
      BY <2>1, <3>1, SetEntry DEF TypeOK
  <2>4. room' = room /\ obj' = obj /\ id' = id
    BY <1>9 DEF Admit, EnterRoom, connVars
  <2>5. MembersOf' = [MembersOf EXCEPT ![room[c]] = @ \cup {c}]
    BY <2>1, <2>3, <2>4, Joined DEF PlaceKept
  <2>6. Invited' = Invited /\ c \in Invited \ Spent /\ Spent' = Spent \cup {c}
    <3>1. /\ pc'[c] = "connected" /\ result' = result /\ result[c] = "approved"
          /\ \A d \in Clients : d # c => pc'[d] = pc[d]
      BY <1>9 DEF Admit, EnterRoom, Goto, queueVars, TypeOK
    <3> QED
      BY <2>1, <3>1, SpentStep DEF Invited, Spent, Joining
  <2> QED
    BY <2>1, <2>2, <2>5, <2>6, Admits
<1>10. ASSUME NEW c \in Clients, Refuse(c)
      PROVE  SessionStep
  <2>1. MembersOf' = MembersOf
    <3>1. /\ ~Serving(c) /\ clients' = clients
          /\ obj'[c] \in Clients \cup {None} /\ id'[c] \in Ids \cup {None}
          /\ \A d \in Clients : d # c => room'[d] = room[d] /\ obj'[d] = obj[d] /\ id'[d] = id[d]
      BY <1>10 DEF Refuse, TypeOK, Serving, Goto, connVars, queueVars
    <3> QED
      BY <3>1, Outside
  <2>2. /\ Invited' = Invited /\ pc[c] \in Joining /\ pc'[c] = "done"
        /\ \A d \in Clients : d # c => pc'[d] = pc[d]
    BY <1>10 DEF Refuse, Goto, connVars, queueVars, Invited, Joining, TypeOK
  <2>3. Spent' = Spent \cup {c}
    BY <2>2, SpentStep DEF Joining
  <2> QED
    BY <2>1, <2>2, <2>3, GivesUp
<1>11. ASSUME NEW c \in Clients, Command(c)
      PROVE  SessionStep
  <2>1. MembersOf' = MembersOf
    <3>1. clients' = clients /\ obj' = obj /\ id' = id /\ room' = room
      BY <1>11 DEF Command, connVars, roomVars
    <3> QED
      BY <3>1 DEF MembersOf, InRoom
  <2>2. Invited' = Invited /\ Spent' = Spent
    BY <1>11 DEF Command, Goto, TypeOK, queueVars, Invited, Spent, Joining
  <2> QED
    BY <2>1, <2>2, Stutters
<1>12. ASSUME NEW c \in Clients, NEW d \in Clients, NEW verdict \in {"approved", "rejected"},
             Decide(c, d, verdict)
      PROVE  SessionStep
  <2>1. MembersOf' = MembersOf
    <3>1. clients' = clients /\ obj' = obj /\ id' = id /\ room' = room
      BY <1>12 DEF Decide, connVars, roomVars
    <3> QED
      BY <3>1 DEF MembersOf, InRoom
  <2>2. /\ pc'[c] = "connected" /\ pc[c] = "commanding" /\ pc[d] = "waiting"
        /\ \A e \in Clients : e # c => pc'[e] = pc[e]
    <3>1. pc[c] = "commanding" /\ pc' = [pc EXCEPT ![c] = "connected"]
      BY <1>12 DEF Decide, Goto
    <3>2. PICK i \in Ids : pending[obj[c]][i] = d
      BY <1>12 DEF Decide
    <3>3. pc[d] = "waiting"
      BY <3>1, <3>2, WaitingPlaced, NoneIsNoEntry DEF RoomInv, Registered
    <3> QED
      BY <3>1, <3>3 DEF TypeOK
  <2>3. Spent' = Spent /\ d \notin Spent
    BY <2>2, SpentStep DEF Joining, Spent
  <2>4. Invited' = Invited \/ Invited' = Invited \cup {d}
    <3>1. result' = [result EXCEPT ![d] = IF @ = "none" THEN verdict ELSE @]
      BY <1>12 DEF Decide
    <3> QED
      BY <3>1 DEF Invited, TypeOK
  <2> QED
    BY <2>1, <2>3, <2>4, Stutters, Invites
<1>13. ASSUME NEW c \in Clients, CommandNobody(c)
      PROVE  SessionStep
  <2>1. MembersOf' = MembersOf
    <3>1. clients' = clients /\ obj' = obj /\ id' = id /\ room' = room
      BY <1>13 DEF CommandNobody, connVars, roomVars
    <3> QED
      BY <3>1 DEF MembersOf, InRoom
  <2>2. Invited' = Invited /\ Spent' = Spent
    BY <1>13 DEF CommandNobody, Goto, TypeOK, queueVars, Invited, Spent, Joining
  <2> QED
    BY <2>1, <2>2, Stutters
<1>14. ASSUME NEW c \in Clients, NEW i \in Ids, Kick(c, i)
      PROVE  SessionStep
  <2>1. MembersOf' = MembersOf
    <3>1. clients' = clients /\ obj' = obj /\ id' = id /\ room' = room
      BY <1>14 DEF Kick, connVars, roomVars
    <3> QED
      BY <3>1 DEF MembersOf, InRoom
  <2>2. Invited' = Invited /\ Spent' = Spent
    BY <1>14 DEF Kick, Goto, TypeOK, queueVars, Invited, Spent, Joining
  <2> QED
    BY <2>1, <2>2, Stutters
<1>15. ASSUME NEW c \in Clients, KickDelete(c)
      PROVE  SessionStep
  <2>1. obj[c] \in Clients /\ kickId[c] \in Ids
    BY <1>15, WaitingPlaced DEF KickDelete, RoomInv, Placed
  <2>2. \A p \in Clients, j \in Ids :
            clients'[p][j] = IF p = obj[c] /\ j = kickId[c] THEN None ELSE clients[p][j]
    BY <1>15, <2>1, SetEntry DEF KickDelete, DropEntry, TypeOK
  <2>3. room' = room /\ obj' = obj /\ id' = id
    BY <1>15 DEF KickDelete, connVars
  <2>4. Invited' = Invited /\ Spent' = Spent
    BY <1>15 DEF KickDelete, Goto, TypeOK, queueVars, Invited, Spent, Joining
  <2> QED
    BY <2>1, <2>2, <2>3, <2>4, Cleared
<1>16. ASSUME NEW c \in Clients, Disconnect(c)
      PROVE  SessionStep
  <2>1. MembersOf' = MembersOf
    <3>1. clients' = clients /\ obj' = obj /\ id' = id /\ room' = room
      BY <1>16 DEF Disconnect, connVars, roomVars
    <3> QED
      BY <3>1 DEF MembersOf, InRoom
  <2>2. Invited' = Invited /\ Spent' = Spent
    BY <1>16 DEF Disconnect, Goto, TypeOK, queueVars, Invited, Spent, Joining
  <2> QED
    BY <2>1, <2>2, Stutters
<1>17. ASSUME NEW c \in Clients, LeavePlainly(c)
      PROVE  SessionStep
  <2>1. obj[c] \in Clients /\ id[c] \in Ids
    BY <1>17, WaitingPlaced DEF LeavePlainly
  <2>2. \A p \in Clients, j \in Ids :
            clients'[p][j] = IF p = obj[c] /\ j = id[c] THEN None ELSE clients[p][j]
    BY <1>17, <2>1, SetEntry DEF LeavePlainly, DropEntry, TypeOK
  <2>3. room' = room /\ obj' = obj /\ id' = id
    BY <1>17 DEF LeavePlainly, connVars
  <2>4. Invited' = Invited /\ Spent' = Spent
    BY <1>17 DEF LeavePlainly, Goto, TypeOK, queueVars, Invited, Spent, Joining
  <2> QED
    BY <2>1, <2>2, <2>3, <2>4, Cleared
<1>18. ASSUME NEW c \in Clients, LeaveAndMigrate(c)
      PROVE  SessionStep
  <2>1. obj[c] \in Clients /\ id[c] \in Ids
    BY <1>18, WaitingPlaced DEF LeaveAndMigrate
  <2>2. \A p \in Clients, j \in Ids :
            clients'[p][j] = IF p = obj[c] /\ j = id[c] THEN None ELSE clients[p][j]
    BY <1>18, <2>1, SetEntry DEF LeaveAndMigrate, DropEntry, TypeOK
  <2>3. room' = room /\ obj' = obj /\ id' = id
    BY <1>18 DEF LeaveAndMigrate, connVars
  <2>4. Invited' = Invited /\ Spent' = Spent
    BY <1>18 DEF LeaveAndMigrate, Goto, TypeOK, queueVars, Invited, Spent, Joining
  <2> QED
    BY <2>1, <2>2, <2>3, <2>4, Cleared
<1>19. ASSUME NEW c \in Clients, LeaveAndClose(c)
      PROVE  SessionStep
  <2>1. obj[c] \in Clients /\ id[c] \in Ids
    BY <1>19, WaitingPlaced DEF LeaveAndClose
  <2>2. \A p \in Clients, j \in Ids :
            clients'[p][j] = IF p = obj[c] /\ j = id[c] THEN None ELSE clients[p][j]
    BY <1>19, <2>1, SetEntry DEF LeaveAndClose, DropEntry, TypeOK
  <2>3. room' = room /\ obj' = obj /\ id' = id
    BY <1>19 DEF LeaveAndClose, connVars
  <2>4. Invited' = Invited /\ Spent' = Spent
    BY <1>19 DEF LeaveAndClose, Goto, TypeOK, queueVars, Invited, Spent, Joining
  <2> QED
    BY <2>1, <2>2, <2>3, <2>4, Cleared
<1>20. ASSUME NEW c \in Clients, Forget(c)
      PROVE  SessionStep
  <2>1. MembersOf' = MembersOf
    <3>1. clients' = clients /\ obj' = obj /\ id' = id /\ room' = room
      BY <1>20 DEF Forget, connVars, roomVars
    <3> QED
      BY <3>1 DEF MembersOf, InRoom
  <2>2. Invited' = Invited /\ Spent' = Spent
    BY <1>20 DEF Forget, Goto, TypeOK, queueVars, Invited, Spent, Joining
  <2> QED
    BY <2>1, <2>2, Stutters
<1>21. ASSUME NEW c \in Clients, CloseRow(c)
      PROVE  SessionStep
  <2>1. MembersOf' = MembersOf
    <3>1. clients' = clients /\ obj' = obj /\ id' = id /\ room' = room
      BY <1>21 DEF CloseRow, connVars, roomVars
    <3> QED
      BY <3>1 DEF MembersOf, InRoom
  <2>2. Invited' = Invited /\ Spent' = Spent
    BY <1>21 DEF CloseRow, Goto, TypeOK, queueVars, Invited, Spent, Joining
  <2> QED
    BY <2>1, <2>2, Stutters
<1>22. ASSUME NEW r \in RoomIds, Expire(r)
      PROVE  SessionStep
  <2>1. MembersOf' = MembersOf
    <3>1. clients' = clients /\ obj' = obj /\ id' = id /\ room' = room
      BY <1>22 DEF Expire, connVars, roomVars
    <3> QED
      BY <3>1 DEF MembersOf, InRoom
  <2>2. Invited' = Invited /\ Spent' = Spent
    BY <1>22 DEF Expire, Goto, TypeOK, queueVars, Invited, Spent, Joining
  <2> QED
    BY <2>1, <2>2, Stutters
<1>23. ASSUME NEW r \in RoomIds, NEW k \in Keys, CreateRoom(r, k)
      PROVE  SessionStep
  <2>1. MembersOf' = MembersOf
    <3>1. clients' = clients /\ obj' = obj /\ id' = id /\ room' = room
      BY <1>23 DEF CreateRoom, connVars, roomVars
    <3> QED
      BY <3>1 DEF MembersOf, InRoom
  <2>2. Invited' = Invited /\ Spent' = Spent
    BY <1>23 DEF CreateRoom, Goto, TypeOK, queueVars, Invited, Spent, Joining
  <2> QED
    BY <2>1, <2>2, Stutters
<1>24. CASE Crash
  <2>1. /\ MembersOf' = [r \in RoomIds |-> {}] /\ Invited' = {}
    BY <1>24 DEF Crash, MembersOf, InRoom, Invited
  <2>2. Spent' \in SUBSET Clients /\ Spent' = Spent \cup Spent'
    BY <1>24 DEF Crash, Spent, Joining
  <2>3. Session!Restart
    BY <2>1, <2>2 DEF Session!Restart, MembersOf, Invited, Spent, Joining
  <2> QED
    BY <2>3 DEF SessionStep, Session!Next
<1>25. CASE UNCHANGED vars
  <2>1. MembersOf' = MembersOf
    <3>1. clients' = clients /\ obj' = obj /\ id' = id /\ room' = room
      BY <1>25 DEF vars, connVars, roomVars
    <3> QED
      BY <3>1 DEF MembersOf, InRoom
  <2>2. Invited' = Invited /\ Spent' = Spent
    BY <1>25 DEF vars, connVars, queueVars, Invited, Spent, Joining
  <2> QED
    BY <2>1, <2>2, Stutters
<1> QED
  BY <1>1, <1>2, <1>3, <1>4, <1>5, <1>6, <1>7, <1>8, <1>9, <1>10, <1>11, <1>12, <1>13,
     <1>14, <1>15, <1>16, <1>17, <1>18, <1>19, <1>20, <1>21, <1>22, <1>23, <1>24, <1>25
  DEF Next, Join, OpenRoom, Order, Leave, Depart

\* ImplementsSession: one founder per session, everybody else approved, no way
\* back in for who was removed, for any number of connections and rooms and
\* whatever crashes, kicks and departures happen meanwhile.
THEOREM MembershipImplementsSession == Spec => ImplementsSession
<1>1. Init => Session!Init
  BY DEF Init, Session!Init, InRoom
<1>2. TypeOK /\ RoomInv /\ NamedApart /\ Reserved /\ [Next]_vars => SessionStep
  BY SessionStepTaken
<1> QED
  BY <1>1, <1>2, SessionInvariance, PTL DEF Spec, SessionStep, ImplementsSession, Session!Spec
-----------------------------------------------------------------------------
(* What that says of the connections *)

\* Who enters a room has never been a member nor given up, and has been approved
\* unless nobody was in the room; and a connection is spent for good.
EntersOnce ==
    /\ Spent \subseteq Spent'
    /\ \A c \in Clients : InRoom(c)' /\ ~InRoom(c) =>
        /\ c \in Spent' \ Spent
        /\ \/ result[c] = "approved"
           \/ \A d \in Clients : InRoom(d) => room[d] # room'[c]

\* Joining a session, in the terms of RoomSession.
LEMMA SessionEntersOnce ==
    ASSUME SessionStep
    PROVE  /\ Spent \subseteq Spent'
           /\ \A c \in Clients, r \in RoomIds : c \in MembersOf'[r] \ MembersOf[r] =>
                c \in Spent' \ Spent /\ (c \in Invited \/ MembersOf[r] = {})
<1> DEFINE Goal == /\ Spent \subseteq Spent'
                   /\ \A c \in Clients, r \in RoomIds : c \in MembersOf'[r] \ MembersOf[r] =>
                        c \in Spent' \ Spent /\ (c \in Invited \/ MembersOf[r] = {})
<1>1. ASSUME MembersOf' = MembersOf /\ Spent \subseteq Spent'
      PROVE  Goal
  BY <1>1
<1>2. ASSUME NEW d \in Clients, NEW q \in RoomIds, d \in Invited \/ MembersOf[q] = {},
             d \notin Spent, Spent' = Spent \cup {d},
             \A r \in RoomIds : MembersOf'[r] \subseteq MembersOf[r] \cup {x \in {d} : r = q}
      PROVE  Goal
  BY <1>2
<1>3. ASSUME Spent \subseteq Spent' /\ \A r \in RoomIds : MembersOf'[r] \subseteq MembersOf[r]
      PROVE  Goal
  BY <1>3
<1>4. ASSUME NEW d \in Clients, Session!Invite(d) \/ Session!GiveUp(d)
      PROVE  MembersOf' = MembersOf /\ Spent \subseteq Spent'
  BY <1>4 DEF Session!Invite, Session!GiveUp, MembersOf, Spent, Joining
<1>5. ASSUME NEW d \in Clients, NEW q \in RoomIds, Session!Found(q, d)
      PROVE  Goal
  <2>1. MembersOf[q] = {} /\ d \notin Spent /\ Spent' = Spent \cup {d}
        /\ MembersOf' = [MembersOf EXCEPT ![q] = {d}]
    BY <1>5 DEF Session!Found, MembersOf, Spent, Joining
  <2>2. \A r \in RoomIds : MembersOf'[r] \subseteq MembersOf[r] \cup {x \in {d} : r = q}
    BY <2>1 DEF MembersOf
  <2> QED
    BY <1>2, <2>1, <2>2
<1>6. ASSUME NEW d \in Clients, NEW q \in RoomIds, Session!Admit(q, d)
      PROVE  Goal
  <2>1. d \in Invited \ Spent /\ Spent' = Spent \cup {d}
        /\ MembersOf' = [MembersOf EXCEPT ![q] = @ \cup {d}]
    BY <1>6 DEF Session!Admit, MembersOf, Invited, Spent, Joining
  <2>2. \A r \in RoomIds : MembersOf'[r] \subseteq MembersOf[r] \cup {x \in {d} : r = q}
    BY <2>1 DEF MembersOf
  <2> QED
    BY <1>2, <2>1, <2>2
<1>7. ASSUME NEW d \in Clients, NEW q \in RoomIds, Session!Remove(q, d)
      PROVE  Goal
  <2>1. Spent' = Spent /\ MembersOf' = [MembersOf EXCEPT ![q] = @ \ {d}]
    BY <1>7 DEF Session!Remove, MembersOf, Spent, Joining
  <2>2. \A r \in RoomIds : MembersOf'[r] \subseteq MembersOf[r]
    BY <2>1 DEF MembersOf
  <2> QED
    BY <1>3, <2>1, <2>2
<1>8. ASSUME Session!Restart
      PROVE  Goal
  <2>1. Spent \subseteq Spent' /\ MembersOf' = [r \in RoomIds |-> {}]
    BY <1>8 DEF Session!Restart, MembersOf, Spent, Joining
  <2>2. \A r \in RoomIds : MembersOf'[r] \subseteq MembersOf[r]
    BY <2>1
  <2> QED
    BY <1>3, <2>1, <2>2
<1>9. ASSUME UNCHANGED Session!vars
      PROVE  Goal
  <2>1. MembersOf' = MembersOf /\ Spent' = Spent
    BY <1>9 DEF Session!vars, MembersOf, Spent, Joining
  <2> QED
    BY <1>1, <2>1
<1> HIDE DEF Goal
<1>10. Session!Next => Goal
  BY <1>1, <1>4, <1>5, <1>6, <1>7, <1>8 DEF Session!Next
<1>11. Session!Next \/ UNCHANGED Session!vars
  BY DEF SessionStep
<1> QED
  BY <1>9, <1>10, <1>11 DEF Goal

\* EntersOnce in every step: however admissions, kicks, departures and crashes
\* interleave, joinRoom lets nobody into a running room without an approval, and
\* nobody back in on the connection that was kicked or has left.
THEOREM NobodySlipsIn == Spec => [][EntersOnce]_vars
<1>1. ASSUME TypeOK, RoomInv, NamedApart, Reserved, TypeOK', RoomInv', [Next]_vars
      PROVE  EntersOnce
  <2>1. SessionStep
    BY <1>1, SessionStepTaken
  <2>2. ASSUME NEW c \in Clients, InRoom(c)', ~InRoom(c)
        PROVE  /\ c \in Spent' \ Spent
               /\ \/ result[c] = "approved"
                  \/ \A d \in Clients : InRoom(d) => room[d] # room'[c]
    <3>1. PICK r \in RoomIds : r = room'[c]
      <4>0. obj'[c] \in Clients /\ id'[c] \in Ids /\ clients'[obj'[c]][id'[c]] = c
        BY <1>1, <2>2 DEF InRoom, TypeOK
      <4>1. Serving(c)'
        BY <1>1, <4>0, NoneIsNoEntry DEF RoomInv, Registered
      <4> QED
        BY <1>1, <4>1 DEF Serving, RoomInv, Placed
    <3>2. c \in MembersOf'[r] \ MembersOf[r]
      BY <2>2, <3>1 DEF MembersOf
    <3>3. c \in Spent' \ Spent /\ (c \in Invited \/ MembersOf[r] = {})
      BY <2>1, <3>2, SessionEntersOnce
    <3>4. CASE c \in Invited
      BY <3>3, <3>4 DEF Invited
    <3>5. CASE MembersOf[r] = {}
      BY <3>1, <3>3, <3>5 DEF MembersOf
    <3> QED
      BY <3>3, <3>4, <3>5
  <2>3. Spent \subseteq Spent'
    BY <2>1, SessionEntersOnce
  <2> QED
    BY <2>2, <2>3 DEF EntersOnce
<1> QED
  BY <1>1, SessionInvariance, PTL DEF Spec
=============================================================================
