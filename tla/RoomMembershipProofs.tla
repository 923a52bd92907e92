------------------------ MODULE RoomMembershipProofs ------------------------
(***************************************************************************)
(* Proofs about RoomMembership, for any number of connections, rooms, keys *)
(* and user ids.                                                            *)
(***************************************************************************)
EXTENDS RoomMembership, TLAPS

\* The row of a room somebody is in, or about to be in, holds that key.
Keyed == \A c \in Clients :
    pc[c] \notin {"new", "done"} => keyHash[room[c]] = key[c]

-----------------------------------------------------------------------------
(* Lemmas about the state *)

\* A user id and "no entry" are never confused.
LEMMA NoneIsNoEntry ==
    /\ None \notin Ids /\ None \notin Clients
    /\ None \notin RoomIds /\ None \notin Keys
    /\ Clients \subseteq Ids
BY ConstantsAssumption DEF Ids

\* Replacing one entry of a map of maps.
LEMMA SetEntry ==
    ASSUME NEW S, NEW f \in [Clients -> [Ids -> S]],
           NEW o \in Clients, NEW i \in Ids, NEW v
    PROVE  \A p \in Clients, j \in Ids :
             [f EXCEPT ![o][i] = v][p][j] = IF p = o /\ j = i THEN v ELSE f[p][j]
OBVIOUS

\* The room of a member is known to the hub under its room id.
LEMMA MemberRoom ==
    ASSUME TypeOK, RoomInv, NEW o \in Clients, NEW i \in Ids, clients[o][i] # None
    PROVE  room[o] \in RoomIds /\ hub[room[o]] = o /\ hostID[o] \in Ids
<1>1. clients[o][i] \in Clients /\ obj[clients[o][i]] = o /\ Serving(clients[o][i])
  BY DEF TypeOK, RoomInv, Registered
<1>2. room[clients[o][i]] \in RoomIds /\ room[o] = room[clients[o][i]]
  BY <1>1, NoneIsNoEntry DEF RoomInv, Placed, Owned, Serving
<1> QED
  BY <1>2 DEF TypeOK, RoomInv, Founded, Anchored

\* The room of a connection that is about to forget it is empty.
LEMMA DesertedRoom ==
    ASSUME TypeOK, RoomInv, NEW d \in Clients, pc[d] \in {"forgetting", "closing"}
    PROVE  /\ obj[d] \in Clients /\ hostID[obj[d]] # None
           /\ \A i \in Ids : clients[obj[d]][i] = None
BY DEF RoomInv, Placed, Founded, Anchored

\* Nobody but c has an entry in the room when nothing is left of it without c.
LEMMA LastOne ==
    ASSUME NEW c \in Clients, Rest(c) = {}
    PROVE  \A i \in Ids : i # id[c] => clients[obj[c]][i] = None
<1>1. ASSUME NEW i \in Ids, i # id[c], clients[obj[c]][i] # None
      PROVE  clients[obj[c]][i] \in Rest(c)
  BY <1>1 DEF Rest, Present
<1> QED
  BY <1>1

\* The hub holds room objects.
LEMMA HubObject ==
    ASSUME TypeOK, Placed, NEW c \in Clients, pc[c] = "authed"
    PROVE  room[c] \in RoomIds /\ hub[room[c]] \in Clients \cup {None}
BY DEF TypeOK, Placed

-----------------------------------------------------------------------------
(* One lemma per part of the invariant: one case per action *)

\* Every step keeps the types.
LEMMA TypesKept ==
    ASSUME TypeOK, Placed, [Next]_vars
    PROVE  TypeOK'
<1> USE NoneIsNoEntry DEF TypeOK, Placed, Phases
<1>1. ASSUME NEW c \in Clients, NEW r \in RoomIds, NEW k \in Keys, NEW i \in AskedIds[c],
             Authenticate(c, r, k, i)
      PROVE  TypeOK'
  BY <1>1, ConstantsAssumption DEF Authenticate, EnsureRoom, Goto, queueVars, roomVars
<1>2. ASSUME NEW c \in Clients, RejectAuth(c)
      PROVE  TypeOK'
  BY <1>2 DEF RejectAuth, Goto, connVars, queueVars, roomVars, dbVars
<1>3. ASSUME NEW c \in Clients, FindRoom(c)
      PROVE  TypeOK'
  <2>1. room[c] \in RoomIds /\ hub[room[c]] \in Clients
    BY <1>3, HubObject DEF FindRoom, Stamp
  <2> QED
    BY <1>3, <2>1 DEF FindRoom, Stamp, Hold, Goto, roomVars, dbVars
<1>4. ASSUME NEW c \in Clients, MakeRoom(c)
      PROVE  TypeOK'
  <2>1. room[c] \in RoomIds
    BY <1>4, HubObject DEF MakeRoom, Stamp
  <2> QED
    BY <1>4, <2>1 DEF MakeRoom, Stamp, Hold, Goto, roomVars, dbVars
<1>5. ASSUME NEW c \in Clients, RefuseRoom(c)
      PROVE  TypeOK'
  BY <1>5 DEF RefuseRoom, Stamp, Goto, roomVars, dbVars
<1>6. ASSUME NEW c \in Clients, Found(c)
      PROVE  TypeOK'
  BY <1>6 DEF Found, UniqueId, Goto, queueVars, dbVars
<1>7. ASSUME NEW c \in Clients, TurnAway(c)
      PROVE  TypeOK'
  BY <1>7 DEF TurnAway, UniqueId, Goto, roomVars, dbVars
<1>8. ASSUME NEW c \in Clients, AskToJoin(c)
      PROVE  TypeOK'
  BY <1>8 DEF AskToJoin, UniqueId, Goto, queueVars, dbVars
<1>9. ASSUME NEW c \in Clients, Admit(c)
      PROVE  TypeOK'
  BY <1>9 DEF Admit, EnterRoom, HostPresent, Goto, connVars, queueVars, dbVars
<1>10. ASSUME NEW c \in Clients, Refuse(c)
      PROVE  TypeOK'
  BY <1>10 DEF Refuse, Goto, connVars, dbVars
<1>11. ASSUME NEW c \in Clients, Command(c)
      PROVE  TypeOK'
  BY <1>11 DEF Command, Goto, connVars, queueVars, roomVars, dbVars
<1>12. ASSUME NEW c \in Clients, NEW d \in Clients, NEW verdict \in {"approved", "rejected"},
             Decide(c, d, verdict)
      PROVE  TypeOK'
  BY <1>12 DEF Decide, Goto, connVars, roomVars, dbVars
<1>13. ASSUME NEW c \in Clients, CommandNobody(c)
      PROVE  TypeOK'
  BY <1>13 DEF CommandNobody, Goto, connVars, queueVars, roomVars, dbVars
<1>14. ASSUME NEW c \in Clients, NEW i \in Ids, Kick(c, i)
      PROVE  TypeOK'
  BY <1>14 DEF Kick, Goto, connVars, roomVars, dbVars
<1>15. ASSUME NEW c \in Clients, KickDelete(c)
      PROVE  TypeOK'
  BY <1>15 DEF KickDelete, Goto, connVars, dbVars
<1>16. ASSUME NEW c \in Clients, Disconnect(c)
      PROVE  TypeOK'
  BY <1>16 DEF Disconnect, Goto, connVars, roomVars, dbVars
<1>17. ASSUME NEW c \in Clients, LeavePlainly(c)
      PROVE  TypeOK'
  BY <1>17 DEF LeavePlainly, Rest, Present, DropEntry, Goto, connVars, queueVars, dbVars
<1>18. ASSUME NEW c \in Clients, LeaveAndMigrate(c)
      PROVE  TypeOK'
  BY <1>18 DEF LeaveAndMigrate, Rest, Present, DropEntry, Goto, connVars, queueVars, dbVars
<1>19. ASSUME NEW c \in Clients, LeaveAndClose(c)
      PROVE  TypeOK'
  BY <1>19 DEF LeaveAndClose, Rest, Present, DropEntry, NoEntries, Goto, connVars, dbVars
<1>20. ASSUME NEW c \in Clients, Forget(c)
      PROVE  TypeOK'
  BY <1>20 DEF Forget, Goto, connVars, queueVars, roomVars, dbVars
<1>21. ASSUME NEW c \in Clients, CloseRow(c)
      PROVE  TypeOK'
  BY <1>21 DEF CloseRow, Goto, connVars, queueVars, roomVars
<1>22. ASSUME NEW r \in RoomIds, Expire(r)
      PROVE  TypeOK'
  BY <1>22 DEF Expire, connVars, queueVars, roomVars
<1>23. ASSUME NEW r \in RoomIds, NEW k \in Keys, CreateRoom(r, k)
      PROVE  TypeOK'
  BY <1>23 DEF CreateRoom, EnsureRoom, connVars, queueVars, roomVars
<1>24. CASE Crash
  BY <1>24 DEF Crash, NoEntries, connVars, dbVars
<1>25. CASE UNCHANGED vars
  BY <1>25 DEF vars, connVars, queueVars, roomVars, dbVars
<1> HIDE DEF TypeOK, Placed, Phases
<1> QED
  BY <1>1, <1>2, <1>3, <1>4, <1>5, <1>6, <1>7, <1>8, <1>9, <1>10, <1>11, <1>12, <1>13,
     <1>14, <1>15, <1>16, <1>17, <1>18, <1>19, <1>20, <1>21, <1>22, <1>23, <1>24, <1>25
  DEF Next, Join, OpenRoom, Order, Leave, Depart

\* Every step keeps what a phase establishes.
LEMMA PlacedKept ==
    ASSUME TypeOK, Placed, [Next]_vars
    PROVE  Placed'
<1> USE NoneIsNoEntry DEF TypeOK, Placed, Phases
<1>1. ASSUME NEW c \in Clients, NEW r \in RoomIds, NEW k \in Keys, NEW i \in AskedIds[c],
             Authenticate(c, r, k, i)
      PROVE  Placed'
  BY <1>1, ConstantsAssumption DEF Authenticate, EnsureRoom, Goto, queueVars, roomVars
<1>2. ASSUME NEW c \in Clients, RejectAuth(c)
      PROVE  Placed'
  BY <1>2 DEF RejectAuth, Goto, connVars, queueVars, roomVars, dbVars
<1>3. ASSUME NEW c \in Clients, FindRoom(c)
      PROVE  Placed'
  <2>1. room[c] \in RoomIds /\ hub[room[c]] \in Clients
    BY <1>3, HubObject DEF FindRoom, Stamp
  <2> QED
    BY <1>3, <2>1 DEF FindRoom, Stamp, Hold, Goto, roomVars, dbVars
<1>4. ASSUME NEW c \in Clients, MakeRoom(c)
      PROVE  Placed'
  <2>1. room[c] \in RoomIds
    BY <1>4, HubObject DEF MakeRoom, Stamp
  <2> QED
    BY <1>4, <2>1 DEF MakeRoom, Stamp, Hold, Goto, roomVars, dbVars
<1>5. ASSUME NEW c \in Clients, RefuseRoom(c)
      PROVE  Placed'
  BY <1>5 DEF RefuseRoom, Stamp, Goto, roomVars, dbVars
<1>6. ASSUME NEW c \in Clients, Found(c)
      PROVE  Placed'
  BY <1>6 DEF Found, UniqueId, Goto, queueVars, dbVars
<1>7. ASSUME NEW c \in Clients, TurnAway(c)
      PROVE  Placed'
  BY <1>7 DEF TurnAway, UniqueId, Goto, roomVars, dbVars
<1>8. ASSUME NEW c \in Clients, AskToJoin(c)
      PROVE  Placed'
  BY <1>8 DEF AskToJoin, UniqueId, Goto, queueVars, dbVars
<1>9. ASSUME NEW c \in Clients, Admit(c)
      PROVE  Placed'
  BY <1>9 DEF Admit, EnterRoom, HostPresent, Goto, connVars, queueVars, dbVars
<1>10. ASSUME NEW c \in Clients, Refuse(c)
      PROVE  Placed'
  BY <1>10 DEF Refuse, Goto, connVars, dbVars
<1>11. ASSUME NEW c \in Clients, Command(c)
      PROVE  Placed'
  BY <1>11 DEF Command, Goto, connVars, queueVars, roomVars, dbVars
<1>12. ASSUME NEW c \in Clients, NEW d \in Clients, NEW verdict \in {"approved", "rejected"},
             Decide(c, d, verdict)
      PROVE  Placed'
  BY <1>12 DEF Decide, Goto, connVars, roomVars, dbVars
<1>13. ASSUME NEW c \in Clients, CommandNobody(c)
      PROVE  Placed'
  BY <1>13 DEF CommandNobody, Goto, connVars, queueVars, roomVars, dbVars
<1>14. ASSUME NEW c \in Clients, NEW i \in Ids, Kick(c, i)
      PROVE  Placed'
  BY <1>14 DEF Kick, Goto, connVars, roomVars, dbVars
<1>15. ASSUME NEW c \in Clients, KickDelete(c)
      PROVE  Placed'
  BY <1>15 DEF KickDelete, Goto, connVars, dbVars
<1>16. ASSUME NEW c \in Clients, Disconnect(c)
      PROVE  Placed'
  BY <1>16 DEF Disconnect, Goto, connVars, roomVars, dbVars
<1>17. ASSUME NEW c \in Clients, LeavePlainly(c)
      PROVE  Placed'
  BY <1>17 DEF LeavePlainly, Rest, Present, DropEntry, Goto, connVars, queueVars, dbVars
<1>18. ASSUME NEW c \in Clients, LeaveAndMigrate(c)
      PROVE  Placed'
  BY <1>18 DEF LeaveAndMigrate, Rest, Present, DropEntry, Goto, connVars, queueVars, dbVars
<1>19. ASSUME NEW c \in Clients, LeaveAndClose(c)
      PROVE  Placed'
  BY <1>19 DEF LeaveAndClose, Rest, Present, DropEntry, NoEntries, Goto, connVars, dbVars
<1>20. ASSUME NEW c \in Clients, Forget(c)
      PROVE  Placed'
  BY <1>20 DEF Forget, Goto, connVars, queueVars, roomVars, dbVars
<1>21. ASSUME NEW c \in Clients, CloseRow(c)
      PROVE  Placed'
  BY <1>21 DEF CloseRow, Goto, connVars, queueVars, roomVars
<1>22. ASSUME NEW r \in RoomIds, Expire(r)
      PROVE  Placed'
  BY <1>22 DEF Expire, connVars, queueVars, roomVars
<1>23. ASSUME NEW r \in RoomIds, NEW k \in Keys, CreateRoom(r, k)
      PROVE  Placed'
  BY <1>23 DEF CreateRoom, EnsureRoom, connVars, queueVars, roomVars
<1>24. CASE Crash
  BY <1>24 DEF Crash, NoEntries, connVars, dbVars
<1>25. CASE UNCHANGED vars
  BY <1>25 DEF vars, connVars, queueVars, roomVars, dbVars
<1> HIDE DEF TypeOK, Placed, Phases
<1> QED
  BY <1>1, <1>2, <1>3, <1>4, <1>5, <1>6, <1>7, <1>8, <1>9, <1>10, <1>11, <1>12, <1>13,
     <1>14, <1>15, <1>16, <1>17, <1>18, <1>19, <1>20, <1>21, <1>22, <1>23, <1>24, <1>25
  DEF Next, Join, OpenRoom, Order, Leave, Depart

\* Every step keeps room objects with their room id.
LEMMA OwnedKept ==
    ASSUME TypeOK, Placed, Owned, [Next]_vars
    PROVE  Owned'
<1> USE NoneIsNoEntry DEF TypeOK, Placed, Owned, Phases
<1>1. ASSUME NEW c \in Clients, NEW r \in RoomIds, NEW k \in Keys, NEW i \in AskedIds[c],
             Authenticate(c, r, k, i)
      PROVE  Owned'
  BY <1>1, ConstantsAssumption DEF Authenticate, EnsureRoom, Goto, queueVars, roomVars
<1>2. ASSUME NEW c \in Clients, RejectAuth(c)
      PROVE  Owned'
  BY <1>2 DEF RejectAuth, Goto, connVars, queueVars, roomVars, dbVars
<1>3. ASSUME NEW c \in Clients, FindRoom(c)
      PROVE  Owned'
  <2>1. room[c] \in RoomIds /\ hub[room[c]] \in Clients
    BY <1>3, HubObject DEF FindRoom, Stamp
  <2> QED
    BY <1>3, <2>1 DEF FindRoom, Stamp, Hold, Goto, roomVars, dbVars
<1>4. ASSUME NEW c \in Clients, MakeRoom(c)
      PROVE  Owned'
  <2>1. room[c] \in RoomIds
    BY <1>4, HubObject DEF MakeRoom, Stamp
  <2> QED
    BY <1>4, <2>1 DEF MakeRoom, Stamp, Hold, Goto, roomVars, dbVars
<1>5. ASSUME NEW c \in Clients, RefuseRoom(c)
      PROVE  Owned'
  BY <1>5 DEF RefuseRoom, Stamp, Goto, roomVars, dbVars
<1>6. ASSUME NEW c \in Clients, Found(c)
      PROVE  Owned'
  BY <1>6 DEF Found, UniqueId, Goto, queueVars, dbVars
<1>7. ASSUME NEW c \in Clients, TurnAway(c)
      PROVE  Owned'
  BY <1>7 DEF TurnAway, UniqueId, Goto, roomVars, dbVars
<1>8. ASSUME NEW c \in Clients, AskToJoin(c)
      PROVE  Owned'
  BY <1>8 DEF AskToJoin, UniqueId, Goto, queueVars, dbVars
<1>9. ASSUME NEW c \in Clients, Admit(c)
      PROVE  Owned'
  BY <1>9 DEF Admit, EnterRoom, HostPresent, Goto, connVars, queueVars, dbVars
<1>10. ASSUME NEW c \in Clients, Refuse(c)
      PROVE  Owned'
  BY <1>10 DEF Refuse, Goto, connVars, dbVars
<1>11. ASSUME NEW c \in Clients, Command(c)
      PROVE  Owned'
  BY <1>11 DEF Command, Goto, connVars, queueVars, roomVars, dbVars
<1>12. ASSUME NEW c \in Clients, NEW d \in Clients, NEW verdict \in {"approved", "rejected"},
             Decide(c, d, verdict)
      PROVE  Owned'
  BY <1>12 DEF Decide, Goto, connVars, roomVars, dbVars
<1>13. ASSUME NEW c \in Clients, CommandNobody(c)
      PROVE  Owned'
  BY <1>13 DEF CommandNobody, Goto, connVars, queueVars, roomVars, dbVars
<1>14. ASSUME NEW c \in Clients, NEW i \in Ids, Kick(c, i)
      PROVE  Owned'
  BY <1>14 DEF Kick, Goto, connVars, roomVars, dbVars
<1>15. ASSUME NEW c \in Clients, KickDelete(c)
      PROVE  Owned'
  BY <1>15 DEF KickDelete, Goto, connVars, dbVars
<1>16. ASSUME NEW c \in Clients, Disconnect(c)
      PROVE  Owned'
  BY <1>16 DEF Disconnect, Goto, connVars, roomVars, dbVars
<1>17. ASSUME NEW c \in Clients, LeavePlainly(c)
      PROVE  Owned'
  BY <1>17 DEF LeavePlainly, Rest, Present, DropEntry, Goto, connVars, queueVars, dbVars
<1>18. ASSUME NEW c \in Clients, LeaveAndMigrate(c)
      PROVE  Owned'
  BY <1>18 DEF LeaveAndMigrate, Rest, Present, DropEntry, Goto, connVars, queueVars, dbVars
<1>19. ASSUME NEW c \in Clients, LeaveAndClose(c)
      PROVE  Owned'
  BY <1>19 DEF LeaveAndClose, Rest, Present, DropEntry, NoEntries, Goto, connVars, dbVars
<1>20. ASSUME NEW c \in Clients, Forget(c)
      PROVE  Owned'
  BY <1>20 DEF Forget, Goto, connVars, queueVars, roomVars, dbVars
<1>21. ASSUME NEW c \in Clients, CloseRow(c)
      PROVE  Owned'
  BY <1>21 DEF CloseRow, Goto, connVars, queueVars, roomVars
<1>22. ASSUME NEW r \in RoomIds, Expire(r)
      PROVE  Owned'
  BY <1>22 DEF Expire, connVars, queueVars, roomVars
<1>23. ASSUME NEW r \in RoomIds, NEW k \in Keys, CreateRoom(r, k)
      PROVE  Owned'
  BY <1>23 DEF CreateRoom, EnsureRoom, connVars, queueVars, roomVars
<1>24. CASE Crash
  BY <1>24 DEF Crash, NoEntries, connVars, dbVars
<1>25. CASE UNCHANGED vars
  BY <1>25 DEF vars, connVars, queueVars, roomVars, dbVars
<1> HIDE DEF TypeOK, Placed, Owned, Phases
<1> QED
  BY <1>1, <1>2, <1>3, <1>4, <1>5, <1>6, <1>7, <1>8, <1>9, <1>10, <1>11, <1>12, <1>13,
     <1>14, <1>15, <1>16, <1>17, <1>18, <1>19, <1>20, <1>21, <1>22, <1>23, <1>24, <1>25
  DEF Next, Join, OpenRoom, Order, Leave, Depart

\* Every step keeps the maps of a room right.
LEMMA RegisteredKept ==
    ASSUME TypeOK, Placed, Owned, Registered, [Next]_vars
    PROVE  Registered'
<1> USE NoneIsNoEntry DEF TypeOK, Placed, Owned, Registered, Serving
<1>1. ASSUME NEW c \in Clients, NEW r \in RoomIds, NEW k \in Keys, NEW i \in AskedIds[c],
             Authenticate(c, r, k, i)
      PROVE  Registered'
  BY <1>1, ConstantsAssumption DEF Authenticate, EnsureRoom, Goto, queueVars, roomVars
<1>2. ASSUME NEW c \in Clients, RejectAuth(c)
      PROVE  Registered'
  BY <1>2 DEF RejectAuth, Goto, connVars, queueVars, roomVars, dbVars
<1>3. ASSUME NEW c \in Clients, FindRoom(c)
      PROVE  Registered'
  <2>1. room[c] \in RoomIds /\ hub[room[c]] \in Clients
    BY <1>3, HubObject DEF FindRoom, Stamp
  <2> QED
    BY <1>3, <2>1 DEF FindRoom, Stamp, Hold, Goto, roomVars, dbVars
<1>4. ASSUME NEW c \in Clients, MakeRoom(c)
      PROVE  Registered'
  <2>1. room[c] \in RoomIds
    BY <1>4, HubObject DEF MakeRoom, Stamp
  <2> QED
    BY <1>4, <2>1 DEF MakeRoom, Stamp, Hold, Goto, roomVars, dbVars
<1>5. ASSUME NEW c \in Clients, RefuseRoom(c)
      PROVE  Registered'
  BY <1>5 DEF RefuseRoom, Stamp, Goto, roomVars, dbVars
<1>6. ASSUME NEW c \in Clients, Found(c)
      PROVE  Registered'
  BY <1>6 DEF Found, UniqueId, Goto, queueVars, dbVars
<1>7. ASSUME NEW c \in Clients, TurnAway(c)
      PROVE  Registered'
  BY <1>7 DEF TurnAway, UniqueId, Goto, roomVars, dbVars
<1>8. ASSUME NEW c \in Clients, AskToJoin(c)
      PROVE  Registered'
  BY <1>8 DEF AskToJoin, UniqueId, Goto, queueVars, dbVars
<1>9. ASSUME NEW c \in Clients, Admit(c)
      PROVE  Registered'
  BY <1>9 DEF Admit, EnterRoom, HostPresent, Goto, connVars, queueVars, dbVars
<1>10. ASSUME NEW c \in Clients, Refuse(c)
      PROVE  Registered'
  BY <1>10 DEF Refuse, Goto, connVars, dbVars
<1>11. ASSUME NEW c \in Clients, Command(c)
      PROVE  Registered'
  BY <1>11 DEF Command, Goto, connVars, queueVars, roomVars, dbVars
<1>12. ASSUME NEW c \in Clients, NEW d \in Clients, NEW verdict \in {"approved", "rejected"},
             Decide(c, d, verdict)
      PROVE  Registered'
  BY <1>12 DEF Decide, Goto, connVars, roomVars, dbVars
<1>13. ASSUME NEW c \in Clients, CommandNobody(c)
      PROVE  Registered'
  BY <1>13 DEF CommandNobody, Goto, connVars, queueVars, roomVars, dbVars
<1>14. ASSUME NEW c \in Clients, NEW i \in Ids, Kick(c, i)
      PROVE  Registered'
  BY <1>14 DEF Kick, Goto, connVars, roomVars, dbVars
<1>15. ASSUME NEW c \in Clients, KickDelete(c)
      PROVE  Registered'
  BY <1>15 DEF KickDelete, Goto, connVars, dbVars
<1>16. ASSUME NEW c \in Clients, Disconnect(c)
      PROVE  Registered'
  BY <1>16 DEF Disconnect, Goto, connVars, roomVars, dbVars
<1>17. ASSUME NEW c \in Clients, LeavePlainly(c)
      PROVE  Registered'
  BY <1>17 DEF LeavePlainly, Rest, Present, DropEntry, Goto, connVars, queueVars, dbVars
<1>18. ASSUME NEW c \in Clients, LeaveAndMigrate(c)
      PROVE  Registered'
  BY <1>18 DEF LeaveAndMigrate, Rest, Present, DropEntry, Goto, connVars, queueVars, dbVars
<1>19. ASSUME NEW c \in Clients, LeaveAndClose(c)
      PROVE  Registered'
  BY <1>19 DEF LeaveAndClose, Rest, Present, DropEntry, NoEntries, Goto, connVars, dbVars
<1>20. ASSUME NEW c \in Clients, Forget(c)
      PROVE  Registered'
  BY <1>20 DEF Forget, Goto, connVars, queueVars, roomVars, dbVars
<1>21. ASSUME NEW c \in Clients, CloseRow(c)
      PROVE  Registered'
  BY <1>21 DEF CloseRow, Goto, connVars, queueVars, roomVars
<1>22. ASSUME NEW r \in RoomIds, Expire(r)
      PROVE  Registered'
  BY <1>22 DEF Expire, connVars, queueVars, roomVars
<1>23. ASSUME NEW r \in RoomIds, NEW k \in Keys, CreateRoom(r, k)
      PROVE  Registered'
  BY <1>23 DEF CreateRoom, EnsureRoom, connVars, queueVars, roomVars
<1>24. CASE Crash
  BY <1>24 DEF Crash, NoEntries, connVars, dbVars
<1>25. CASE UNCHANGED vars
  BY <1>25 DEF vars, connVars, queueVars, roomVars, dbVars
<1> HIDE DEF TypeOK, Placed, Owned, Registered, Serving
<1> QED
  BY <1>1, <1>2, <1>3, <1>4, <1>5, <1>6, <1>7, <1>8, <1>9, <1>10, <1>11, <1>12, <1>13,
     <1>14, <1>15, <1>16, <1>17, <1>18, <1>19, <1>20, <1>21, <1>22, <1>23, <1>24, <1>25
  DEF Next, Join, OpenRoom, Order, Leave, Depart

\* Every step keeps rooms founded.
LEMMA FoundedKept ==
    ASSUME TypeOK, RoomInv, [Next]_vars
    PROVE  Founded'
<1> USE NoneIsNoEntry DEF TypeOK, RoomInv, Placed, Owned, Registered, Founded, Serving
<1>1. ASSUME NEW c \in Clients, NEW r \in RoomIds, NEW k \in Keys, NEW i \in AskedIds[c],
             Authenticate(c, r, k, i)
      PROVE  Founded'
  BY <1>1, ConstantsAssumption DEF Authenticate, EnsureRoom, Goto, queueVars, roomVars
<1>2. ASSUME NEW c \in Clients, RejectAuth(c)
      PROVE  Founded'
  BY <1>2 DEF RejectAuth, Goto, connVars, queueVars, roomVars, dbVars
<1>3. ASSUME NEW c \in Clients, FindRoom(c)
      PROVE  Founded'
  <2>1. room[c] \in RoomIds /\ hub[room[c]] \in Clients
    BY <1>3, HubObject DEF FindRoom, Stamp
  <2> QED
    BY <1>3, <2>1 DEF FindRoom, Stamp, Hold, Goto, roomVars, dbVars
<1>4. ASSUME NEW c \in Clients, MakeRoom(c)
      PROVE  Founded'
  <2>1. room[c] \in RoomIds
    BY <1>4, HubObject DEF MakeRoom, Stamp
  <2> QED
    BY <1>4, <2>1 DEF MakeRoom, Stamp, Hold, Goto, roomVars, dbVars
<1>5. ASSUME NEW c \in Clients, RefuseRoom(c)
      PROVE  Founded'
  BY <1>5 DEF RefuseRoom, Stamp, Goto, roomVars, dbVars
<1>6. ASSUME NEW c \in Clients, Found(c)
      PROVE  Founded'
  BY <1>6 DEF Found, UniqueId, Goto, queueVars, dbVars
<1>7. ASSUME NEW c \in Clients, TurnAway(c)
      PROVE  Founded'
  BY <1>7 DEF TurnAway, UniqueId, Goto, roomVars, dbVars
<1>8. ASSUME NEW c \in Clients, AskToJoin(c)
      PROVE  Founded'
  BY <1>8 DEF AskToJoin, UniqueId, Goto, queueVars, dbVars
<1>9. ASSUME NEW c \in Clients, Admit(c)
      PROVE  Founded'
  <2>1. obj[c] \in Clients /\ id[c] \in Ids /\ hostID[obj[c]] # None
    BY <1>9 DEF Admit, EnterRoom
  <2>2. \A p \in Clients, j \in Ids : clients'[p][j] =
            IF p = obj[c] /\ j = id[c] THEN c ELSE clients[p][j]
    BY <1>9, <2>1, SetEntry DEF Admit, EnterRoom
  <2>3. ASSUME NEW o \in Clients, NEW i \in Ids, clients'[o][i] # None
        PROVE  hostID'[o] # None
    BY <1>9, <2>3, <2>1, <2>2 DEF Admit, EnterRoom, HostPresent, Goto, connVars, queueVars, dbVars
  <2>4. ASSUME NEW d \in Clients,
               pc'[d] \notin {"new", "authed", "entering", "closingRow", "done"}
        PROVE  hostID'[obj'[d]] # None
    BY <1>9, <2>4 DEF Admit, EnterRoom, HostPresent, Goto, connVars, queueVars, dbVars
  <2> QED
    BY <2>3, <2>4
<1>10. ASSUME NEW c \in Clients, Refuse(c)
      PROVE  Founded'
  BY <1>10 DEF Refuse, Goto, connVars, dbVars
<1>11. ASSUME NEW c \in Clients, Command(c)
      PROVE  Founded'
  BY <1>11 DEF Command, Goto, connVars, queueVars, roomVars, dbVars
<1>12. ASSUME NEW c \in Clients, NEW d \in Clients, NEW verdict \in {"approved", "rejected"},
             Decide(c, d, verdict)
      PROVE  Founded'
  BY <1>12 DEF Decide, Goto, connVars, roomVars, dbVars
<1>13. ASSUME NEW c \in Clients, CommandNobody(c)
      PROVE  Founded'
  BY <1>13 DEF CommandNobody, Goto, connVars, queueVars, roomVars, dbVars
<1>14. ASSUME NEW c \in Clients, NEW i \in Ids, Kick(c, i)
      PROVE  Founded'
  BY <1>14 DEF Kick, Goto, connVars, roomVars, dbVars
<1>15. ASSUME NEW c \in Clients, KickDelete(c)
      PROVE  Founded'
  BY <1>15 DEF KickDelete, Goto, connVars, dbVars
<1>16. ASSUME NEW c \in Clients, Disconnect(c)
      PROVE  Founded'
  BY <1>16 DEF Disconnect, Goto, connVars, roomVars, dbVars
<1>17. ASSUME NEW c \in Clients, LeavePlainly(c)
      PROVE  Founded'
  BY <1>17 DEF LeavePlainly, Rest, Present, DropEntry, Goto, connVars, queueVars, dbVars
<1>18. ASSUME NEW c \in Clients, LeaveAndMigrate(c)
      PROVE  Founded'
  BY <1>18 DEF LeaveAndMigrate, Rest, Present, DropEntry, Goto, connVars, queueVars, dbVars
<1>19. ASSUME NEW c \in Clients, LeaveAndClose(c)
      PROVE  Founded'
  BY <1>19 DEF LeaveAndClose, Rest, Present, DropEntry, NoEntries, Goto, connVars, dbVars
<1>20. ASSUME NEW c \in Clients, Forget(c)
      PROVE  Founded'
  BY <1>20 DEF Forget, Goto, connVars, queueVars, roomVars, dbVars
<1>21. ASSUME NEW c \in Clients, CloseRow(c)
      PROVE  Founded'
  BY <1>21 DEF CloseRow, Goto, connVars, queueVars, roomVars
<1>22. ASSUME NEW r \in RoomIds, Expire(r)
      PROVE  Founded'
  BY <1>22 DEF Expire, connVars, queueVars, roomVars
<1>23. ASSUME NEW r \in RoomIds, NEW k \in Keys, CreateRoom(r, k)
      PROVE  Founded'
  BY <1>23 DEF CreateRoom, EnsureRoom, connVars, queueVars, roomVars
<1>24. CASE Crash
  BY <1>24 DEF Crash, NoEntries, connVars, dbVars
<1>25. CASE UNCHANGED vars
  BY <1>25 DEF vars, connVars, queueVars, roomVars, dbVars
<1> HIDE DEF TypeOK, RoomInv, Placed, Owned, Registered, Founded, Serving
<1> QED
  BY <1>1, <1>2, <1>3, <1>4, <1>5, <1>6, <1>7, <1>8, <1>9, <1>10, <1>11, <1>12, <1>13,
     <1>14, <1>15, <1>16, <1>17, <1>18, <1>19, <1>20, <1>21, <1>22, <1>23, <1>24, <1>25
  DEF Next, Join, OpenRoom, Order, Leave, Depart

\* Every step keeps live rooms in the hub.
LEMMA AnchoredKept ==
    ASSUME TypeOK, RoomInv, [Next]_vars
    PROVE  Anchored'
<1> USE NoneIsNoEntry DEF TypeOK, RoomInv, Placed, Owned, Registered, Founded, Anchored, Serving
<1>1. ASSUME NEW c \in Clients, NEW r \in RoomIds, NEW k \in Keys, NEW i \in AskedIds[c],
             Authenticate(c, r, k, i)
      PROVE  Anchored'
  BY <1>1, ConstantsAssumption DEF Authenticate, EnsureRoom, Goto, queueVars, roomVars
<1>2. ASSUME NEW c \in Clients, RejectAuth(c)
      PROVE  Anchored'
  BY <1>2 DEF RejectAuth, Goto, connVars, queueVars, roomVars, dbVars
<1>3. ASSUME NEW c \in Clients, FindRoom(c)
      PROVE  Anchored'
  <2>1. room[c] \in RoomIds /\ hub[room[c]] \in Clients
    BY <1>3, HubObject DEF FindRoom, Stamp
  <2> QED
    BY <1>3, <2>1 DEF FindRoom, Stamp, Hold, Goto, roomVars, dbVars
<1>4. ASSUME NEW c \in Clients, MakeRoom(c)
      PROVE  Anchored'
  <2>1. room[c] \in RoomIds
    BY <1>4, HubObject DEF MakeRoom, Stamp
  <2> QED
    BY <1>4, <2>1 DEF MakeRoom, Stamp, Hold, Goto, roomVars, dbVars
<1>5. ASSUME NEW c \in Clients, RefuseRoom(c)
      PROVE  Anchored'
  BY <1>5 DEF RefuseRoom, Stamp, Goto, roomVars, dbVars
<1>6. ASSUME NEW c \in Clients, Found(c)
      PROVE  Anchored'
  <2>1. obj[c] \in Clients /\ UniqueId(obj[c], c, id[c]) \in Ids /\ hostID[obj[c]] = None
    BY <1>6 DEF Found, UniqueId
  <2>2. \A p \in Clients, j \in Ids : clients'[p][j] =
            IF p = obj[c] /\ j = UniqueId(obj[c], c, id[c]) THEN c ELSE clients[p][j]
    BY <1>6, <2>1, SetEntry DEF Found
  <2>3. hub[room[c]] = obj[c] /\ room[obj[c]] = room[c]
    BY <1>6, <2>1 DEF Found
  <2>4. UNCHANGED <<hub, room, obj>> /\ pc' = [pc EXCEPT ![c] = "connected"]
    BY <1>6 DEF Found, Goto
  <2>5. ASSUME NEW o \in Clients, NEW i \in Ids, clients'[o][i] # None
        PROVE  hub'[room'[o]] = o
    <3>1. hub' = hub /\ room' = room
      BY <2>4
    <3>2. clients[o][i] # None \/ o = obj[c]
      BY <2>5, <2>2
    <3>3. hub[room[o]] = o
      BY <3>2, <2>3
    <3> QED
      BY <3>1, <3>3
  <2>6. ASSUME NEW d \in Clients, pc'[d] = "entering", hostID'[obj'[d]] = None
        PROVE  hub'[room'[d]] = obj'[d]
    BY <1>6, <2>6, <2>1, <2>4 DEF Found
  <2>7. ASSUME NEW d \in Clients, NEW i \in Ids, pc'[d] \in {"forgetting", "closing"}
        PROVE  clients'[obj'[d]][i] = None
    <3>1. pc[d] \in {"forgetting", "closing"}
      BY <2>7, <2>4
    <3>2. obj[d] \in Clients /\ obj[d] # obj[c] /\ clients[obj[d]][i] = None
      BY <2>1, <3>1, DesertedRoom
    <3> QED
      BY <2>2, <2>4, <3>2, <3>1
  <2> QED
    BY <2>5, <2>6, <2>7
<1>7. ASSUME NEW c \in Clients, TurnAway(c)
      PROVE  Anchored'
  BY <1>7 DEF TurnAway, UniqueId, Goto, roomVars, dbVars
<1>8. ASSUME NEW c \in Clients, AskToJoin(c)
      PROVE  Anchored'
  BY <1>8 DEF AskToJoin, UniqueId, Goto, queueVars, dbVars
<1>9. ASSUME NEW c \in Clients, Admit(c)
      PROVE  Anchored'
  <2>1. obj[c] \in Clients /\ id[c] \in Ids /\ hostID[obj[c]] # None
    BY <1>9 DEF Admit, EnterRoom
  <2>2. \A p \in Clients, j \in Ids : clients'[p][j] =
            IF p = obj[c] /\ j = id[c] THEN c ELSE clients[p][j]
    BY <1>9, <2>1, SetEntry DEF Admit, EnterRoom
  <2>3. hostID[obj[c]] \in Ids /\ clients[obj[c]][hostID[obj[c]]] # None
    BY <1>9, <2>1 DEF Admit, HostPresent
  <2>4. ASSUME NEW o \in Clients, NEW i \in Ids, clients'[o][i] # None
        PROVE  hub'[room'[o]] = o
    BY <1>9, <2>4, <2>1, <2>2, <2>3 DEF Admit, EnterRoom, Goto, connVars
  <2>5. ASSUME NEW d \in Clients, pc'[d] = "entering", hostID'[obj'[d]] = None
        PROVE  hub'[room'[d]] = obj'[d]
    BY <1>9, <2>5, <2>1 DEF Admit, EnterRoom, Goto, connVars
  <2>6. ASSUME NEW d \in Clients, NEW i \in Ids, pc'[d] \in {"forgetting", "closing"}
        PROVE  clients'[obj'[d]][i] = None
    BY <1>9, <2>6, <2>1, <2>2, <2>3 DEF Admit, EnterRoom, Goto, connVars
  <2> QED
    BY <2>4, <2>5, <2>6
<1>10. ASSUME NEW c \in Clients, Refuse(c)
      PROVE  Anchored'
  BY <1>10 DEF Refuse, Goto, connVars, dbVars
<1>11. ASSUME NEW c \in Clients, Command(c)
      PROVE  Anchored'
  BY <1>11 DEF Command, Goto, connVars, queueVars, roomVars, dbVars
<1>12. ASSUME NEW c \in Clients, NEW d \in Clients, NEW verdict \in {"approved", "rejected"},
             Decide(c, d, verdict)
      PROVE  Anchored'
  BY <1>12 DEF Decide, Goto, connVars, roomVars, dbVars
<1>13. ASSUME NEW c \in Clients, CommandNobody(c)
      PROVE  Anchored'
  BY <1>13 DEF CommandNobody, Goto, connVars, queueVars, roomVars, dbVars
<1>14. ASSUME NEW c \in Clients, NEW i \in Ids, Kick(c, i)
      PROVE  Anchored'
  BY <1>14 DEF Kick, Goto, connVars, roomVars, dbVars
<1>15. ASSUME NEW c \in Clients, KickDelete(c)
      PROVE  Anchored'
  BY <1>15 DEF KickDelete, Goto, connVars, dbVars
<1>16. ASSUME NEW c \in Clients, Disconnect(c)
      PROVE  Anchored'
  BY <1>16 DEF Disconnect, Goto, connVars, roomVars, dbVars
<1>17. ASSUME NEW c \in Clients, LeavePlainly(c)
      PROVE  Anchored'
  <2>1. obj[c] \in Clients /\ id[c] \in Ids /\ hostID[obj[c]] # None
    BY <1>17 DEF LeavePlainly, DropEntry
  <2>2. \A p \in Clients, j \in Ids : clients'[p][j] =
            IF p = obj[c] /\ j = id[c] THEN None ELSE clients[p][j]
    BY <1>17, <2>1, SetEntry DEF LeavePlainly, DropEntry
  <2>3. /\ UNCHANGED <<hub, room, obj, hostID>>
        /\ pc' = [pc EXCEPT ![c] = IF Rest(c) = {} THEN "forgetting" ELSE "done"]
    BY <1>17 DEF LeavePlainly, Goto, connVars
  <2>4. ASSUME NEW o \in Clients, NEW i \in Ids, clients'[o][i] # None
        PROVE  hub'[room'[o]] = o
    BY <2>4, <2>1, <2>2, <2>3
  <2>5. ASSUME NEW d \in Clients, pc'[d] = "entering", hostID'[obj'[d]] = None
        PROVE  hub'[room'[d]] = obj'[d]
    BY <2>5, <2>1, <2>3
  <2>6. ASSUME NEW d \in Clients, NEW i \in Ids, pc'[d] \in {"forgetting", "closing"}
        PROVE  clients'[obj'[d]][i] = None
    <3>1. CASE d = c
      <4>1. Rest(c) = {}
        BY <1>17, <2>6, <2>3, <3>1 DEF LeavePlainly
      <4>2. \A j \in Ids : j # id[c] => clients[obj[c]][j] = None
        BY <4>1, LastOne
      <4> QED
        BY <2>1, <2>2, <2>3, <3>1, <4>2
    <3>2. CASE d # c
      <4>1. pc[d] \in {"forgetting", "closing"}
        BY <2>6, <2>3, <3>2
      <4>2. obj[d] \in Clients /\ clients[obj[d]][i] = None
        BY <4>1, DesertedRoom
      <4> QED
        BY <2>2, <2>3, <4>2
    <3> QED
      BY <3>1, <3>2
  <2> QED
    BY <2>4, <2>5, <2>6
<1>18. ASSUME NEW c \in Clients, LeaveAndMigrate(c)
      PROVE  Anchored'
  BY <1>18 DEF LeaveAndMigrate, Rest, Present, DropEntry, Goto, connVars, queueVars, dbVars
<1>19. ASSUME NEW c \in Clients, LeaveAndClose(c)
      PROVE  Anchored'
  <2>1. obj[c] \in Clients /\ id[c] \in Ids /\ hostID[obj[c]] # None
    BY <1>19 DEF LeaveAndClose, DropEntry
  <2>2. \A p \in Clients, j \in Ids : clients'[p][j] =
            IF p = obj[c] /\ j = id[c] THEN None ELSE clients[p][j]
    BY <1>19, <2>1, SetEntry DEF LeaveAndClose, DropEntry
  <2>3. UNCHANGED <<hub, room, obj, hostID>> /\ pc' = [pc EXCEPT ![c] = "closing"]
    BY <1>19 DEF LeaveAndClose, Goto, connVars
  <2>4. ASSUME NEW o \in Clients, NEW i \in Ids, clients'[o][i] # None
        PROVE  hub'[room'[o]] = o
    BY <2>4, <2>1, <2>2, <2>3
  <2>5. ASSUME NEW d \in Clients, pc'[d] = "entering", hostID'[obj'[d]] = None
        PROVE  hub'[room'[d]] = obj'[d]
    BY <2>5, <2>1, <2>3
  <2>6. ASSUME NEW d \in Clients, NEW i \in Ids, pc'[d] \in {"forgetting", "closing"}
        PROVE  clients'[obj'[d]][i] = None
    <3>1. CASE d = c
      <4>1. Rest(c) = {}
        BY <1>19, <2>6, <2>3, <3>1 DEF LeaveAndClose
      <4>2. \A j \in Ids : j # id[c] => clients[obj[c]][j] = None
        BY <4>1, LastOne
      <4> QED
        BY <2>1, <2>2, <2>3, <3>1, <4>2
    <3>2. CASE d # c
      <4>1. pc[d] \in {"forgetting", "closing"}
        BY <2>6, <2>3, <3>2
      <4>2. obj[d] \in Clients /\ clients[obj[d]][i] = None
        BY <4>1, DesertedRoom
      <4> QED
        BY <2>2, <2>3, <4>2
    <3> QED
      BY <3>1, <3>2
  <2> QED
    BY <2>4, <2>5, <2>6
<1>20. ASSUME NEW c \in Clients, Forget(c)
      PROVE  Anchored'
  <2>1. \A r \in RoomIds : hub'[r] = IF r = room[c] /\ hub[r] = obj[c] THEN None ELSE hub[r]
    BY <1>20 DEF Forget
  <2>2. obj[c] \in Clients /\ hostID[obj[c]] # None /\ \A i \in Ids : clients[obj[c]][i] = None
    BY <1>20, SMTT(30) DEF Forget
  <2>3. UNCHANGED <<room, obj, hostID, clients>>
    BY <1>20 DEF Forget, connVars, roomVars
  <2>4. \A d \in Clients : pc'[d] \in {"entering", "forgetting", "closing"} => pc'[d] = pc[d]
    BY <1>20 DEF Forget, Goto
  <2>5. ASSUME NEW o \in Clients, NEW i \in Ids, clients'[o][i] # None
        PROVE  hub'[room'[o]] = o
    <3>1. o # obj[c] /\ room[o] \in RoomIds /\ hub[room[o]] = o
      BY <2>5, <2>2, <2>3, MemberRoom
    <3> QED
      BY <2>1, <2>3, <3>1
  <2>6. ASSUME NEW d \in Clients, pc'[d] = "entering", hostID'[obj'[d]] = None
        PROVE  hub'[room'[d]] = obj'[d]
    <3>1. obj[d] # obj[c] /\ room[d] \in RoomIds /\ hub[room[d]] = obj[d]
      BY <2>6, <2>2, <2>3, <2>4
    <3> QED
      BY <2>1, <2>3, <3>1
  <2>7. ASSUME NEW d \in Clients, NEW i \in Ids, pc'[d] \in {"forgetting", "closing"}
        PROVE  clients'[obj'[d]][i] = None
    BY <2>7, <2>3, <2>4
  <2> QED
    BY <2>5, <2>6, <2>7
<1>21. ASSUME NEW c \in Clients, CloseRow(c)
      PROVE  Anchored'
  BY <1>21 DEF CloseRow, Goto, connVars, queueVars, roomVars
<1>22. ASSUME NEW r \in RoomIds, Expire(r)
      PROVE  Anchored'
  BY <1>22 DEF Expire, connVars, queueVars, roomVars
<1>23. ASSUME NEW r \in RoomIds, NEW k \in Keys, CreateRoom(r, k)
      PROVE  Anchored'
  BY <1>23 DEF CreateRoom, EnsureRoom, connVars, queueVars, roomVars
<1>24. CASE Crash
  BY <1>24 DEF Crash, NoEntries, connVars, dbVars
<1>25. CASE UNCHANGED vars
  BY <1>25 DEF vars, connVars, queueVars, roomVars, dbVars
<1> HIDE DEF TypeOK, RoomInv, Placed, Owned, Registered, Founded, Anchored, Serving
<1> QED
  BY <1>1, <1>2, <1>3, <1>4, <1>5, <1>6, <1>7, <1>8, <1>9, <1>10, <1>11, <1>12, <1>13,
     <1>14, <1>15, <1>16, <1>17, <1>18, <1>19, <1>20, <1>21, <1>22, <1>23, <1>24, <1>25
  DEF Next, Join, OpenRoom, Order, Leave, Depart

\* Without expiry no step changes the key of a room somebody authenticated for.
LEMMA KeyedKept ==
    ASSUME TypeOK, Placed, ~Expiry, Keyed, [Next]_vars
    PROVE  Keyed'
<1> USE NoneIsNoEntry DEF TypeOK, Placed, Keyed
<1>1. ASSUME NEW c \in Clients, NEW r \in RoomIds, NEW k \in Keys, NEW i \in AskedIds[c],
             Authenticate(c, r, k, i)
      PROVE  Keyed'
  BY <1>1, ConstantsAssumption DEF Authenticate, EnsureRoom, Goto, queueVars, roomVars
<1>2. ASSUME NEW c \in Clients, RejectAuth(c)
      PROVE  Keyed'
  BY <1>2 DEF RejectAuth, Goto, connVars, queueVars, roomVars, dbVars
<1>3. ASSUME NEW c \in Clients, FindRoom(c)
      PROVE  Keyed'
  <2>1. room[c] \in RoomIds /\ hub[room[c]] \in Clients
    BY <1>3, HubObject DEF FindRoom, Stamp
  <2> QED
    BY <1>3, <2>1 DEF FindRoom, Stamp, Hold, Goto, roomVars, dbVars
<1>4. ASSUME NEW c \in Clients, MakeRoom(c)
      PROVE  Keyed'
  <2>1. room[c] \in RoomIds
    BY <1>4, HubObject DEF MakeRoom, Stamp
  <2> QED
    BY <1>4, <2>1 DEF MakeRoom, Stamp, Hold, Goto, roomVars, dbVars
<1>5. ASSUME NEW c \in Clients, RefuseRoom(c)
      PROVE  Keyed'
  BY <1>5 DEF RefuseRoom, Stamp, Goto, roomVars, dbVars
<1>6. ASSUME NEW c \in Clients, Found(c)
      PROVE  Keyed'
  BY <1>6 DEF Found, UniqueId, Goto, queueVars, dbVars
<1>7. ASSUME NEW c \in Clients, TurnAway(c)
      PROVE  Keyed'
  BY <1>7 DEF TurnAway, UniqueId, Goto, roomVars, dbVars
<1>8. ASSUME NEW c \in Clients, AskToJoin(c)
      PROVE  Keyed'
  BY <1>8 DEF AskToJoin, UniqueId, Goto, queueVars, dbVars
<1>9. ASSUME NEW c \in Clients, Admit(c)
      PROVE  Keyed'
  BY <1>9 DEF Admit, EnterRoom, HostPresent, Goto, connVars, queueVars, dbVars
<1>10. ASSUME NEW c \in Clients, Refuse(c)
      PROVE  Keyed'
  BY <1>10 DEF Refuse, Goto, connVars, dbVars
<1>11. ASSUME NEW c \in Clients, Command(c)
      PROVE  Keyed'
  BY <1>11 DEF Command, Goto, connVars, queueVars, roomVars, dbVars
<1>12. ASSUME NEW c \in Clients, NEW d \in Clients, NEW verdict \in {"approved", "rejected"},
             Decide(c, d, verdict)
      PROVE  Keyed'
  BY <1>12 DEF Decide, Goto, connVars, roomVars, dbVars
<1>13. ASSUME NEW c \in Clients, CommandNobody(c)
      PROVE  Keyed'
  BY <1>13 DEF CommandNobody, Goto, connVars, queueVars, roomVars, dbVars
<1>14. ASSUME NEW c \in Clients, NEW i \in Ids, Kick(c, i)
      PROVE  Keyed'
  BY <1>14 DEF Kick, Goto, connVars, roomVars, dbVars
<1>15. ASSUME NEW c \in Clients, KickDelete(c)
      PROVE  Keyed'
  BY <1>15 DEF KickDelete, Goto, connVars, dbVars
<1>16. ASSUME NEW c \in Clients, Disconnect(c)
      PROVE  Keyed'
  BY <1>16 DEF Disconnect, Goto, connVars, roomVars, dbVars
<1>17. ASSUME NEW c \in Clients, LeavePlainly(c)
      PROVE  Keyed'
  BY <1>17 DEF LeavePlainly, Rest, Present, DropEntry, Goto, connVars, queueVars, dbVars
<1>18. ASSUME NEW c \in Clients, LeaveAndMigrate(c)
      PROVE  Keyed'
  BY <1>18 DEF LeaveAndMigrate, Rest, Present, DropEntry, Goto, connVars, queueVars, dbVars
<1>19. ASSUME NEW c \in Clients, LeaveAndClose(c)
      PROVE  Keyed'
  BY <1>19 DEF LeaveAndClose, Rest, Present, DropEntry, NoEntries, Goto, connVars, dbVars
<1>20. ASSUME NEW c \in Clients, Forget(c)
      PROVE  Keyed'
  BY <1>20 DEF Forget, Goto, connVars, queueVars, roomVars, dbVars
<1>21. ASSUME NEW c \in Clients, CloseRow(c)
      PROVE  Keyed'
  BY <1>21 DEF CloseRow, Goto, connVars, queueVars, roomVars
<1>22. ASSUME NEW r \in RoomIds, Expire(r)
      PROVE  Keyed'
  BY <1>22 DEF Expire, connVars, queueVars, roomVars
<1>23. ASSUME NEW r \in RoomIds, NEW k \in Keys, CreateRoom(r, k)
      PROVE  Keyed'
  BY <1>23 DEF CreateRoom, EnsureRoom, connVars, queueVars, roomVars
<1>24. CASE Crash
  BY <1>24 DEF Crash, NoEntries, connVars, dbVars
<1>25. CASE UNCHANGED vars
  BY <1>25 DEF vars, connVars, queueVars, roomVars, dbVars
<1> HIDE DEF TypeOK, Placed, Keyed
<1> QED
  BY <1>1, <1>2, <1>3, <1>4, <1>5, <1>6, <1>7, <1>8, <1>9, <1>10, <1>11, <1>12, <1>13,
     <1>14, <1>15, <1>16, <1>17, <1>18, <1>19, <1>20, <1>21, <1>22, <1>23, <1>24, <1>25
  DEF Next, Join, OpenRoom, Order, Leave, Depart

-----------------------------------------------------------------------------
(* Theorems *)

\* A server that has just started.
LEMMA InitRoomInv == Init => TypeOK /\ RoomInv
<1> SUFFICES ASSUME Init PROVE TypeOK /\ RoomInv
  OBVIOUS
<1> USE NoneIsNoEntry DEF Init, NoEntries
<1>1. TypeOK
  BY DEF TypeOK, Phases
<1>2. Placed /\ Owned
  BY DEF Placed, Owned
<1>3. Registered /\ Founded /\ Anchored
  BY DEF Registered, Founded, Anchored
<1> QED
  BY <1>1, <1>2, <1>3 DEF RoomInv

\* The inductive argument: both hold initially and every step keeps both.
LEMMA Invariance == Spec => [](TypeOK /\ RoomInv)
<1>1. TypeOK /\ RoomInv /\ [Next]_vars => TypeOK' /\ RoomInv'
  BY TypesKept, PlacedKept, OwnedKept, RegisteredKept, FoundedKept, AnchoredKept DEF RoomInv
<1> QED
  BY <1>1, InitRoomInv, PTL DEF Spec

\* Every variable keeps its type in every reachable state.
THEOREM TypeCorrect == Spec => []TypeOK
BY Invariance, PTL

\* The rooms, the hub and the connections agree with each other: entries are
\* held under the id of a connection in the matching phase, a room is founded
\* once, and the hub knows every room that has members.
THEOREM RoomsConsistent == Spec => []RoomInv
BY Invariance, PTL

\* Members of one room id share one room object (hub.go:699 and 785-789): for
\* any number of connections, whatever crashes, kicks and departures happen.
THEOREM OneRoomObject == Spec => []NoSplitBrain
<1>1. TypeOK /\ RoomInv => NoSplitBrain
  <2> SUFFICES ASSUME TypeOK, RoomInv, NEW c \in Clients, InRoom(c)
               PROVE  hub[room[c]] = obj[c]
    BY DEF NoSplitBrain
  <2>1. obj[c] \in Clients /\ id[c] \in Ids /\ clients[obj[c]][id[c]] # None
    BY NoneIsNoEntry DEF InRoom, TypeOK
  <2>2. room[obj[c]] = room[c]
    BY <2>1, NoneIsNoEntry DEF RoomInv, Owned
  <2> QED
    BY <2>1, <2>2, MemberRoom
<1> QED
  BY <1>1, Invariance, PTL

\* Unless rows expire, members of a room authenticated with one key: EnsureRoom
\* (sqlite.go:106-138) checks it against a row that nothing else rewrites.
THEOREM OneKeyPerRoom == ASSUME ~Expiry PROVE Spec => []KeyAgreement
<1>1. Init => Keyed
  BY DEF Init, Keyed
<1>2. TypeOK /\ RoomInv /\ Keyed /\ [Next]_vars => Keyed'
  BY KeyedKept DEF RoomInv
<1>3. TypeOK /\ RoomInv /\ Keyed => KeyAgreement
  <2> SUFFICES ASSUME TypeOK, RoomInv, Keyed, NEW c \in Clients, InRoom(c)
               PROVE  key[c] = keyHash[room[c]]
    BY DEF KeyAgreement
  <2>1. obj[c] \in Clients /\ id[c] \in Ids /\ clients[obj[c]][id[c]] = c
    BY NoneIsNoEntry DEF InRoom, TypeOK
  <2>2. Serving(c)
    BY <2>1, NoneIsNoEntry DEF RoomInv, Registered
  <2> QED
    BY <2>2 DEF Serving, Keyed
<1> QED
  BY <1>1, <1>2, <1>3, Invariance, PTL DEF Spec
=============================================================================
