--------------------------- MODULE RoomMembership ---------------------------
(***************************************************************************)
(* Who is in which collaboration room.  Every WebSocket connection runs    *)
(* handleSocket in a goroutine of its own: it authenticates against the    *)
(* rooms table, takes a room object from the hub, founds the room or asks  *)
(* its host to be admitted, reads messages, and finally leaves.  The       *)
(* connections share the hub's map of rooms (guarded by Hub.mu), the room  *)
(* objects (each guarded by Room.mu) and the rooms table; one action here  *)
(* is one critical section, and whatever the code does between two         *)
(* critical sections may be interleaved with every other connection.       *)
(*                                                                         *)
(* Messages are not represented, except for the closing of a connection's  *)
(* send queue, which is what makes its reader give up.                     *)
(***************************************************************************)
EXTENDS Naturals, FiniteSets

CONSTANTS
    Clients,            \* WebSocket connections; each is used once
    RoomIds,            \* the room ids clients present
    Keys,               \* the room keys clients present
    Names,              \* user ids several clients may present
    AskedIds,           \* AskedIds[c]: the user ids c may present
    None,               \* "no entry": a nil pointer or a missing row
    MaxClientsPerRoom,  \* Hub.maxClientsPerRoom, 0 for no limit
    MaxGlobalRooms,     \* Hub.maxGlobalRooms, 0 for no limit
    Faults,             \* may the process crash and CloseRoom fail?
    Expiry              \* may a row age past roomTTLDays?

(* An id the server makes up for a connection is fresh: it stands for the  *)
(* connection itself.  A connection may also ask for that id, which is a   *)
(* user id nobody else presents.                                           *)
Ids == Names \cup Clients

ASSUME ConstantsAssumption ==
    /\ IsFiniteSet(Clients)
    /\ Clients \cap Names = {}
    /\ None \notin Clients \cup RoomIds \cup Keys \cup Names
    /\ AskedIds \in [Clients -> SUBSET Ids]
    /\ \A c \in Clients : AskedIds[c] \subseteq Names \cup {c}
    /\ MaxClientsPerRoom \in Nat
    /\ MaxGlobalRooms \in Nat
    /\ Faults \in BOOLEAN
    /\ Expiry \in BOOLEAN

VARIABLES
    pc,         \* pc[c]: where the goroutine of c is
    room,       \* room[c]: Client.roomID
    key,        \* key[c]: the room key c authenticated with
    id,         \* id[c]: Client.id
    joinedAt,   \* joinedAt[c]: Client.JoinedAt
    clock,      \* time.Now(), advanced whenever it is read
    obj,        \* obj[c]: the *Room c holds, named after the connection that made it
    open,       \* open[c]: the send queue of c has not been shut down
    result,     \* result[c]: what is in the result channel of c's PendingJoin
    kickId,     \* kickId[c]: whom c is kicking, between shutdown and delete
    hostID,     \* hostID[o]: Room.hostID
    closed,     \* closed[o]: Room.closed
    clients,    \* clients[o][i]: Room.clients
    pending,    \* pending[o][i]: Room.pending, the connection that waits
    hub,        \* hub[r]: Hub.rooms
    keyHash,    \* keyHash[r]: rooms.key_hash, None when there is no row
    closedAt    \* closedAt[r]: rooms.closed_at is set

connVars  == <<room, key, id, joinedAt, clock>>
queueVars == <<open, result, kickId>>
roomVars  == <<hostID, closed, clients, pending>>
dbVars    == <<keyHash, closedAt>>
vars      == <<pc, connVars, obj, queueVars, roomVars, hub, dbVars>>

-----------------------------------------------------------------------------
(* Room objects *)

Goto(c, label) == pc' = [pc EXCEPT ![c] = label]

NoEntries == [i \in Ids |-> None]

Occupied(o, i) == clients[o][i] # None \/ pending[o][i] # None

\* The ids present in a room, and the connections behind them.
Present(o) == {i \in Ids : clients[o][i] # None}
Members(o) == {clients[o][i] : i \in Present(o)}

\* Connection c is reachable through the room it joined.
InRoom(c) == obj[c] # None /\ id[c] # None /\ clients[obj[c]][id[c]] = c

\* uniqueClientIDLocked: the id asked for unless somebody has it.
UniqueId(o, c, asked) == IF Occupied(o, asked) THEN c ELSE asked

\* joinRoom's test that somebody is left to vouch for the newcomer.
HostPresent(o) == hostID[o] # None => clients[o][hostID[o]] # None

RoomFull(o) ==
    MaxClientsPerRoom > 0 /\ Cardinality(Present(o)) >= MaxClientsPerRoom

\* Mutant: the limit is off by one.
HubOverfull ==
    MaxGlobalRooms > 0 /\ Cardinality({r \in RoomIds : hub[r] # None}) > MaxGlobalRooms

HubFull ==
    MaxGlobalRooms > 0 /\ Cardinality({r \in RoomIds : hub[r] # None}) >= MaxGlobalRooms

-----------------------------------------------------------------------------
(* Authentication: handleSocket up to the creation of the Client *)

\* Mutant: the key is not compared.
EnsureAnyKey(r, k) ==
    /\ ~closedAt[r]
    /\ keyHash' = [keyHash EXCEPT ![r] = IF @ = None THEN k ELSE @]
    /\ closedAt' = [closedAt EXCEPT ![r] = FALSE]

\* EnsureRoom, one transaction: insert the row, or accept the key of an open one.
EnsureRoom(r, k) ==
    /\ keyHash[r] = None \/ (keyHash[r] = k /\ ~closedAt[r])
    /\ keyHash' = [keyHash EXCEPT ![r] = k]
    /\ closedAt' = [closedAt EXCEPT ![r] = FALSE]

\* POST /api/rooms registers a fresh room id and key.
CreateRoom(r, k) ==
    /\ keyHash[r] = None
    /\ EnsureRoom(r, k)
    /\ UNCHANGED <<pc, connVars, obj, queueVars, roomVars, hub>>

\* The room is registered or its key accepted; its state is loaded next.
Authenticate(c, r, k, i) ==
    /\ pc[c] = "new"
    /\ EnsureRoom(r, k)
    /\ Goto(c, "authed")
    /\ room' = [room EXCEPT ![c] = r]
    /\ key' = [key EXCEPT ![c] = k]
    /\ id' = [id EXCEPT ![c] = i]
    /\ UNCHANGED <<joinedAt, clock, obj, queueVars, roomVars, hub>>

\* A malformed or late auth frame, a wrong key, a closed room, a store that
\* fails: handleSocket answers with an error and returns.
RejectAuth(c) ==
    /\ pc[c] = "new"
    /\ Goto(c, "done")
    /\ UNCHANGED <<connVars, obj, queueVars, roomVars, hub, dbVars>>

\* The Client is made, JoinedAt is stamped and Hub.room finds the room object,
\* makes it, or refuses because the hub is at its limit.
Stamp(c) ==
    /\ pc[c] = "authed"
    /\ clock' = clock + 1
    /\ joinedAt' = [joinedAt EXCEPT ![c] = clock + 1]
    /\ UNCHANGED <<room, key, id, result, kickId, roomVars, dbVars>>

Hold(c, o) ==
    /\ obj' = [obj EXCEPT ![c] = o]
    /\ open' = [open EXCEPT ![c] = TRUE]
    /\ Goto(c, "entering")

FindRoom(c) ==
    /\ Stamp(c)
    /\ hub[room[c]] # None
    /\ Hold(c, hub[room[c]])
    /\ UNCHANGED hub

MakeRoom(c) ==
    /\ Stamp(c)
    /\ hub[room[c]] = None /\ ~HubFull
    /\ Hold(c, c)
    /\ hub' = [hub EXCEPT ![room[c]] = c]

RefuseRoom(c) ==
    /\ Stamp(c)
    /\ hub[room[c]] = None /\ HubFull
    /\ Goto(c, "done")
    /\ UNCHANGED <<obj, open, hub>>

OpenRoom(c) == FindRoom(c) \/ MakeRoom(c) \/ RefuseRoom(c)

-----------------------------------------------------------------------------
(* Admission: joinRoom *)

\* The first to lock a room object becomes its host.
Found(c) == LET o == obj[c]  i == UniqueId(o, c, id[c]) IN
    /\ pc[c] = "entering"
    /\ hostID[o] = None
    /\ id' = [id EXCEPT ![c] = i]
    /\ hostID' = [hostID EXCEPT ![o] = i]
    /\ clients' = [clients EXCEPT ![o][i] = c]
    /\ Goto(c, "connected")
    /\ UNCHANGED <<room, key, joinedAt, clock, obj, queueVars, closed, pending, hub, dbVars>>

\* Everybody else is turned away at once or waits for the host's decision.
TurnAway(c) == LET o == obj[c] IN
    /\ pc[c] = "entering"
    /\ hostID[o] # None
    /\ closed[o] \/ RoomFull(o)
    /\ id' = [id EXCEPT ![c] = UniqueId(o, c, @)]
    /\ open' = [open EXCEPT ![c] = FALSE]
    /\ Goto(c, "done")
    /\ UNCHANGED <<room, key, joinedAt, clock, obj, result, kickId, roomVars, hub, dbVars>>

AskToJoin(c) == LET o == obj[c]  i == UniqueId(o, c, id[c]) IN
    /\ pc[c] = "entering"
    /\ hostID[o] # None
    /\ ~closed[o] /\ ~RoomFull(o)
    /\ id' = [id EXCEPT ![c] = i]
    /\ pending' = [pending EXCEPT ![o][i] = c]
    /\ Goto(c, "waiting")
    /\ UNCHANGED <<room, key, joinedAt, clock, obj, queueVars>>
    /\ UNCHANGED <<hostID, closed, clients, hub, dbVars>>

\* What admission does once it is granted.
EnterRoom(c) ==
    /\ pending' = [pending EXCEPT ![obj[c]][id[c]] = None]
    /\ clients' = [clients EXCEPT ![obj[c]][id[c]] = c]
    /\ Goto(c, "connected")
    /\ UNCHANGED <<connVars, obj, queueVars, hostID, closed, hub, dbVars>>

\* Mutant: the room is not checked again after the wait.
AdmitUnchecked(c) == pc[c] = "waiting" /\ result[c] = "approved" /\ EnterRoom(c)

\* Mutant: any decision admits.
AdmitAnyway(c) ==
    /\ pc[c] = "waiting"
    /\ result[c] # "none"
    /\ ~closed[obj[c]] /\ HostPresent(obj[c])
    /\ EnterRoom(c)

\* The decision arrives, and the room still has a host when it is locked.
Admit(c) ==
    /\ pc[c] = "waiting"
    /\ result[c] = "approved"
    /\ ~closed[obj[c]] /\ HostPresent(obj[c])
    /\ EnterRoom(c)

\* Mutant: the timer's refusal is left in the request as a third decision.
RefuseRecorded(c) ==
    /\ pc[c] = "waiting"
    /\ pending' = [pending EXCEPT ![obj[c]][id[c]] = None]
    /\ open' = [open EXCEPT ![c] = FALSE]
    /\ result' = [result EXCEPT ![c] = IF @ = "none" THEN "timeout" ELSE @]
    /\ Goto(c, "done")
    /\ UNCHANGED <<connVars, obj, kickId, hostID, closed, clients, hub, dbVars>>

\* The 60 s timer may win against any decision, so a refusal is always
\* possible; it is the only outcome when the room has lost its host.
Refuse(c) ==
    /\ pc[c] = "waiting"
    /\ pending' = [pending EXCEPT ![obj[c]][id[c]] = None]
    /\ open' = [open EXCEPT ![c] = FALSE]
    /\ Goto(c, "done")
    /\ UNCHANGED <<connVars, obj, result, kickId, hostID, closed, clients, hub, dbVars>>

-----------------------------------------------------------------------------
(* What a host may order: the join_decision and peer_kick handlers *)

\* Both handlers first compare the sender's id with Room.hostID and unlock.
Command(c) ==
    /\ pc[c] = "connected"
    /\ id[c] = hostID[obj[c]]
    /\ Goto(c, "commanding")
    /\ UNCHANGED <<connVars, obj, queueVars, roomVars, hub, dbVars>>

\* The request is looked up and decided; the channel keeps the first decision.
\* (Between the two the waiting connection can only be decided or give up, and
\* then the decision changes nothing, so they are one step.)
Decide(c, d, verdict) ==
    /\ pc[c] = "commanding"
    /\ \E i \in Ids : pending[obj[c]][i] = d
    /\ result' = [result EXCEPT ![d] = IF @ = "none" THEN verdict ELSE @]
    /\ Goto(c, "connected")
    /\ UNCHANGED <<connVars, obj, open, kickId, roomVars, hub, dbVars>>

\* No such request, no such member, or an unreadable payload.
CommandNobody(c) ==
    /\ pc[c] = "commanding"
    /\ Goto(c, "connected")
    /\ UNCHANGED <<connVars, obj, queueVars, roomVars, hub, dbVars>>

\* Mutant: the member is deleted without being shut down.
KickSilently(c, i) ==
    /\ pc[c] = "commanding"
    /\ clients[obj[c]][i] # None
    /\ kickId' = [kickId EXCEPT ![c] = i]
    /\ Goto(c, "kicking")
    /\ UNCHANGED <<connVars, obj, open, result, roomVars, hub, dbVars>>

\* The member is looked up under the read lock, and shut down after it ...
Kick(c, i) ==
    /\ pc[c] = "commanding"
    /\ clients[obj[c]][i] # None
    /\ open' = [open EXCEPT ![clients[obj[c]][i]] = FALSE]
    /\ kickId' = [kickId EXCEPT ![c] = i]
    /\ Goto(c, "kicking")
    /\ UNCHANGED <<connVars, obj, result, roomVars, hub, dbVars>>

\* ... and whoever has that id when the room is locked again is deleted.
KickDelete(c) ==
    /\ pc[c] = "kicking"
    /\ clients' = [clients EXCEPT ![obj[c]][kickId[c]] = None]
    /\ kickId' = [kickId EXCEPT ![c] = None]
    /\ Goto(c, "connected")
    /\ UNCHANGED <<connVars, obj, open, result, hostID, closed, pending, hub, dbVars>>

-----------------------------------------------------------------------------
(* Departure: the end of readLoop, and leaveRoom *)

\* The reader fails, times out or is cut off, and leaveRoom shuts the queue.
Disconnect(c) ==
    /\ pc[c] = "connected"
    /\ open' = [open EXCEPT ![c] = FALSE]
    /\ Goto(c, "leaving")
    /\ UNCHANGED <<connVars, obj, result, kickId, roomVars, hub, dbVars>>

\* leaveRoom looks itself up by id, not by identity.
Existed(c)  == clients[obj[c]][id[c]] # None
HostLeft(c) == Existed(c) /\ id[c] = hostID[obj[c]] /\ ~closed[obj[c]]
Rest(c)     == {clients[obj[c]][i] : i \in Present(obj[c]) \ {id[c]}}

DropEntry(c) == clients' = [clients EXCEPT ![obj[c]][id[c]] = None]

\* Mutant: leaveRoom returns early when somebody else has deleted the member.
LeaveOnlyIfExisted(c) ==
    /\ pc[c] = "leaving"
    /\ ~HostLeft(c)
    /\ DropEntry(c)
    /\ Goto(c, IF Existed(c) /\ Rest(c) = {} THEN "forgetting" ELSE "done")
    /\ UNCHANGED <<connVars, obj, queueVars, hostID, closed, pending, hub, dbVars>>

LeavePlainly(c) ==
    /\ pc[c] = "leaving"
    /\ ~HostLeft(c)
    /\ DropEntry(c)
    /\ Goto(c, IF Rest(c) = {} THEN "forgetting" ELSE "done")
    /\ UNCHANGED <<connVars, obj, queueVars, hostID, closed, pending, hub, dbVars>>

\* tryHostMigrationLocked: the member with the earliest JoinedAt takes over.
LeaveAndMigrate(c) ==
    /\ pc[c] = "leaving"
    /\ HostLeft(c)
    /\ \E e \in Rest(c) :
        /\ \A d \in Rest(c) : joinedAt[e] <= joinedAt[d]
        /\ hostID' = [hostID EXCEPT ![obj[c]] = id[e]]
    /\ DropEntry(c)
    /\ Goto(c, "done")
    /\ UNCHANGED <<connVars, obj, queueVars, closed, pending, hub, dbVars>>

\* The last member was the host: the room closes and whoever waits is told.
LeaveAndClose(c) == LET o == obj[c] IN
    /\ pc[c] = "leaving"
    /\ HostLeft(c)
    /\ Rest(c) = {}
    /\ closed' = [closed EXCEPT ![o] = TRUE]
    /\ result' = [d \in Clients |->
                    IF result[d] = "none" /\ \E i \in Ids : pending[o][i] = d
                    THEN "rejected" ELSE result[d]]
    /\ pending' = [pending EXCEPT ![o] = NoEntries]
    /\ DropEntry(c)
    /\ Goto(c, "closing")
    /\ UNCHANGED <<connVars, obj, open, kickId, hostID, hub, dbVars>>

\* Mutant: the room's closing does not reach the store.
ForgetOnly(c) ==
    /\ pc[c] \in {"forgetting", "closing"}
    /\ hub' = [hub EXCEPT ![room[c]] = IF @ = obj[c] THEN None ELSE @]
    /\ Goto(c, "done")
    /\ UNCHANGED <<connVars, obj, queueVars, roomVars, dbVars>>

\* After the room is unlocked the hub forgets it, if it still is that object.
Forget(c) == LET r == room[c] IN
    /\ pc[c] \in {"forgetting", "closing"}
    /\ hub' = [hub EXCEPT ![r] = IF @ = obj[c] THEN None ELSE @]
    /\ Goto(c, IF pc[c] = "closing" THEN "closingRow" ELSE "done")
    /\ UNCHANGED <<connVars, obj, queueVars, roomVars, dbVars>>

\* CloseRoom stamps the row; its error is ignored.
CloseRow(c) ==
    /\ pc[c] = "closingRow"
    /\ \/ closedAt' = [closedAt EXCEPT ![room[c]] = keyHash[room[c]] # None]
       \/ Faults /\ UNCHANGED closedAt
    /\ Goto(c, "done")
    /\ UNCHANGED <<connVars, obj, queueVars, roomVars, hub, keyHash>>

-----------------------------------------------------------------------------
(* The environment *)

\* DeleteInactiveRooms removes a row nothing has touched for roomTTLDays, open
\* or closed.  EnsureRoom touches it, and joining takes little over a minute, so
\* no connection that is still joining can find its row gone.
Expire(r) ==
    /\ Expiry
    /\ keyHash[r] # None
    /\ \A c \in Clients : room[c] = r => pc[c] \notin {"authed", "entering", "waiting"}
    /\ keyHash' = [keyHash EXCEPT ![r] = None]
    /\ closedAt' = [closedAt EXCEPT ![r] = FALSE]
    /\ UNCHANGED <<pc, connVars, obj, queueVars, roomVars, hub>>

\* The process stops: connections, rooms and the hub are lost, the rows stay.
Crash ==
    /\ Faults
    /\ \E c \in Clients : pc[c] \notin {"new", "done"}
    /\ pc' = [c \in Clients |-> IF pc[c] = "new" THEN "new" ELSE "done"]
    /\ obj' = [c \in Clients |-> None]
    /\ open' = [c \in Clients |-> FALSE]
    /\ result' = [c \in Clients |-> "none"]
    /\ kickId' = [c \in Clients |-> None]
    /\ hostID' = [o \in Clients |-> None]
    /\ closed' = [o \in Clients |-> FALSE]
    /\ clients' = [o \in Clients |-> NoEntries]
    /\ pending' = [o \in Clients |-> NoEntries]
    /\ hub' = [r \in RoomIds |-> None]
    /\ UNCHANGED <<connVars, dbVars>>

-----------------------------------------------------------------------------
Init ==
    /\ pc = [c \in Clients |-> "new"]
    /\ room = [c \in Clients |-> None]
    /\ key = [c \in Clients |-> None]
    /\ id = [c \in Clients |-> None]
    /\ joinedAt = [c \in Clients |-> 0]
    /\ clock = 0
    /\ obj = [c \in Clients |-> None]
    /\ open = [c \in Clients |-> FALSE]
    /\ result = [c \in Clients |-> "none"]
    /\ kickId = [c \in Clients |-> None]
    /\ hostID = [o \in Clients |-> None]
    /\ closed = [o \in Clients |-> FALSE]
    /\ clients = [o \in Clients |-> NoEntries]
    /\ pending = [o \in Clients |-> NoEntries]
    /\ hub = [r \in RoomIds |-> None]
    /\ keyHash = [r \in RoomIds |-> None]
    /\ closedAt = [r \in RoomIds |-> FALSE]

Join(c) ==
    \/ \E r \in RoomIds, k \in Keys, i \in AskedIds[c] : Authenticate(c, r, k, i)
    \/ RejectAuth(c)
    \/ OpenRoom(c)
    \/ Found(c)
    \/ TurnAway(c)
    \/ AskToJoin(c)
    \/ Admit(c)
    \/ Refuse(c)

Order(c) ==
    \/ Command(c)
    \/ \E d \in Clients, verdict \in {"approved", "rejected"} : Decide(c, d, verdict)
    \/ CommandNobody(c)
    \/ \E i \in Ids : Kick(c, i)
    \/ KickDelete(c)

Leave(c) == LeavePlainly(c) \/ LeaveAndMigrate(c) \/ LeaveAndClose(c)

Depart(c) == Disconnect(c) \/ Leave(c) \/ Forget(c) \/ CloseRow(c)

Next ==
    \/ \E c \in Clients : Join(c) \/ Order(c) \/ Depart(c)
    \/ \E r \in RoomIds : Expire(r) \/ \E k \in Keys : CreateRoom(r, k)
    \/ Crash

Spec == Init /\ [][Next]_vars

(* A goroutine that can run does, and the approval timer fires.  A          *)
(* connection whose queue was shut down is closed for good by its writer:   *)
(* its reader may still be in a handler, over and over, but one of its next *)
(* reads fails (strong fairness).  Nobody has to connect, to answer, to     *)
(* give orders or to leave of its own accord.                               *)
Enter(c) == OpenRoom(c) \/ Found(c) \/ TurnAway(c) \/ AskToJoin(c)

Fairness == \A c \in Clients :
    /\ WF_vars(Enter(c))
    /\ WF_vars(Admit(c) \/ Refuse(c))
    /\ WF_vars(CommandNobody(c) \/ KickDelete(c))
    /\ SF_vars(~open[c] /\ Disconnect(c))
    /\ WF_vars(Leave(c) \/ Forget(c) \/ CloseRow(c))

FairSpec == Spec /\ Fairness

-----------------------------------------------------------------------------
(* Properties *)

Phases == {"new", "authed", "entering", "waiting", "connected", "commanding", "kicking",
           "leaving", "forgetting", "closing", "closingRow", "done"}

\* The handler of c is past joinRoom and before the lock of leaveRoom.
Serving(c) == pc[c] \in {"connected", "commanding", "kicking", "leaving"}

\* Every variable has its type: the shape of Hub, Room, Client and rooms.
TypeOK ==
    /\ pc \in [Clients -> Phases]
    /\ room \in [Clients -> RoomIds \cup {None}]
    /\ key \in [Clients -> Keys \cup {None}]
    /\ id \in [Clients -> Ids \cup {None}]
    /\ joinedAt \in [Clients -> Nat]
    /\ clock \in Nat
    /\ obj \in [Clients -> Clients \cup {None}]
    /\ open \in [Clients -> BOOLEAN]
    /\ result \in [Clients -> {"none", "approved", "rejected"}]
    /\ kickId \in [Clients -> Ids \cup {None}]
    /\ hostID \in [Clients -> Ids \cup {None}]
    /\ closed \in [Clients -> BOOLEAN]
    /\ clients \in [Clients -> [Ids -> Clients \cup {None}]]
    /\ pending \in [Clients -> [Ids -> Clients \cup {None}]]
    /\ hub \in [RoomIds -> Clients \cup {None}]
    /\ keyHash \in [RoomIds -> Keys \cup {None}]
    /\ closedAt \in [RoomIds -> BOOLEAN]

(* Why the room invariants hold: an inductive strengthening, in parts.      *)

\* What handleSocket has established by the time it reaches a phase.
Placed == \A c \in Clients :
    /\ pc[c] \notin {"new", "done"} => room[c] \in RoomIds /\ id[c] \in Ids /\ key[c] \in Keys
    /\ pc[c] \notin {"new", "authed", "done"} => obj[c] \in Clients
    /\ pc[c] = "kicking" => kickId[c] \in Ids

\* A room object belongs to the room id of the connection that made it, and is
\* untouched until it is made.
Owned ==
    /\ \A c \in Clients : obj[c] # None =>
        room[obj[c]] = room[c] /\ pc[obj[c]] \notin {"new", "authed"}
    /\ \A r \in RoomIds : hub[r] # None =>
        room[hub[r]] = r /\ pc[hub[r]] \notin {"new", "authed"}
    /\ \A o \in Clients : pc[o] \in {"new", "authed"} => obj[o] = None /\ hostID[o] = None

\* The maps of a room hold connections that are in the matching phase, under
\* their own id.
Registered == \A o \in Clients, i \in Ids :
    /\ clients[o][i] # None =>
        id[clients[o][i]] = i /\ obj[clients[o][i]] = o /\ Serving(clients[o][i])
    /\ pending[o][i] # None =>
        id[pending[o][i]] = i /\ obj[pending[o][i]] = o /\ pc[pending[o][i]] = "waiting"

\* A room gets its host with its first member and is never without one again;
\* whoever waits, serves or leaves does so in a room that had one.
Founded ==
    /\ \A o \in Clients, i \in Ids : clients[o][i] # None => hostID[o] # None
    /\ \A c \in Clients : pc[c] \notin {"new", "authed", "entering", "closingRow", "done"}
                            => hostID[obj[c]] # None

\* The hub knows every object that has members or may still be founded, and
\* only an object without members is about to be forgotten.
Anchored ==
    /\ \A o \in Clients, i \in Ids : clients[o][i] # None => hub[room[o]] = o
    /\ \A c \in Clients : pc[c] = "entering" /\ hostID[obj[c]] = None => hub[room[c]] = obj[c]
    /\ \A c \in Clients, i \in Ids :
        pc[c] \in {"forgetting", "closing"} => clients[obj[c]][i] = None

\* The inductive invariant behind NoSplitBrain.
RoomInv == Placed /\ Owned /\ Registered /\ Founded /\ Anchored

\* All members of a room id share one room object, so whatever one broadcasts
\* reaches the others.  leaveRoom makes the hub forget an object after it has
\* unlocked it, and joinRoom may hold it meanwhile: only the test that the host
\* is still present (hub.go:699) keeps a late approval out of a forgotten room.
NoSplitBrain ==
    \A c, d \in Clients :
        InRoom(c) /\ InRoom(d) /\ room[c] = room[d] => obj[c] = obj[d]

\* The limit on rooms in the hub bounds the rooms that have members, although
\* a forgotten object may outlive its entry in the hub.
LiveRoomsBounded ==
    MaxGlobalRooms > 0 =>
        Cardinality({obj[c] : c \in {d \in Clients : InRoom(d)}}) <= MaxGlobalRooms

\* Members of a room authenticated with the same room key, across the room's
\* closing, its reopening under the same id and a restart of the server.
KeyAgreement ==
    \A c, d \in Clients :
        InRoom(c) /\ InRoom(d) /\ room[c] = room[d] => key[c] = key[d]

\* A connection that was admitted and that nobody has shut down is in its room:
\* other members' kicks and departures, which delete by id, never remove it.
NoGhost ==
    \A c \in Clients : Serving(c) /\ open[c] => InRoom(c)

\* Whenever nobody is in the middle of kicking or leaving, a room with members
\* has its host among them.
HostReigns ==
    \A o \in Clients :
        Members(o) # {} /\ (\A c \in Clients : obj[c] = o => pc[c] \notin {"kicking", "leaving"})
            => HostPresent(o)

\* A room never holds more members than maxClientsPerRoom.
CapacityRespected ==
    \A o \in Clients :
        MaxClientsPerRoom > 0 => Cardinality(Members(o)) <= MaxClientsPerRoom

\* Nobody is in a room whose row says it is closed.
LiveRoomIsOpen ==
    \A c \in Clients : InRoom(c) => ~closedAt[room[c]]

\* A room object that everybody has left or been removed from is eventually
\* dropped from the hub: whoever empties it, or was shut down by whoever did,
\* still runs the end of leaveRoom.
EmptyRoomForgotten ==
    \A o \in Clients :
        (hostID[o] # None /\ Members(o) = {}) ~> (\A r \in RoomIds : hub[r] # o)

\* A room that its last member closed is eventually closed in the database,
\* where old invitations are checked, unless its row has expired by then.
CloseReachesDatabase ==
    \A o \in Clients, r \in RoomIds :
        (closed[o] /\ hub[r] = o) ~> (closedAt[r] \/ keyHash[r] = None)

\* RoomMembership as an implementation of RoomSession.
Session == INSTANCE RoomSession WITH
    members <- [r \in RoomIds |-> {c \in Clients : InRoom(c) /\ room[c] = r}],
    invited <- {c \in Clients : result[c] = "approved"},
    spent   <- {c \in Clients : pc[c] \notin {"new", "authed", "entering", "waiting"}}

\* Room membership keeps the promise of a room session: one founder per
\* session, everybody else approved, no way back in for who was removed.
ImplementsSession == Session!Spec
=============================================================================
