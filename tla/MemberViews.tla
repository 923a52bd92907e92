----------------------------- MODULE MemberViews -----------------------------
(***************************************************************************)
(* What the members of one room are told about each other: who is there,   *)
(* who is host, and in which role.  The room itself changes under Room.mu; *)
(* most notices are sent after it has been released, by several goroutines *)
(* at once, one member after the other.                                    *)
(*                                                                         *)
(* A member believes what it has been sent: a notice counts as soon as it  *)
(* is in the member's queue, for a queue keeps its order (SendQueue says   *)
(* when it loses a notice).  host_changed is sent with Room.mu locked and  *)
(* auth_ok too, so that each is one step with the change it announces.     *)
(***************************************************************************)
EXTENDS Naturals, FiniteSets, Functions

CONSTANTS
    Clients,   \* connections; each is used once
    Wanted,    \* Wanted[c]: the user id c asks for
    Founder,   \* the first to enter
    None

Ids == Clients \cup Range(Wanted)

ASSUME ViewAssumption ==
    /\ IsFiniteSet(Clients)
    /\ Founder \in Clients
    /\ DOMAIN Wanted = Clients
    \* an id the server makes up, named after its connection, is fresh
    /\ Range(Wanted) \cap Clients = {}
    /\ None \notin Ids

VARIABLES
    pc,        \* pc[c]: where the goroutine of c is
    id,        \* id[c]: Client.id
    joinedAt,  \* joinedAt[c]: Client.JoinedAt
    entered,   \* entered[c]: history, when c became a member
    clock,     \* counts connections and admissions
    members,   \* members[i]: Room.clients
    host,      \* Room.hostID
    asked,     \* asked[c]: the host that got the join_request of c
    taken,     \* taken[c]: the role a presence message has been given
    role,      \* role[c]: Client.user.Role
    roster,    \* roster[c]: the peers c knows of
    hostSeen,  \* hostSeen[c]: the host c knows of
    note,      \* note[c]: the notice the goroutine of c is sending
    todo,      \* todo[c]: to whom it has yet to send it
    excuses    \* history: what has happened that voids a guarantee

roomVars == <<members, host>>
timeVars == <<joinedAt, entered, clock>>
viewVars == <<roster, hostSeen>>
noteVars == <<note, todo>>
vars     == <<pc, id, timeVars, roomVars, asked, taken, role, viewVars, noteVars, excuses>>

-----------------------------------------------------------------------------
Goto(c, label) == pc' = [pc EXCEPT ![c] = label]

Present == {i \in Ids : members[i] # None}

\* The connections in the room, without those that have one of the ids given.
MembersBut(ids) == {members[i] : i \in Present \ ids}

Notice(type, i) == [type |-> type, id |-> i]

Send(c, notice, targets) ==
    /\ note' = [note EXCEPT ![c] = notice]
    /\ todo' = [todo EXCEPT ![c] = targets]

-----------------------------------------------------------------------------
(* joinRoom *)

Taken(i) == members[i] # None \/ \E d \in Clients : pc[d] = "waiting" /\ id[d] = i

\* JoinedAt is stamped, an id is found that is free, and the host is asked.
Ask(c) ==
    /\ pc[c] = "new"
    /\ clock' = clock + 1
    /\ joinedAt' = [joinedAt EXCEPT ![c] = clock + 1]
    /\ id' = [id EXCEPT ![c] = IF Taken(Wanted[c]) THEN c ELSE Wanted[c]]
    /\ asked' = [asked EXCEPT ![c] = members[host]]
    /\ excuses' = excuses \cup {e \in {"reused"} : \E d \in Clients \ {c} :
                                                        pc[d] # "new" /\ id[d] = id'[c]}
    /\ Goto(c, "waiting")
    /\ UNCHANGED <<entered, roomVars, taken, role, viewVars, noteVars>>

\* Mutant: auth_ok names the host that was asked.
EnterUninformed(c) ==
    /\ pc[c] = "waiting"
    /\ asked[c] # None
    /\ members[host] # None
    /\ members' = [members EXCEPT ![id[c]] = c]
    /\ clock' = clock + 1
    /\ entered' = [entered EXCEPT ![c] = clock + 1]
    /\ role' = [role EXCEPT ![c] = "collaborator"]
    /\ roster' = [roster EXCEPT ![c] = Present \ {id[c]}]
    /\ hostSeen' = [hostSeen EXCEPT ![c] = id[asked[c]]]
    /\ Goto(c, "entered")
    /\ UNCHANGED <<id, joinedAt, host, asked, taken, noteVars, excuses>>

\* The host that was asked approves and the room still has a host: the peers are
\* listed, the newcomer is entered and auth_ok sent.
Enter(c) ==
    /\ pc[c] = "waiting"
    /\ asked[c] # None
    /\ members[host] # None
    /\ members' = [members EXCEPT ![id[c]] = c]
    /\ clock' = clock + 1
    /\ entered' = [entered EXCEPT ![c] = clock + 1]
    /\ role' = [role EXCEPT ![c] = "collaborator"]
    /\ roster' = [roster EXCEPT ![c] = Present \ {id[c]}]
    /\ hostSeen' = [hostSeen EXCEPT ![c] = host]
    /\ Goto(c, "entered")
    /\ UNCHANGED <<id, joinedAt, host, asked, taken, noteVars, excuses>>

\* broadcast: the members of the moment are going to be told.
Announce(c) ==
    /\ pc[c] = "entered"
    /\ Send(c, Notice("joined", id[c]), MembersBut({id[c]}))
    /\ Goto(c, "reading")
    /\ UNCHANGED <<id, timeVars, roomVars, asked, taken, role, viewVars, excuses>>

\* The wait times out, the host refuses, or there is no host any more.
GiveUp(c) ==
    /\ pc[c] = "waiting"
    /\ Goto(c, "done")
    /\ UNCHANGED <<id, timeVars, roomVars, asked, taken, role, viewVars, noteVars, excuses>>

-----------------------------------------------------------------------------
(* A notice reaches one member after the other *)

Tell(c, m) ==
    /\ m \in todo[c]
    /\ todo' = [todo EXCEPT ![c] = @ \ {m}]
    /\ roster' = [roster EXCEPT ![m] =
                    IF note[c].type = "joined" THEN @ \cup {note[c].id} ELSE @ \ {note[c].id}]
    /\ UNCHANGED <<pc, id, timeVars, roomVars, asked, taken, role, hostSeen, note, excuses>>

Reading(c) == pc[c] = "reading" /\ todo[c] = {}

-----------------------------------------------------------------------------
(* The presence handler: the sender's role is read under Room.mu ... *)

TakeRole(c) ==
    /\ Reading(c)
    /\ taken' = [taken EXCEPT ![c] = IF id[c] = host THEN "host" ELSE "collaborator"]
    /\ Goto(c, "presence")
    /\ UNCHANGED <<id, timeVars, roomVars, asked, role, viewVars, noteVars, excuses>>

\* ... and stored without it.
setUser(c) ==
    /\ pc[c] = "presence"
    /\ role' = [role EXCEPT ![c] = taken[c]]
    /\ Goto(c, "reading")
    /\ UNCHANGED <<id, timeVars, roomVars, asked, taken, viewVars, noteVars, excuses>>

-----------------------------------------------------------------------------
(* The peer_kick handler: the member is deleted, then the others are told. *)

KickDelete(c, i) ==
    /\ Reading(c)
    /\ id[c] = host
    /\ members[i] # None
    /\ members' = [members EXCEPT ![i] = None]
    /\ note' = [note EXCEPT ![c] = Notice("left", i)]
    /\ excuses' = excuses \cup {"kicked"}
    /\ Goto(c, "kicked")
    /\ UNCHANGED <<id, timeVars, host, asked, taken, role, viewVars, todo>>

\* Mutant: ids without a connection are not skipped.
KickAnnounceAll(c) ==
    /\ pc[c] = "kicked"
    /\ todo' = [todo EXCEPT ![c] = {members[i] : i \in Ids}]
    /\ Goto(c, "reading")
    /\ UNCHANGED <<id, timeVars, roomVars, asked, taken, role, viewVars, note, excuses>>

KickAnnounce(c) ==
    /\ pc[c] = "kicked"
    /\ todo' = [todo EXCEPT ![c] = MembersBut({})]
    /\ Goto(c, "reading")
    /\ UNCHANGED <<id, timeVars, roomVars, asked, taken, role, viewVars, note, excuses>>

-----------------------------------------------------------------------------
(* leaveRoom *)

Existed(c) == members[id[c]] # None

\* Mutant: only the host is told of a departure.
LeaveUntold(c) ==
    /\ Reading(c)
    /\ ~(Existed(c) /\ id[c] = host)
    /\ members' = [members EXCEPT ![id[c]] = None]
    /\ Send(c, Notice("left", id[c]), {members[host]} \ {None})
    /\ Goto(c, "done")
    /\ UNCHANGED <<id, timeVars, host, asked, taken, role, viewVars, excuses>>

\* A member that has been kicked tells nobody.
Leave(c) ==
    /\ Reading(c)
    /\ ~(Existed(c) /\ id[c] = host)
    /\ members' = [members EXCEPT ![id[c]] = None]
    /\ Send(c, Notice("left", id[c]), IF Existed(c) THEN MembersBut({id[c]}) ELSE {})
    /\ Goto(c, "done")
    /\ UNCHANGED <<id, timeVars, host, asked, taken, role, viewVars, excuses>>

\* Mutant: the new host's own record keeps its old role.
HandOverSilently(c) == LET rest == MembersBut({id[c]}) IN
    /\ Reading(c)
    /\ Existed(c) /\ id[c] = host
    /\ members' = [members EXCEPT ![id[c]] = None]
    /\ \E h \in rest :
        /\ \A m \in rest : joinedAt[h] <= joinedAt[m]
        /\ host' = id[h]
        /\ hostSeen' = [m \in Clients |-> IF m \in rest THEN id[h] ELSE hostSeen[m]]
        /\ excuses' = excuses \cup {e \in {"raced"} : pc[h] = "presence"}
    /\ Send(c, Notice("left", id[c]), rest)
    /\ Goto(c, "done")
    /\ UNCHANGED <<id, timeVars, asked, taken, role, roster>>

\* tryHostMigrationLocked: the member with the earliest JoinedAt becomes host.
HandOver(c) == LET rest == MembersBut({id[c]}) IN
    /\ Reading(c)
    /\ Existed(c) /\ id[c] = host
    /\ members' = [members EXCEPT ![id[c]] = None]
    /\ \E h \in rest :
        /\ \A m \in rest : joinedAt[h] <= joinedAt[m]
        /\ host' = id[h]
        /\ role' = [role EXCEPT ![h] = "host"]
        /\ hostSeen' = [m \in Clients |-> IF m \in rest THEN id[h] ELSE hostSeen[m]]
        /\ excuses' = excuses \cup {e \in {"raced"} : pc[h] = "presence"}
    /\ Send(c, Notice("left", id[c]), rest)
    /\ Goto(c, "done")
    /\ UNCHANGED <<id, timeVars, asked, taken, roster>>

\* The last one goes, and the room is forgotten.
LeaveLast(c) ==
    /\ Reading(c)
    /\ Existed(c) /\ id[c] = host
    /\ MembersBut({id[c]}) = {}
    /\ members' = [members EXCEPT ![id[c]] = None]
    /\ Goto(c, "done")
    /\ UNCHANGED <<id, timeVars, host, asked, taken, role, viewVars, noteVars, excuses>>

-----------------------------------------------------------------------------
\* The founder is in; the others come.
Init ==
    /\ pc = [c \in Clients |-> IF c = Founder THEN "reading" ELSE "new"]
    /\ id = [c \in Clients |-> IF c = Founder THEN Wanted[c] ELSE c]
    /\ joinedAt = [c \in Clients |-> 0]
    /\ entered = [c \in Clients |-> 0]
    /\ clock = 0
    /\ members = [i \in Ids |-> IF i = Wanted[Founder] THEN Founder ELSE None]
    /\ host = Wanted[Founder]
    /\ asked = [c \in Clients |-> None]
    /\ taken = [c \in Clients |-> "collaborator"]
    /\ role = [c \in Clients |-> IF c = Founder THEN "host" ELSE "collaborator"]
    /\ roster = [c \in Clients |-> {}]
    /\ hostSeen = [c \in Clients |-> IF c = Founder THEN Wanted[c] ELSE None]
    /\ note = [c \in Clients |-> Notice("left", c)]
    /\ todo = [c \in Clients |-> {}]
    /\ excuses = {}

Next == \E c \in Clients :
    \/ Ask(c) \/ Enter(c) \/ Announce(c) \/ GiveUp(c)
    \/ \E m \in Clients : Tell(c, m)
    \/ TakeRole(c) \/ setUser(c)
    \/ \E i \in Ids : KickDelete(c, i)
    \/ KickAnnounce(c)
    \/ Leave(c) \/ HandOver(c) \/ LeaveLast(c)

Spec == Init /\ [][Next]_vars

-----------------------------------------------------------------------------
(* Properties *)

Labels == {"new", "waiting", "entered", "reading", "presence", "kicked", "done"}

\* Every variable has its type.
TypeOK ==
    /\ pc \in [Clients -> Labels]
    /\ id \in [Clients -> Ids]
    /\ joinedAt \in [Clients -> Nat] /\ entered \in [Clients -> Nat] /\ clock \in Nat
    /\ members \in [Ids -> Clients \cup {None}]
    /\ host \in Ids
    /\ asked \in [Clients -> Clients \cup {None}]
    /\ taken \in [Clients -> {"host", "collaborator"}]
    /\ role \in [Clients -> {"host", "collaborator"}]
    /\ roster \in [Clients -> SUBSET Ids]
    /\ hostSeen \in [Clients -> Ids \cup {None}]
    /\ note \in [Clients -> [type : {"joined", "left"}, id : Ids]]
    /\ todo \in [Clients -> SUBSET Clients]
    /\ excuses \subseteq {"reused", "kicked", "raced"}

\* Every member knows the host, at every moment, however an admission and a
\* migration interleave: auth_ok and host_changed are ordered by Room.mu.
HostKnown == \A i \in Present : hostSeen[members[i]] = host

Settled == \A c \in Clients : todo[c] = {} /\ pc[c] \notin {"entered", "kicked"}

\* Once every notice under way has been sent, every member knows exactly the
\* others, provided that nobody was kicked and no id was used twice.
RosterAgrees ==
    Settled /\ excuses \cap {"reused", "kicked"} = {} =>
        \A i \in Present : roster[members[i]] = Present \ {i}

\* The role a newcomer is shown of a member is the true one, unless the member
\* was elected in the middle of a presence message of its own.
RoleTruthful ==
    "raced" \notin excuses =>
        \A i \in Present : role[members[i]] = "host" <=> i = host

\* The host is the member that has been one longest: the founder, and after a
\* migration the earliest to have been admitted.
EarliestReigns ==
    members[host] # None =>
        \A i \in Present : entered[members[host]] <= entered[members[i]]
=============================================================================
