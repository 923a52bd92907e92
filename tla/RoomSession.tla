---------------------------- MODULE RoomSession ----------------------------
(***************************************************************************)
(* What room membership promises, without hubs, locks, ids or rows: a room *)
(* session is founded only while nobody is in it; from then on only         *)
(* connections that were invited join, and only while somebody is in; a     *)
(* connection joins at most once in its life, so who is removed stays out.  *)
(***************************************************************************)
CONSTANTS Clients, RoomIds

VARIABLES
    members,   \* members[r]: the connections in the session of room r
    invited,   \* connections some host has approved
    spent      \* connections that have joined or given up

vars == <<members, invited, spent>>

Init ==
    /\ members = [r \in RoomIds |-> {}]
    /\ invited = {}
    /\ spent = {}

\* The first connection needs nobody's approval.
Found(r, c) ==
    /\ c \notin spent
    /\ members[r] = {}
    /\ members' = [members EXCEPT ![r] = {c}]
    /\ spent' = spent \cup {c}
    /\ UNCHANGED invited

Invite(c) ==
    /\ c \notin spent
    /\ invited' = invited \cup {c}
    /\ UNCHANGED <<members, spent>>

Admit(r, c) ==
    /\ c \in invited \ spent
    /\ members[r] # {}
    /\ members' = [members EXCEPT ![r] = @ \cup {c}]
    /\ spent' = spent \cup {c}
    /\ UNCHANGED invited

GiveUp(c) ==
    /\ spent' = spent \cup {c}
    /\ UNCHANGED <<members, invited>>

Remove(r, c) ==
    /\ members' = [members EXCEPT ![r] = @ \ {c}]
    /\ UNCHANGED <<invited, spent>>

\* The server restarts: every session and every connection is lost.
Restart ==
    /\ members' = [r \in RoomIds |-> {}]
    /\ invited' = {}
    /\ \E lost \in SUBSET Clients : spent' = spent \cup lost

Next ==
    \/ \E c \in Clients : Invite(c) \/ GiveUp(c)
    \/ \E c \in Clients, r \in RoomIds : Found(r, c) \/ Admit(r, c) \/ Remove(r, c)
    \/ Restart

Spec == Init /\ [][Next]_vars
=============================================================================
