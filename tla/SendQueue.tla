------------------------------ MODULE SendQueue ------------------------------
(***************************************************************************)
(* How messages reach the members of one room.  Every connection has a     *)
(* bounded channel, Client.send: any goroutine may put a message into it   *)
(* with queue, a goroutine of its own (writeLoop) takes them out and       *)
(* writes them to the socket, and shutdown closes it.                      *)
(*                                                                         *)
(* A goroutine is named after its connection (handleSocket: joinRoom,      *)
(* readLoop, leaveRoom) or is a job that a doc_update has started.  A      *)
(* goroutine that is calling queue has the message in call[g].env and the  *)
(* connections it has yet to serve in call[g].todo; pc[g] is where it goes *)
(* on when all the calls have returned.  queue is not atomic: it tests     *)
(* Client.closed, then tries to send, then may block for five seconds, and *)
(* a send on a closed channel panics.                                      *)
(*                                                                         *)
(* Room.mu is only kept over calls of queue while the host hands over.     *)
(* auth_ok and join_pending are left out: they go to the newcomer's own,   *)
(* still empty queue.  Which member is elected and who may be admitted or  *)
(* kicked is the business of RoomMembership.                               *)
(***************************************************************************)
EXTENDS Naturals, Sequences, FiniteSets, FiniteSetsExt

CONSTANTS
    Clients,    \* connections
    Founders,   \* those who are in the room; the others ask to join
    Hosting,    \* the one of them that is host
    Jobs,       \* goroutines that store a doc_update
    None,
    Capacity,   \* clientSendQueueSize
    MaxSends,   \* bound: messages the connections send, together
    Unsteady    \* connections that may break or quit

Goroutines == Clients \cup Jobs

ASSUME QueueAssumption ==
    /\ Founders \subseteq Clients /\ Hosting \in Founders
    /\ Clients \cap Jobs = {}
    /\ None \notin Goroutines
    /\ Capacity \in Nat \ {0}
    /\ MaxSends \in Nat
    /\ Unsteady \subseteq Clients

VARIABLES
    pc,        \* pc[g]: where goroutine g goes on
    call,      \* call[g]: the calls of queue it is making
    victim,    \* victim[c]: whom c is kicking
    owner,     \* owner[j]: the connection whose update j stores
    members,   \* Room.clients
    host,      \* Room.hostID
    lock,      \* the goroutine that holds Room.mu over calls of queue
    chan,      \* chan[c]: what is in Client.send
    open,      \* open[c]: shutdown has not been called
    writing,   \* writing[c]: writeLoop is running
    conn,      \* conn[c]: "up", "broken" by the network, or "closed" by the server
    written,   \* written[c]: what has been written to the socket, as far as it is remembered
    sent,      \* sent[c]: the messages c has sent
    crashed,   \* the process has ended
    excused    \* history: who broke, quit, or was given up on

roomVars == <<members, host, lock>>
sockVars == <<writing, conn, written>>
vars     == <<pc, call, victim, owner, roomVars, chan, open, sockVars, sent, crashed, excused>>

-----------------------------------------------------------------------------
(* Messages and calls *)

Types == {"relay", "presence", "peer_kicked", "join_rejected", "notice"}

Env(type, from, n) == [type |-> type, from |-> from, n |-> n]

\* Abstraction: the server's own messages are told apart where a property does.
Notice(type) == Env(IF type \in {"peer_kicked", "join_rejected"} THEN type ELSE "notice", None, 0)

\* Abstraction: what the properties ask of the socket.
Remembered(env) == env.type # "notice"

isTransient(env) == env.type = "presence"

\* A goroutine that has env to give to each of todo.
Serving(env, todo) == [env |-> env, todo |-> todo, to |-> None, blocked |-> FALSE]

Quiet == Serving(Notice("relay"), {})

\* g is about to call queue with env for each of targets, and then goes on at label.
Call(g, env, targets, label) ==
    /\ call' = [call EXCEPT ![g] = Serving(env, targets)]
    /\ pc' = [pc EXCEPT ![g] = label]

Busy(g) == call[g].todo # {}

\* g is at label, with no call in progress, in a process that lives.
At(g, label) == pc[g] = label /\ ~Busy(g) /\ ~crashed

\* The call for connection c has returned.
Return(g, c) == call' = [call EXCEPT ![g] = Serving(@.env, @.todo \ {c})]

-----------------------------------------------------------------------------
(* queue *)

QueueUnchanged == UNCHANGED <<pc, victim, owner, roomVars, sockVars, sent, crashed>>

\* The first test of Client.closed.
Test(g) == \E c \in call[g].todo :
    /\ ~crashed /\ call[g].to = None
    /\ IF open[c] THEN call' = [call EXCEPT ![g].to = c] ELSE Return(g, c)
    /\ QueueUnchanged
    /\ UNCHANGED <<chan, open, excused>>

\* Mutant: the channel takes one message too many.
PutOver(g) == LET c == call[g].to IN
    /\ ~crashed /\ c # None
    /\ open[c] /\ Len(chan[c]) <= Capacity
    /\ chan' = [chan EXCEPT ![c] = Append(@, call[g].env)]
    /\ Return(g, c)
    /\ QueueUnchanged
    /\ UNCHANGED <<open, excused>>

\* There is room in the channel, at once or after a wait.
Put(g) == LET c == call[g].to IN
    /\ ~crashed /\ c # None
    /\ open[c] /\ Len(chan[c]) < Capacity
    /\ chan' = [chan EXCEPT ![c] = Append(@, call[g].env)]
    /\ Return(g, c)
    /\ QueueUnchanged
    /\ UNCHANGED <<open, excused>>

\* There is none: presence is dropped, anything else waits ...
Full(g) == LET c == call[g].to IN
    /\ ~crashed /\ c # None
    /\ open[c] /\ Len(chan[c]) >= Capacity /\ ~call[g].blocked
    /\ IF isTransient(call[g].env)
       THEN Return(g, c)
       ELSE call' = [call EXCEPT ![g].blocked = TRUE]
    /\ QueueUnchanged
    /\ UNCHANGED <<chan, open, excused>>

\* ... until the timer fires (or the second test of Client.closed gives up).
GiveUp(g) == LET c == call[g].to IN
    /\ ~crashed /\ call[g].blocked
    /\ Return(g, c)
    /\ excused' = excused \cup {d \in {c} : call[g].env.type = "peer_kicked"}
    /\ QueueUnchanged
    /\ UNCHANGED <<chan, open>>

InReadLoop(g) == pc[g] \in {"reading", "kicking", "deleting"}

\* The channel has been closed since the test: the send panics.  readLoop
\* recovers, and the connection leaves; in joinRoom and leaveRoom the WebSocket
\* library recovers, and the goroutine ends as it is, Room.mu locked if it was;
\* nobody recovers in a job, and the process ends.
Panic(g) == LET c == call[g].to IN
    /\ ~crashed /\ c # None
    /\ ~open[c]
    /\ call' = [call EXCEPT ![g] = Quiet]
    /\ crashed' = (g \in Jobs)
    /\ IF InReadLoop(g)
       THEN /\ pc' = [pc EXCEPT ![g] = "leaving"]
            /\ open' = [open EXCEPT ![g] = FALSE]
            /\ conn' = conn
       ELSE /\ pc' = [pc EXCEPT ![g] = "dead"]
            /\ open' = open
            /\ conn' = IF g \in Clients THEN [conn EXCEPT ![g] = "closed"] ELSE conn
    /\ excused' = excused \cup ({g} \cap Clients)
    /\ UNCHANGED <<victim, owner, roomVars, chan, writing, written, sent>>

-----------------------------------------------------------------------------
(* writeLoop *)

WriterUnchanged ==
    UNCHANGED <<pc, call, victim, owner, roomVars, open, sent, crashed, excused>>

Write(c) ==
    /\ ~crashed /\ writing[c]
    /\ chan[c] # <<>> /\ conn[c] = "up"
    /\ written' = [written EXCEPT ![c] = IF Remembered(Head(chan[c]))
                                         THEN Append(@, Head(chan[c])) ELSE @]
    /\ chan' = [chan EXCEPT ![c] = Tail(@)]
    /\ WriterUnchanged
    /\ UNCHANGED <<writing, conn>>

\* The write fails, now or at its deadline, and the loop gives up.
WriteFails(c) ==
    /\ ~crashed /\ writing[c]
    /\ chan[c] # <<>> /\ conn[c] # "up"
    /\ chan' = [chan EXCEPT ![c] = Tail(@)]
    /\ writing' = [writing EXCEPT ![c] = FALSE]
    /\ conn' = [conn EXCEPT ![c] = "closed"]
    /\ WriterUnchanged
    /\ UNCHANGED written

\* Mutant: the loop ends as soon as the queue is shut down.
StopWritingEarly(c) ==
    /\ ~crashed /\ writing[c]
    /\ ~open[c]
    /\ writing' = [writing EXCEPT ![c] = FALSE]
    /\ conn' = [conn EXCEPT ![c] = "closed"]
    /\ WriterUnchanged
    /\ UNCHANGED <<chan, written>>

\* Mutant: the loop leaves the connection alone when it ends.
StopWritingOnly(c) ==
    /\ ~crashed /\ writing[c]
    /\ chan[c] = <<>> /\ ~open[c]
    /\ writing' = [writing EXCEPT ![c] = FALSE]
    /\ WriterUnchanged
    /\ UNCHANGED <<chan, written, conn>>

\* The channel is closed and empty: the loop ends and closes the connection.
StopWriting(c) ==
    /\ ~crashed /\ writing[c]
    /\ chan[c] = <<>> /\ ~open[c]
    /\ writing' = [writing EXCEPT ![c] = FALSE]
    /\ conn' = [conn EXCEPT ![c] = "closed"]
    /\ WriterUnchanged
    /\ UNCHANGED <<chan, written>>

-----------------------------------------------------------------------------
(* joinRoom *)

JoinUnchanged == UNCHANGED <<victim, owner, sockVars, sent, crashed>>

\* The host of the moment, if it is there, is asked.
Ask(c) ==
    /\ At(c, "new") /\ lock = None
    /\ Call(c, Notice("join_request"), members \cap {host}, "waiting")
    /\ JoinUnchanged
    /\ UNCHANGED <<roomVars, chan, open, excused>>

\* The newcomer is entered, and the others are told once Room.mu is released.
Join(c) ==
    /\ At(c, "waiting") /\ lock = None
    /\ host \in members
    /\ members' = members \cup {c}
    /\ Call(c, Notice("peer_joined"), members, "joined")
    /\ JoinUnchanged
    /\ UNCHANGED <<host, lock, chan, open, excused>>

StartReading(c) ==
    /\ At(c, "joined")
    /\ pc' = [pc EXCEPT ![c] = "reading"]
    /\ JoinUnchanged
    /\ UNCHANGED <<call, roomVars, chan, open, excused>>

\* Or it is told that it was refused, its queue is shut down, and handleSocket
\* returns.  Nobody else knows the queue yet.
RejectJoin(c) ==
    /\ At(c, "waiting") /\ lock = None
    /\ chan' = [chan EXCEPT ![c] = Append(@, Notice("join_rejected"))]
    /\ open' = [open EXCEPT ![c] = FALSE]
    /\ pc' = [pc EXCEPT ![c] = "refused"]
    /\ JoinUnchanged
    /\ UNCHANGED <<call, roomVars, excused>>

-----------------------------------------------------------------------------
(* readLoop *)

MaySend == MapThenSumSet(LAMBDA c : sent[c], Clients) < MaxSends

ReadUnchanged == UNCHANGED <<owner, sockVars, crashed>>

\* Mutant: every message is passed on by a goroutine of its own, which a later
\* one may overtake.
RelayAsync(c) ==
    /\ pc[c] = "reading" /\ call[c].to = None /\ ~crashed
    /\ conn[c] = "up" /\ lock = None
    /\ MaySend
    /\ sent' = [sent EXCEPT ![c] = @ + 1]
    /\ \E n \in 1..MaxSends : Call(c, Env("relay", c, n), members \ {c}, "reading")
    /\ ReadUnchanged
    /\ UNCHANGED <<victim, roomVars, chan, open, excused>>

\* A message that is passed on to the other members, or to the one it names.
Relay(c) ==
    /\ At(c, "reading") /\ conn[c] = "up" /\ lock = None
    /\ MaySend
    /\ sent' = [sent EXCEPT ![c] = @ + 1]
    /\ \E type \in {"relay", "presence"}, targets \in {members \ {c}} \cup {{m} : m \in members} :
        Call(c, Env(type, c, sent[c] + 1), targets, "reading")
    /\ ReadUnchanged
    /\ UNCHANGED <<victim, roomVars, chan, open, excused>>

\* A doc_update is passed on, and starts a job.
DocUpdate(c, j) ==
    /\ pc[j] = "idle"
    /\ At(c, "reading") /\ conn[c] = "up" /\ lock = None
    /\ MaySend
    /\ sent' = [sent EXCEPT ![c] = @ + 1]
    /\ pc' = [pc EXCEPT ![j] = "storing"]
    /\ owner' = [owner EXCEPT ![j] = c]
    /\ call' = [call EXCEPT ![c] = Serving(Env("relay", c, sent[c] + 1), members \ {c})]
    /\ UNCHANGED <<victim, roomVars, chan, open, sockVars, crashed, excused>>

\* peer_kick: tell the member, shut its queue down, delete it, tell the others.
Kick(c, t) ==
    /\ At(c, "reading") /\ conn[c] = "up" /\ lock = None
    /\ c = host /\ t \in members
    /\ MaySend
    /\ sent' = [sent EXCEPT ![c] = @ + 1]
    /\ victim' = [victim EXCEPT ![c] = t]
    /\ Call(c, Notice("peer_kicked"), {t}, "kicking")
    /\ ReadUnchanged
    /\ UNCHANGED <<roomVars, chan, open, excused>>

KickShutdown(c) ==
    /\ At(c, "kicking")
    /\ open' = [open EXCEPT ![victim[c]] = FALSE]
    /\ pc' = [pc EXCEPT ![c] = "deleting"]
    /\ ReadUnchanged
    /\ UNCHANGED <<call, victim, roomVars, chan, sent, excused>>

\* (The lock is released before the broadcast takes it again to read; what
\* another goroutine does in between is as if it had been done before.)
KickDelete(c) ==
    /\ At(c, "deleting") /\ lock = None
    /\ members' = members \ {victim[c]}
    /\ victim' = [victim EXCEPT ![c] = None]
    /\ Call(c, Notice("peer_left"), members \ {victim[c]}, "reading")
    /\ ReadUnchanged
    /\ UNCHANGED <<host, lock, chan, open, sent, excused>>

\* The peer goes, or stays silent, or sends too much: the loop ends although the
\* connection is up ...
Quit(c) ==
    /\ c \in Unsteady
    /\ At(c, "reading") /\ conn[c] = "up"
    /\ pc' = [pc EXCEPT ![c] = "leaving"]
    /\ open' = [open EXCEPT ![c] = FALSE]
    /\ excused' = excused \cup {c}
    /\ ReadUnchanged
    /\ UNCHANGED <<call, victim, roomVars, chan, sent>>

\* ... or because it is not.  leaveRoom begins with a shutdown.
ReadFails(c) ==
    /\ At(c, "reading") /\ conn[c] # "up"
    /\ pc' = [pc EXCEPT ![c] = "leaving"]
    /\ open' = [open EXCEPT ![c] = FALSE]
    /\ ReadUnchanged
    /\ UNCHANGED <<call, victim, roomVars, chan, sent, excused>>

-----------------------------------------------------------------------------
(* leaveRoom *)

LeaveUnchanged == UNCHANGED <<victim, owner, chan, open, sent, crashed, excused>>

\* A member that is not the host, or the last one, just goes.
Leave(c) ==
    /\ At(c, "leaving") /\ lock = None
    /\ c # host \/ members \subseteq {c}
    /\ members' = members \ {c}
    /\ Call(c, Notice("peer_left"), IF c \in members THEN members \ {c} ELSE {}, "returning")
    /\ LeaveUnchanged
    /\ UNCHANGED <<host, lock, sockVars>>

\* Mutant: the lock is not released before the others are told of the departure.
HandOverDone(c) ==
    /\ At(c, "handing")
    /\ Call(c, Notice("peer_left"), members, "returning")
    /\ LeaveUnchanged
    /\ UNCHANGED <<roomVars, sockVars>>

\* The host hands over, with Room.mu locked until everybody has been told.
\* (A host that was kicked is no member any more and hands over to nobody.)
HandOver(c) ==
    /\ At(c, "leaving") /\ lock = None
    /\ c = host /\ c \in members /\ members # {c}
    /\ members' = members \ {c}
    /\ host' \in members'
    /\ lock' = c
    /\ Call(c, Notice("host_changed"), members', "handing")
    /\ LeaveUnchanged
    /\ UNCHANGED sockVars

LeaveKicked(c) ==
    /\ At(c, "leaving") /\ lock = None
    /\ c = host /\ c \notin members /\ members # {}
    /\ pc' = [pc EXCEPT ![c] = "returning"]
    /\ LeaveUnchanged
    /\ UNCHANGED <<call, roomVars, sockVars>>

HandedOver(c) ==
    /\ At(c, "handing")
    /\ lock' = None
    /\ Call(c, Notice("peer_left"), members, "returning")
    /\ LeaveUnchanged
    /\ UNCHANGED <<members, host, sockVars>>

\* handleSocket returns, and its deferred Close closes the connection.
HangUp(c) ==
    /\ At(c, "returning") \/ At(c, "refused")
    /\ conn' = [conn EXCEPT ![c] = "closed"]
    /\ pc' = [pc EXCEPT ![c] = IF @ = "refused" THEN "outside" ELSE "done"]
    /\ LeaveUnchanged
    /\ UNCHANGED <<call, roomVars, writing, written>>

-----------------------------------------------------------------------------
(* The jobs of doc_update *)

JobUnchanged == UNCHANGED <<victim, owner, roomVars, chan, open, sockVars, sent, crashed, excused>>

\* The write is refused (the serializer, the limit), or it fails: the sender is
\* told, and after a failure everybody is asked to synchronise.
RefuseUpdate(j) ==
    /\ At(j, "storing")
    /\ \E label \in {"failed", "done"} :
        Call(j, Notice("doc_update_rejected"), {owner[j]}, label)
    /\ JobUnchanged

broadcastSyncRequest(j) ==
    /\ At(j, "failed") /\ lock = None
    /\ Call(j, Notice("sync_request"), members, "done")
    /\ JobUnchanged

\* It succeeds, and maybeAutoCompact asks the host for a snapshot, or does not.
StoreUpdate(j) ==
    /\ At(j, "storing") /\ lock = None
    /\ \E targets \in {{}, members \cap {host}} :
        Call(j, Notice("compaction_request"), targets, "done")
    /\ JobUnchanged

-----------------------------------------------------------------------------
\* The network breaks a connection.
Break(c) ==
    /\ c \in Unsteady /\ ~crashed
    /\ conn[c] = "up"
    /\ conn' = [conn EXCEPT ![c] = "broken"]
    /\ excused' = excused \cup {c}
    /\ UNCHANGED <<pc, call, victim, owner, roomVars, chan, open, writing, written, sent, crashed>>

Init ==
    /\ pc = [g \in Goroutines |-> IF g \in Jobs THEN "idle"
                                  ELSE IF g \in Founders THEN "reading" ELSE "new"]
    /\ call = [g \in Goroutines |-> Quiet]
    /\ victim = [c \in Clients |-> None]
    /\ owner = [j \in Jobs |-> None]
    /\ members = Founders
    /\ host = Hosting
    /\ lock = None
    /\ chan = [c \in Clients |-> <<>>]
    /\ open = [c \in Clients |-> TRUE]
    /\ writing = [c \in Clients |-> TRUE]
    /\ conn = [c \in Clients |-> "up"]
    /\ written = [c \in Clients |-> <<>>]
    /\ sent = [c \in Clients |-> 0]
    /\ crashed = FALSE
    /\ excused = {}

queue(g)     == Test(g) \/ Put(g) \/ Full(g) \/ GiveUp(g) \/ Panic(g)
writeLoop(c) == Write(c) \/ WriteFails(c) \/ StopWriting(c)
leaveRoom(c) == Leave(c) \/ HandOver(c) \/ HandedOver(c) \/ LeaveKicked(c) \/ HangUp(c)

Next ==
    \/ \E g \in Goroutines : queue(g)
    \/ \E c \in Clients :
        \/ writeLoop(c) \/ leaveRoom(c) \/ Break(c)
        \/ Ask(c) \/ Join(c) \/ StartReading(c) \/ RejectJoin(c)
        \/ Relay(c) \/ Quit(c) \/ ReadFails(c)
        \/ \E t \in Clients : Kick(c, t)
        \/ KickShutdown(c) \/ KickDelete(c)
        \/ \E j \in Jobs : DocUpdate(c, j)
    \/ \E j \in Jobs : RefuseUpdate(j) \/ broadcastSyncRequest(j) \/ StoreUpdate(j)

Spec == Init /\ [][Next]_vars

\* A goroutine that can go on does so; the library's reader notices a
\* connection that is gone.  Nobody is forced to send, to quit or to decide.
FairSpec ==
    /\ Spec
    /\ \A g \in Goroutines : WF_vars(queue(g))
    /\ \A c \in Clients :
        /\ WF_vars(writeLoop(c))
        /\ WF_vars(leaveRoom(c) \/ StartReading(c) \/ ReadFails(c) \/ KickShutdown(c) \/ KickDelete(c))

-----------------------------------------------------------------------------
(* Properties *)

Labels == {"new", "waiting", "joined", "reading", "kicking", "deleting", "leaving", "handing",
           "returning", "refused", "outside", "idle", "storing", "failed", "done", "dead"}

Envelopes == [type : Types, from : Clients \cup {None}, n : Nat]

Calls == [env : Envelopes, todo : SUBSET Clients, to : Clients \cup {None}, blocked : BOOLEAN]

\* Every variable has its type, and no channel holds more than its capacity.
TypeOK ==
    /\ pc \in [Goroutines -> Labels]
    /\ call \in [Goroutines -> Calls]
    /\ victim \in [Clients -> Clients \cup {None}]
    /\ owner \in [Jobs -> Clients \cup {None}]
    /\ members \subseteq Clients
    /\ host \in Clients
    /\ lock \in Clients \cup {None}
    /\ chan \in [Clients -> Seq(Envelopes)]
    /\ \A c \in Clients : Len(chan[c]) <= Capacity
    /\ open \in [Clients -> BOOLEAN]
    /\ writing \in [Clients -> BOOLEAN]
    /\ conn \in [Clients -> {"up", "broken", "closed"}]
    /\ written \in [Clients -> Seq(Envelopes)]
    /\ sent \in [Clients -> Nat]
    /\ crashed \in BOOLEAN
    /\ excused \subseteq Clients

Received(c) == written[c] \o chan[c]

\* Nobody gets the messages of one sender out of order, or twice, although
\* queue blocks, gives up and drops: CRDT updates and chat keep their order.
SenderOrder ==
    \A c \in Clients : LET s == Received(c) IN
        \A i, k \in 1..Len(s) :
            i < k /\ s[i].from # None /\ s[i].from = s[k].from => s[i].n < s[k].n

\* What was written to the socket of c.
Told(c, type) == \E i \in 1..Len(written[c]) : written[c][i].type = type

\* A member that is kicked gets peer_kicked before it is disconnected, unless it
\* broke, quit or panicked itself or let the notice wait too long.
KickedIsTold ==
    \A t \in Clients \ excused : pc[t] \in {"done", "dead"} => Told(t, "peer_kicked")

\* Room.mu is held over calls of queue by one connection at most, whose host_changed
\* is going out, and names a member for as long as it does; it is released with
\* the last call, unless that goroutine panics with the lock in its hand.
HandOverHolds ==
    /\ \A c \in Clients : pc[c] = "handing" => lock = c
    /\ lock # None =>
        /\ pc[lock] = "handing" \/ (pc[lock] = "dead" /\ lock \in excused)
        /\ host \in members \ {lock}

\* Room.mu is held over calls of queue by a host that hands over, or for ever by
\* one that panicked.
Jammed == lock # None /\ pc[lock] = "dead"

\* A queue that has been shut down is drained or fails, and then the connection
\* is closed, whatever becomes of the locks.
ShutdownCloses == \A c \in Clients : (~open[c]) ~> (conn[c] = "closed" \/ crashed)

\* Whoever has left readLoop leaves the room: no full queue, broken connection
\* or stuck writer keeps it, or the lock it takes, for ever.
DepartureCompletes ==
    \A c \in Clients : (pc[c] = "leaving") ~> (pc[c] \in {"done", "dead"} \/ Jammed \/ crashed)

\* No send meets a closed channel.
QueueSafe == \A g \in Goroutines : call[g].to # None => open[call[g].to]

\* Whoever is refused gets join_rejected before it is disconnected, as long as
\* the network carries it.
RefusedIsTold ==
    \A c \in Clients \ excused :
        pc[c] = "outside" /\ ~writing[c] => Told(c, "join_rejected")
=============================================================================
