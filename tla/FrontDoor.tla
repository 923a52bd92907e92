------------------------------ MODULE FrontDoor ------------------------------
(***************************************************************************)
(* What a request meets before it reaches a room: the resolution of the    *)
(* client's address (clientIP), the limits by address of POST /api/rooms,  *)
(* of the WebSocket upgrade and of STUN, the checks of the room form, and  *)
(* the limit on the messages of a connection.                              *)
(*                                                                         *)
(* A request has come a way: from an origin, through the proxies via, the  *)
(* last of which is the TCP peer (the origin itself if there are none).    *)
(* Every proxy appends the address it was called from to X-Forwarded-For,  *)
(* after whatever the origin claimed.  A key of RateLimit is a table and   *)
(* an address or, for messages, a connection.                              *)
(***************************************************************************)
EXTENDS RateLimit, StunMessage

CONSTANTS
    Addresses,
    Conns,               \* WebSocket connections, each opened once
    Ways,                \* the ways requests come: [origin, via, claimed]
    Junk,                \* a part of X-Forwarded-For that is no address
    TrustedProxies,      \* the entries of the list: [cidr : BOOLEAN, net]
    Forms,               \* bodies of POST /api/rooms: [json, server, host, app]
    AllowedServerHosts,
    Origins,             \* values of the header Origin; "" is none
    CORSOrigins, LoopbackOrigins, AllowLoopbackOrigins,
    Sources,             \* where datagrams come from: [addr, ip, port]
    Packets,             \* datagrams, records as in StunMessage
    MaxRequests          \* bound: the requests with an address, together

Tables == {"create", "ws", "stun"}

Hops(w) == <<w.origin>> \o w.via
Peer(w) == Hops(w)[Len(w.via) + 1]
ForwardedFor(w) ==
    IF w.via = <<>> THEN w.claimed
    ELSE w.claimed \o [i \in 1..Len(w.via) |-> Hops(w)[i]]

ASSUME FrontAssumption ==
    /\ Keys = (Tables \X Addresses) \cup ({"message"} \X Conns)
    /\ Junk \notin Addresses
    /\ Ways \subseteq [origin : Addresses, via : Seq(Addresses), claimed : Seq(Addresses \cup {Junk})]
    /\ \A s \in Sources : s.addr \in Addresses /\ s.port \in Words /\ None # s
                          /\ s.ip \in Seq(Words) /\ Len(s.ip) \in {4, 16}
    /\ \A p \in Packets : p.tid \in Seq(Words) /\ Len(p.tid) = 12
    /\ MaxRequests \in Nat
    /\ CookiePort \in Words /\ Cookie \in Seq(Words)

\* rateBurst: a full bucket pays for a message.
ASSUME BurstAssumption == \A c \in Conns : Cost[<<"message", c>>] <= Cap[<<"message", c>>]

rateLimitMaxConsecutiveViolations == 3

VARIABLES
    conn,       \* conn[c]: "new", "open", or "cut" for flooding
    strikes,    \* strikes[c]: Client.msgViolations
    rooms,      \* rooms[k]: rows of rooms made for an address, through a table
    links,      \* the hosts of the links that have been handed out
    sweep,      \* None, or the cutoff with which cleanupIPLimiters is at work
    answer,     \* None, or the last STUN answer and what it answers
    asked,      \* the requests with an address so far
    due,        \* history, due[k]: what the way of the requests says k has spent
    refusals    \* history, refusals[c]: when its last messages were refused

doorVars == <<conn, strikes, rooms, links, sweep, answer, asked, due, refusals>>
vars     == <<limitVars, doorVars>>

-----------------------------------------------------------------------------
(* Client addresses *)

\* isTrustedProxy: an entry that does not parse as a network is skipped.
IsTrusted(a) == \E e \in TrustedProxies : e.cidr /\ a \in e.net

\* A trusted proxy does not invent an X-Forwarded-For of its own.
ASSUME ProxyAssumption == \A w \in Ways : IsTrusted(w.origin) => w.claimed = <<>>

\* The parts of X-Forwarded-For that are addresses of no trusted proxy.
Candidates(xff) == {i \in DOMAIN xff : xff[i] \in Addresses /\ ~IsTrusted(xff[i])}

\* Mutant: the leftmost address is taken.
LeftmostAddress(peer, xff) ==
    IF IsTrusted(peer) /\ Candidates(xff) # {}
    THEN xff[CHOOSE i \in Candidates(xff) : \A j \in Candidates(xff) : i <= j]
    ELSE peer

\* clientIP: the rightmost of them, but only a trusted proxy is believed.
ClientAddress(peer, xff) ==
    IF IsTrusted(peer) /\ Candidates(xff) # {}
    THEN xff[CHOOSE i \in Candidates(xff) : \A j \in Candidates(xff) : j <= i]
    ELSE peer

KeyOf(table, w) == <<table, ClientAddress(Peer(w), ForwardedFor(w))>>

\* Who should pay: of the hops of the way, the nearest that is no trusted proxy.
Responsible(w) ==
    LET strangers == {i \in 1..(Len(w.via) + 1) : ~IsTrusted(Hops(w)[i])}
    IN  IF strangers = {} THEN Peer(w)
        ELSE Hops(w)[CHOOSE i \in strangers : \A j \in strangers : j <= i]

\* Bound: a connection that is open talks alone, as what it says touches no
\* state that the requests with an address look at.
Alone == \A c \in Conns : conn[c] # "open"

Ask == Alone /\ asked < MaxRequests /\ asked' = asked + 1

\* The answer to a request over the limit changes nothing else.
TooMany(key) ==
    /\ Ask
    /\ Limited(key)
    /\ UNCHANGED <<conn, strikes, rooms, links, sweep, answer, due, refusals>>

Pay(key, a) ==
    /\ Ask
    /\ Allowed(key)
    /\ due' = [due EXCEPT ![<<key[1], a>>] = @ + Cost[<<key[1], a>>]]

-----------------------------------------------------------------------------
(* POST /api/rooms *)

\* isAllowedServerHost
HostAllowed(host) == AllowedServerHosts = {} \/ host \in AllowedServerHosts

\* Mutant: a white list that is not consulted.
HostIgnored(form) ==
    /\ form.json
    /\ form.server \in {"none", "http", "https"}
    /\ form.app \in {"none", "http", "https", "timenotes", "wails"}

\* The checks of handleCreateRoom, each of which answers 400.
Acceptable(form) ==
    /\ form.json
    /\ form.server \in {"none", "http", "https"}
    /\ form.server # "none" => HostAllowed(form.host)
    /\ form.app \in {"none", "http", "https", "timenotes", "wails"}

CreateLimited(w) ==
    /\ TooMany(KeyOf("create", w))

CreateRefused(w, form) ==
    /\ Pay(KeyOf("create", w), Responsible(w))
    /\ ~Acceptable(form)
    /\ UNCHANGED <<conn, strikes, rooms, links, sweep, answer, refusals>>

\* Mutant: the row is made before the limit is asked.
CreateUnpaid(w, form) ==
    /\ Ask
    /\ Acceptable(form)
    /\ rooms' = [rooms EXCEPT ![<<"create", Responsible(w)>>] = @ + 1]
    /\ links' = links \cup (IF form.server = "none" THEN {} ELSE {form.host})
    /\ UNCHANGED <<limitVars, conn, strikes, sweep, answer, due, refusals>>

\* EnsureRoom fails, which answers 500.
CreateFails(w, form) ==
    /\ Pay(KeyOf("create", w), Responsible(w))
    /\ Acceptable(form)
    /\ UNCHANGED <<conn, strikes, rooms, links, sweep, answer, refusals>>

\* The row is there before the links to it are handed out.
CreateRoom(w, form) ==
    /\ Pay(KeyOf("create", w), Responsible(w))
    /\ Acceptable(form)
    /\ rooms' = [rooms EXCEPT ![<<"create", Responsible(w)>>] = @ + 1]
    /\ links' = links \cup (IF form.server = "none" THEN {} ELSE {form.host})
    /\ UNCHANGED <<conn, strikes, sweep, answer, refusals>>

-----------------------------------------------------------------------------
(* The WebSocket upgrade and the messages of a connection *)

\* allowOrigin
AllowOrigin(o) == o \in CORSOrigins \/ (AllowLoopbackOrigins /\ o \in LoopbackOrigins)

UpgradeForbidden(o) ==
    /\ o # "" /\ ~AllowOrigin(o)
    /\ UNCHANGED vars

UpgradeLimited(w, o) ==
    /\ o = "" \/ AllowOrigin(o)
    /\ TooMany(KeyOf("ws", w))

\* The first message authenticates, and makes the row of a room nobody has made;
\* the connection is kept if the room admits it.
Upgrade(w, o, c, fresh) ==
    /\ o = "" \/ AllowOrigin(o)
    /\ conn[c] = "new"
    /\ Pay(KeyOf("ws", w), Responsible(w))
    /\ conn' \in {conn, [conn EXCEPT ![c] = "open"]}
    /\ rooms' = [rooms EXCEPT ![<<"ws", Responsible(w)>>] = @ + (IF fresh THEN 1 ELSE 0)]
    /\ UNCHANGED <<strikes, links, sweep, answer, refusals>>

\* Mutant: an admitted message forgives nothing.
MessageUnforgiven(c) ==
    /\ conn[c] = "open"
    /\ Allowed(<<"message", c>>)
    /\ due' = [due EXCEPT ![<<"message", c>>] = @ + Cost[<<"message", c>>]]
    /\ UNCHANGED <<conn, strikes, rooms, links, sweep, answer, asked, refusals>>

Message(c) ==
    /\ conn[c] = "open"
    /\ Allowed(<<"message", c>>)
    /\ strikes' = [strikes EXCEPT ![c] = 0]
    /\ due' = [due EXCEPT ![<<"message", c>>] = @ + Cost[<<"message", c>>]]
    /\ UNCHANGED <<conn, rooms, links, sweep, answer, asked, refusals>>

Refused(c) ==
    /\ conn[c] = "open"
    /\ Limited(<<"message", c>>)
    /\ strikes' = [strikes EXCEPT ![c] = @ + 1]
    /\ refusals' = [refusals EXCEPT ![c] =
            SubSeq(<<now>> \o @, 1, IF Len(@) < 4 THEN Len(@) + 1 ELSE 4)]

MessageLimited(c) ==
    /\ Refused(c)
    /\ strikes'[c] <= rateLimitMaxConsecutiveViolations
    /\ UNCHANGED <<conn, rooms, links, sweep, answer, asked, due>>

\* readLoop returns, and the connection is closed.
MessageCutOff(c) ==
    /\ Refused(c)
    /\ strikes'[c] > rateLimitMaxConsecutiveViolations
    /\ conn' = [conn EXCEPT ![c] = "cut"]
    /\ UNCHANGED <<rooms, links, sweep, answer, asked, due>>

-----------------------------------------------------------------------------
(* STUN: a worker takes a datagram from the socket *)

StunLimited(s) ==
    /\ TooMany(<<"stun", s.addr>>)

StunIgnored(s, p) ==
    /\ Pay(<<"stun", s.addr>>, s.addr)
    /\ ~WellFormed(p)
    /\ UNCHANGED <<conn, strikes, rooms, links, sweep, answer, refusals>>

StunAnswered(s, p) ==
    /\ Pay(<<"stun", s.addr>>, s.addr)
    /\ WellFormed(p)
    /\ answer' = [source |-> s, packet |-> p, response |-> BindingResponse(p, s.ip, s.port)]
    /\ UNCHANGED <<conn, strikes, rooms, links, sweep, refusals>>

-----------------------------------------------------------------------------
(* The cleanups *)

UnusedBefore(table, cutoff) ==
    {k \in {table} \X Addresses : limiters[k] # None /\ limiters[k].lastUse + TTL[k] < cutoff}

\* cleanupIPLimiters takes one time for both tables and locks them in turn.
SweepCreate ==
    /\ sweep = None
    /\ Cleanup({"create"} \X Addresses)
    /\ sweep' = now
    /\ UNCHANGED <<conn, strikes, rooms, links, answer, asked, due, refusals>>

SweepWS ==
    /\ sweep # None
    /\ Cleanup(UnusedBefore("ws", sweep))
    /\ sweep' = None
    /\ UNCHANGED <<conn, strikes, rooms, links, answer, asked, due, refusals>>

\* cleanupLoop
SweepStun ==
    /\ Cleanup({"stun"} \X Addresses)
    /\ UNCHANGED doorVars

\* Abstraction: an answer reaches its client before the clock moves.
Pass == Tick /\ answer' = None /\ UNCHANGED <<conn, strikes, rooms, links, sweep, asked, due, refusals>>

-----------------------------------------------------------------------------
Init ==
    /\ LimitInit
    /\ conn = [c \in Conns |-> "new"]
    /\ strikes = [c \in Conns |-> 0]
    /\ rooms = [k \in Keys |-> 0]
    /\ links = {}
    /\ sweep = None
    /\ answer = None
    /\ asked = 0
    /\ due = [k \in Keys |-> 0]
    /\ refusals = [c \in Conns |-> <<>>]

Create == \E w \in Ways :
    \/ CreateLimited(w)
    \/ \E form \in Forms : CreateRefused(w, form) \/ CreateFails(w, form) \/ CreateRoom(w, form)

Connect == \E o \in Origins :
    \/ UpgradeForbidden(o)
    \/ \E w \in Ways :
        \/ UpgradeLimited(w, o)
        \/ \E c \in Conns, fresh \in BOOLEAN : Upgrade(w, o, c, fresh)

Talk == \E c \in Conns : Message(c) \/ MessageLimited(c) \/ MessageCutOff(c)

Stun == \E s \in Sources :
    \/ StunLimited(s)
    \/ \E p \in Packets : StunIgnored(s, p) \/ StunAnswered(s, p)

Next == Create \/ Connect \/ Talk \/ Stun \/ SweepCreate \/ SweepWS \/ SweepStun \/ Pass

Spec == Init /\ [][Next]_vars

-----------------------------------------------------------------------------
(* Properties *)

\* The types of the limiters and of the rest.
DoorTypeOK ==
    /\ LimitTypeOK
    /\ conn \in [Conns -> {"new", "open", "cut"}]
    /\ strikes \in [Conns -> 0..rateLimitMaxConsecutiveViolations + 1]
    /\ rooms \in [Keys -> Nat]
    /\ sweep \in Nat \cup {None}
    /\ due \in [Keys -> Nat]

\* Whatever the origin claims in X-Forwarded-For, a request is charged to the
\* nearest hop of its way that is no trusted proxy, and to nobody else: no one
\* pays for another and no one escapes paying (clientIP).
ResponsiblePays == spent = due

\* The rows an address makes, through the room form or through WebSocket
\* authentication, are bounded by its burst and what is refilled, whatever comes
\* of its requests (checkCreateRoomRateLimit, checkWSRateLimit).
RowsBounded == \A k \in Keys : rooms[k] * Cost[k] <= Cap[k] + now

\* A connection is cut only for a flood: its last four messages were refused
\* within less than the time it takes to refill one message (readLoop).
OnlyFloodsAreCut == \A c \in Conns :
    conn[c] = "cut" =>
        /\ Len(refusals[c]) = 4
        /\ refusals[c][1] - refusals[c][4] < Cost[<<"message", c>>]

\* No link was handed out to a host outside the white list (handleCreateRoom).
LinksAllowed == AllowedServerHosts # {} => links \subseteq AllowedServerHosts

\* A STUN answer tells the client the address the datagram came from.
StunTruthful ==
    answer # None =>
        Tells(answer.response, answer.packet, answer.source.ip, answer.source.port)
=============================================================================
