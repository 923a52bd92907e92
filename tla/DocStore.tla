------------------------------ MODULE DocStore ------------------------------
(***************************************************************************)
(* How the document of one room is persisted.  Every doc_update and every  *)
(* doc_snapshot message starts a goroutine (here: a job) that takes the    *)
(* room's write serializer, checks the room's storage and writes to        *)
(* SQLite; a connection that joins loads the document with two queries.    *)
(*                                                                         *)
(* A document is the set of updates applied to it: Yjs updates commute and *)
(* are idempotent.  An update's row is identified by its seq, so the table *)
(* room_updates is the set of seqs present, and written, a history         *)
(* variable, says which update was given which seq.                        *)
(***************************************************************************)
EXTENDS Naturals, Sequences, FiniteSets

CONSTANTS
    Updates,       \* doc_update messages, each sent once
    Snapshots,     \* doc_snapshot messages, each sent once
    Joiners,       \* connections that load the document and join
    None,
    Size,          \* Size[j]: the bytes of a message
    MaxStorage,    \* Hub.roomMaxStorageBytes
    Faults         \* may queries fail and the process crash?

Jobs == Updates \cup Snapshots

ASSUME DocAssumption ==
    /\ IsFiniteSet(Jobs)
    /\ Updates \cap Snapshots = {}
    /\ None \notin Jobs
    /\ Size \in [Jobs -> Nat]
    /\ \A u \in Updates : Size[u] > 0
    /\ MaxStorage \in Nat
    /\ Faults \in BOOLEAN

VARIABLES
    step,        \* step[j]: where the goroutine of j is
    base,        \* base[s]: the baseSeq a snapshot claims to cover
    content,     \* content[s]: the updates in a snapshot's state
    serializer,  \* Hub.roomSerializers: the room's channel, named after the job that made it
    channel,     \* channel[j]: the channel j waits for or holds
    holder,      \* holder[ch]: the job whose token is in the channel
    compact,     \* rooms.compact_state
    rows,        \* the seqs in room_updates
    written,     \* the update given each seq; rooms.update_seq is its length
    bytes,       \* rooms.storage_bytes
    count,       \* rooms.update_count
    compactSize, \* the length of compact_state
    closedAt,    \* rooms.closed_at is set
    joining,     \* joining[m]: where a joiner is in LoadRoomState and joinRoom
    doc,         \* doc[m]: the updates a joiner has been sent
    expected,    \* expected[m]: history, what was stored when m began to load
    torn,        \* torn[m]: history, a snapshot was saved while m was loading
    excuses      \* history: what has happened that voids a guarantee

jobVars    == <<step, base, content>>
serialVars == <<serializer, channel, holder>>
rowVars    == <<compact, rows, written, bytes, count, compactSize>>
joinVars   == <<joining, doc, expected, torn>>
vars       == <<jobVars, serialVars, rowVars, closedAt, joinVars, excuses>>

-----------------------------------------------------------------------------
(* The document *)

ToSet(s) == {s[i] : i \in 1..Len(s)}

\* The updates a reader of both tables gets.
Recoverable == compact \cup {written[i] : i \in rows}

\* The bytes in row i, each with its place.
RowBytes(i) == {i} \X (1..Size[written[i]])

\* The bytes the room really occupies.
Occupied == compactSize + Cardinality(UNION {RowBytes(i) : i \in rows})

\* The updates members may know of.
Sent == {u \in Updates : step[u] # "idle"}

Ended == {"stored", "refused", "lost"}

Step(j, label) == step' = [step EXCEPT ![j] = label]

-----------------------------------------------------------------------------
(* Messages *)

\* A doc_update: its goroutine starts, and it is relayed to the members at once,
\* whatever becomes of the write.
SendUpdate(u) ==
    /\ step[u] = "idle"
    /\ Step(u, "started")
    /\ doc' = [m \in Joiners |-> IF joining[m] = "member" THEN doc[m] \cup {u} ELSE doc[m]]
    /\ UNCHANGED <<base, content, serialVars, rowVars, closedAt, joining, expected, torn, excuses>>

\* A doc_snapshot: a member merges what has been written up to some seq, which
\* it sends as baseSeq, and may have more by relay.  An old client, or one that
\* has seen no seq yet, sends none: baseSeq is 0.
SendSnapshot(s, b, more) ==
    /\ step[s] = "idle"
    /\ Step(s, "started")
    /\ base' = [base EXCEPT ![s] = b]
    /\ content' = [content EXCEPT ![s] = {written[i] : i \in 1..b} \cup more]
    /\ UNCHANGED <<serialVars, rowVars, closedAt, joinVars, excuses>>

-----------------------------------------------------------------------------
(* The write serializer *)

\* Mutant: every job makes a channel of its own.
FindOwnSerializer(j) ==
    /\ step[j] = "started"
    /\ serializer' = j
    /\ channel' = [channel EXCEPT ![j] = j]
    /\ Step(j, "waiting")
    /\ UNCHANGED <<base, content, holder, rowVars, closedAt, joinVars, excuses>>

\* roomSerializer: find the room's channel, or make one.  (The test of ctx that
\* precedes it never ends the job: nothing cancels a client's context.)
FindSerializer(j) ==
    /\ step[j] = "started"
    /\ serializer' = IF serializer = None THEN j ELSE serializer
    /\ channel' = [channel EXCEPT ![j] = serializer']
    /\ Step(j, "waiting")
    /\ UNCHANGED <<base, content, holder, rowVars, closedAt, joinVars, excuses>>

\* acquireRoomWrite: a token in the channel, or five seconds without.
Acquire(j) ==
    /\ step[j] = "waiting"
    /\ holder[channel[j]] = None
    /\ holder' = [holder EXCEPT ![channel[j]] = j]
    /\ Step(j, "holding")
    /\ UNCHANGED <<base, content, serializer, channel, rowVars, closedAt, joinVars, excuses>>

AcquireTimeout(j) ==
    /\ step[j] = "waiting"
    /\ holder[channel[j]] # None
    /\ Step(j, "refused")
    /\ UNCHANGED <<base, content, serialVars, rowVars, closedAt, joinVars, excuses>>

\* The deferred releaseRoomWrite, as the goroutine ends.
Finish(j, label) ==
    /\ holder' = [holder EXCEPT ![channel[j]] = None]
    /\ Step(j, label)
    /\ UNCHANGED <<base, content, serializer, channel>>

\* leaveRoom, once the room is empty: the hub forgets the channel, whoever
\* holds it or waits for it.
DropSerializer ==
    /\ serializer # None
    /\ serializer' = None
    /\ excuses' = excuses \cup {"emptied"}
    /\ UNCHANGED <<jobVars, channel, holder, rowVars, closedAt, joinVars>>

-----------------------------------------------------------------------------
(* The write itself *)

\* Mutant: the message's own length is not counted.
CheckStorageOnly(j) ==
    /\ step[j] = "holding"
    /\ bytes <= MaxStorage
    /\ Step(j, "checked")
    /\ UNCHANGED <<base, content, serialVars, rowVars, closedAt, joinVars, excuses>>

\* RoomStorageBytes; a query that fails is taken for room enough.
CheckStorage(j) ==
    /\ step[j] = "holding"
    /\ bytes + Size[j] <= MaxStorage
    /\ Step(j, "checked")
    /\ UNCHANGED <<base, content, serialVars, rowVars, closedAt, joinVars, excuses>>

CheckFails(j) ==
    /\ Faults
    /\ step[j] = "holding"
    /\ Step(j, "checked")
    /\ excuses' = excuses \cup {"unchecked"}
    /\ UNCHANGED <<base, content, serialVars, rowVars, closedAt, joinVars>>

StorageFull(j) ==
    /\ step[j] = "holding"
    /\ bytes + Size[j] > MaxStorage
    /\ Finish(j, "refused")
    /\ UNCHANGED <<rowVars, closedAt, joinVars, excuses>>

\* Mutant: the seq is read after update_seq has been advanced.
AppendUpdateSkipping(u) ==
    /\ step[u] = "checked"
    /\ ~closedAt
    /\ written' = Append(written, u)
    /\ rows' = rows \cup {Len(written) + 2}
    /\ bytes' = bytes + Size[u]
    /\ count' = count + 1
    /\ Finish(u, "stored")
    /\ UNCHANGED <<compact, compactSize, closedAt, joinVars, excuses>>

\* AppendUpdate, one transaction: the next seq, the row and the counters.
AppendUpdate(u) ==
    /\ step[u] = "checked"
    /\ ~closedAt
    /\ written' = Append(written, u)
    /\ rows' = rows \cup {Len(written) + 1}
    /\ bytes' = bytes + Size[u]
    /\ count' = count + 1
    /\ Finish(u, "stored")
    /\ UNCHANGED <<compact, compactSize, closedAt, joinVars, excuses>>

\* What a client may get wrong about a snapshot: it has no base, or it lacks
\* what an earlier snapshot had covered.
Excuses(s) ==
    {e \in {"unbased", "regressed"} :
        \/ e = "unbased" /\ base[s] = 0
        \/ e = "regressed" /\ ~ compact \subseteq content[s]}

\* Mutant: every row is deleted, whatever the snapshot covers.
SaveSnapshotOfAll(s) ==
    /\ step[s] = "checked"
    /\ ~closedAt
    /\ compact' = content[s]
    /\ compactSize' = Size[s]
    /\ bytes' = Size[s]
    /\ count' = 0
    /\ rows' = {}
    /\ torn' = [m \in Joiners |-> torn[m] \/ joining[m] = "loading"]
    /\ excuses' = excuses \cup Excuses(s)
    /\ Finish(s, "stored")
    /\ UNCHANGED <<written, closedAt, joining, doc, expected>>

\* Mutant: the counters are not restarted.
SaveSnapshotAdding(s) ==
    /\ step[s] = "checked"
    /\ ~closedAt
    /\ compact' = content[s]
    /\ compactSize' = Size[s]
    /\ bytes' = bytes + Size[s]
    /\ rows' = IF base[s] > 0 THEN {i \in rows : i > base[s]} ELSE {}
    /\ torn' = [m \in Joiners |-> torn[m] \/ joining[m] = "loading"]
    /\ excuses' = excuses \cup Excuses(s)
    /\ Finish(s, "stored")
    /\ UNCHANGED <<written, count, closedAt, joining, doc, expected>>

\* SaveSnapshot, one transaction: the state replaces compact_state, the counters
\* restart from it, and the rows it covers are deleted; baseSeq 0 means all rows.
SaveSnapshot(s) ==
    /\ step[s] = "checked"
    /\ ~closedAt
    /\ compact' = content[s]
    /\ compactSize' = Size[s]
    /\ bytes' = Size[s]
    /\ count' = 0
    /\ rows' = IF base[s] > 0 THEN {i \in rows : i > base[s]} ELSE {}
    /\ torn' = [m \in Joiners |-> torn[m] \/ joining[m] = "loading"]
    /\ excuses' = excuses \cup Excuses(s)
    /\ Finish(s, "stored")
    /\ UNCHANGED <<written, closedAt, joining, doc, expected>>

\* The room is closed or the transaction fails: the sender of an update is told.
WriteFails(j) ==
    /\ step[j] = "checked"
    /\ closedAt \/ Faults
    /\ Finish(j, "refused")
    /\ UNCHANGED <<rowVars, closedAt, joinVars, excuses>>

-----------------------------------------------------------------------------
(* Joining: LoadRoomState, then joinRoom *)

\* The first query reads compact_state ...
LoadCompact(m) ==
    /\ joining[m] = "out"
    /\ ~closedAt
    /\ joining' = [joining EXCEPT ![m] = "loading"]
    /\ doc' = [doc EXCEPT ![m] = compact]
    /\ expected' = [expected EXCEPT ![m] = Recoverable]
    /\ UNCHANGED <<jobVars, serialVars, rowVars, closedAt, torn, excuses>>

\* Mutant: the rows replace the compact state instead of extending it.
LoadRowsOnly(m) ==
    /\ joining[m] = "loading"
    /\ joining' = [joining EXCEPT ![m] = "loaded"]
    /\ doc' = [doc EXCEPT ![m] = {written[i] : i \in rows}]
    /\ UNCHANGED <<jobVars, serialVars, rowVars, closedAt, expected, torn, excuses>>

\* ... and the second, not in one transaction with it, the rows.
LoadRows(m) ==
    /\ joining[m] = "loading"
    /\ joining' = [joining EXCEPT ![m] = "loaded"]
    /\ doc' = [doc EXCEPT ![m] = @ \cup {written[i] : i \in rows}]
    /\ UNCHANGED <<jobVars, serialVars, rowVars, closedAt, expected, torn, excuses>>

\* The host approves: auth_ok carries what was loaded, relays follow.
BecomeMember(m) ==
    /\ joining[m] = "loaded"
    /\ joining' = [joining EXCEPT ![m] = "member"]
    /\ UNCHANGED <<jobVars, serialVars, rowVars, closedAt, doc, expected, torn, excuses>>

-----------------------------------------------------------------------------
(* The room closes; the process crashes *)

CloseRoom ==
    /\ ~closedAt
    /\ closedAt' = TRUE
    /\ UNCHANGED <<jobVars, serialVars, rowVars, joinVars, excuses>>

Crash ==
    /\ Faults
    /\ \E j \in Jobs : step[j] \notin Ended \cup {"idle"}
    /\ step' = [j \in Jobs |-> IF step[j] \in Ended \cup {"idle"} THEN step[j] ELSE "lost"]
    /\ serializer' = None
    /\ channel' = [j \in Jobs |-> None]
    /\ holder' = [j \in Jobs |-> None]
    /\ joining' = [m \in Joiners |-> IF joining[m] = "out" THEN "out" ELSE "gone"]
    /\ UNCHANGED <<base, content, rowVars, closedAt, doc, expected, torn, excuses>>

-----------------------------------------------------------------------------
Init ==
    /\ step = [j \in Jobs |-> "idle"]
    /\ base = [s \in Snapshots |-> 0]
    /\ content = [s \in Snapshots |-> {}]
    /\ serializer = None
    /\ channel = [j \in Jobs |-> None]
    /\ holder = [j \in Jobs |-> None]
    /\ compact = {}
    /\ rows = {}
    /\ written = <<>>
    /\ bytes = 0
    /\ count = 0
    /\ compactSize = 0
    /\ closedAt = FALSE
    /\ joining = [m \in Joiners |-> "out"]
    /\ doc = [m \in Joiners |-> {}]
    /\ expected = [m \in Joiners |-> {}]
    /\ torn = [m \in Joiners |-> FALSE]
    /\ excuses = {}

Write(j) ==
    \/ FindSerializer(j) \/ Acquire(j) \/ AcquireTimeout(j)
    \/ CheckStorage(j) \/ CheckFails(j) \/ StorageFull(j)
    \/ WriteFails(j)

Next ==
    \/ \E j \in Jobs : Write(j)
    \/ \E u \in Updates : SendUpdate(u) \/ AppendUpdate(u)
    \/ \E s \in Snapshots :
        \/ \E b \in 0..Len(written), more \in {{}, Sent} : SendSnapshot(s, b, more)
        \/ SaveSnapshot(s)
    \/ \E m \in Joiners : LoadCompact(m) \/ LoadRows(m) \/ BecomeMember(m)
    \/ DropSerializer \/ CloseRoom \/ Crash

Spec == Init /\ [][Next]_vars

-----------------------------------------------------------------------------
(* Properties *)

Steps == {"idle", "started", "waiting", "holding", "checked"} \cup Ended

Writing(j) == step[j] \in {"holding", "checked"}

\* Every variable has its type, and every row has been given an update.
TypeOK ==
    /\ step \in [Jobs -> Steps]
    /\ base \in [Snapshots -> Nat]
    /\ content \in [Snapshots -> SUBSET Updates]
    /\ serializer \in Jobs \cup {None}
    /\ channel \in [Jobs -> Jobs \cup {None}]
    /\ holder \in [Jobs -> Jobs \cup {None}]
    /\ compact \subseteq Updates
    /\ written \in Seq(Updates)
    /\ rows \subseteq 1..Len(written)
    /\ bytes \in Nat /\ count \in Nat /\ compactSize \in Nat
    /\ closedAt \in BOOLEAN
    /\ joining \in [Joiners -> {"out", "loading", "loaded", "member", "gone"}]
    /\ doc \in [Joiners -> SUBSET Updates]
    /\ expected \in [Joiners -> SUBSET Updates]
    /\ torn \in [Joiners -> BOOLEAN]
    /\ excuses \subseteq {"emptied", "unchecked", "unbased", "regressed"}

\* An update that has been persisted can be loaded ever after, as long as
\* clients send every snapshot with its base and none that lacks what an earlier
\* one covered: SaveSnapshot, however it interleaves with appends, with a room
\* that empties and fills again or with a crash, deletes covered rows only.
Durable ==
    excuses \cap {"unbased", "regressed"} = {} => ToSet(written) \subseteq Recoverable

\* As long as the room has not emptied, the writes of the room exclude each
\* other from the storage check to the end of the transaction.
WritesExclusive ==
    "emptied" \notin excuses =>
        \A j, k \in Jobs : Writing(j) /\ Writing(k) => j = k

\* ... and so the storage check bounds the counter it reads: no interleaving of
\* check and write takes the room over its limit.
LimitKept == excuses \cap {"emptied", "unchecked"} = {} => bytes <= MaxStorage

\* storage_bytes and update_count never exceed what they count, so a room is
\* never refused a write, or asked for compaction, because of rows it lost.
CountersSound == bytes <= Occupied /\ count <= Cardinality(rows)

\* Unless a snapshot is saved between its two queries, a load returns
\* everything that had been stored when it began.
LoadComplete ==
    \A m \in Joiners : joining[m] = "loaded" /\ ~torn[m] => expected[m] \subseteq doc[m]

\* A member has been sent every update that is stored.
MemberCurrent ==
    \A m \in Joiners : joining[m] = "member" => Recoverable \subseteq doc[m]

\* An update that has been persisted can be loaded ever after, provided only that
\* every snapshot has a base.
NothingLost == "unbased" \notin excuses => ToSet(written) \subseteq Recoverable
=============================================================================
