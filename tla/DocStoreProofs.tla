---------------------------- MODULE DocStoreProofs ----------------------------
(***************************************************************************)
(* Proofs about DocStore, for any number of messages, joiners and bytes.   *)
(***************************************************************************)
EXTENDS DocStore, FiniteSetTheorems, TLAPS

LEMMA JobsAndNone == None \notin Jobs /\ Updates \subseteq Jobs /\ Snapshots \subseteq Jobs
BY DocAssumption DEF Jobs

-----------------------------------------------------------------------------
(* What the invariants rest on *)

\* A job that waits has found a channel, and one that writes has its token,
\* whatever the hub knows of the channel.
Tokens == \A j \in Jobs :
    /\ step[j] \in {"waiting", "holding", "checked"} => channel[j] \in Jobs
    /\ Writing(j) => holder[channel[j]] = j

\* As long as the room has not emptied, every job uses the channel the hub has.
OneChannel == "emptied" \notin excuses =>
    \A j \in Jobs : step[j] \in {"waiting", "holding", "checked"} => channel[j] = serializer

\* What has passed the storage check fits.
Fitting == excuses \cap {"emptied", "unchecked"} = {} =>
    /\ bytes <= MaxStorage
    /\ \A j \in Jobs : step[j] = "checked" => bytes + Size[j] <= MaxStorage

\* A snapshot contains what it claims to cover.
Covering == \A s \in Snapshots :
    /\ base[s] <= Len(written)
    /\ \A i \in 1..base[s] : written[i] \in content[s]

\* What has been written is in a row or in compact_state.
Kept == excuses \cap {"unbased", "regressed"} = {} =>
    \A i \in 1..Len(written) : i \in rows \/ written[i] \in compact

\* What a load has not got from compact_state it will get from the rows.
Loading == \A m \in Joiners : ~torn[m] =>
    /\ joining[m] = "loading" => \A u \in expected[m] :
            u \in doc[m] \/ \E i \in rows : written[i] = u
    /\ joining[m] = "loaded" => expected[m] \subseteq doc[m]

\* The counters, and that what they count is finite.
Counting ==
    /\ IsFiniteSet(rows)
    /\ IsFiniteSet(UNION {RowBytes(i) : i \in rows})
    /\ CountersSound

-----------------------------------------------------------------------------
\* Every step keeps the types.
LEMMA TypesKept ==
    ASSUME TypeOK, [Next]_vars
    PROVE  TypeOK'
<1> USE JobsAndNone, DocAssumption DEF TypeOK, Steps, Ended
<1>1. ASSUME NEW j \in Jobs, FindSerializer(j)
      PROVE  TypeOK'
  BY <1>1 DEF FindSerializer, Step, jobVars, serialVars, rowVars, joinVars
<1>2. ASSUME NEW j \in Jobs, Acquire(j)
      PROVE  TypeOK'
  BY <1>2 DEF Acquire, Step, jobVars, serialVars, rowVars, joinVars
<1>3. ASSUME NEW j \in Jobs, AcquireTimeout(j)
      PROVE  TypeOK'
  BY <1>3 DEF AcquireTimeout, Step, jobVars, serialVars, rowVars, joinVars
<1>4. ASSUME NEW j \in Jobs, CheckStorage(j)
      PROVE  TypeOK'
  BY <1>4 DEF CheckStorage, Step, jobVars, serialVars, rowVars, joinVars
<1>5. ASSUME NEW j \in Jobs, CheckFails(j)
      PROVE  TypeOK'
  BY <1>5 DEF CheckFails, Step, jobVars, serialVars, rowVars, joinVars
<1>6. ASSUME NEW j \in Jobs, StorageFull(j)
      PROVE  TypeOK'
  BY <1>6 DEF StorageFull, Finish, Step, jobVars, serialVars, rowVars, joinVars
<1>7. ASSUME NEW j \in Jobs, WriteFails(j)
      PROVE  TypeOK'
  BY <1>7 DEF WriteFails, Finish, Step, jobVars, serialVars, rowVars, joinVars
<1>8. ASSUME NEW u \in Updates, SendUpdate(u)
      PROVE  TypeOK'
  BY <1>8 DEF SendUpdate, Step, jobVars, serialVars, rowVars, joinVars
<1>9. ASSUME NEW u \in Updates, AppendUpdate(u)
      PROVE  TypeOK'
  <2>1. written' \in Seq(Updates) /\ Len(written') = Len(written) + 1
    BY <1>9 DEF AppendUpdate
  <2>2. Size[u] \in Nat
    OBVIOUS
  <2>3. rows' \subseteq 1..Len(written')
    <3>1. rows' = rows \cup {Len(written) + 1} /\ Len(written) \in Nat
      BY <1>9 DEF AppendUpdate
    <3>2. \A i \in rows : i \in 1..(Len(written) + 1)
      BY <3>1
    <3>3. Len(written) + 1 \in 1..(Len(written) + 1)
      BY <3>1
    <3>4. rows' \subseteq 1..(Len(written) + 1)
      BY <3>1, <3>2, <3>3
    <3> QED
      BY <2>1, <3>4
  <2>4. bytes' \in Nat /\ count' \in Nat
    BY <1>9, <2>2 DEF AppendUpdate
  <2>5. UNCHANGED <<base, content, serializer, channel, compact, compactSize, closedAt, joining,
                    doc, expected, torn, excuses>>
    BY <1>9 DEF AppendUpdate, Finish, joinVars
  <2>6. step' \in [Jobs -> Steps] /\ holder' \in [Jobs -> Jobs \cup {None}]
    BY <1>9 DEF AppendUpdate, Finish, Step
  <2> QED
    BY <2>1, <2>3, <2>4, <2>5, <2>6
<1>10. ASSUME NEW s \in Snapshots, NEW b \in 0..Len(written), NEW more \in {{}, Sent},
             SendSnapshot(s, b, more)
      PROVE  TypeOK'
  <2>1. Sent \subseteq Updates
    BY DEF Sent
  <2>2. {written[i] : i \in 1..b} \subseteq Updates
    OBVIOUS
  <2> QED
    BY <1>10, <2>1, <2>2 DEF SendSnapshot, Step, serialVars, rowVars, joinVars
<1>11. ASSUME NEW s \in Snapshots, SaveSnapshot(s)
      PROVE  TypeOK'
  <2>1. Size[s] \in Nat
    OBVIOUS
  <2>2. Excuses(s) \subseteq {"unbased", "regressed"}
    BY DEF Excuses
  <2> QED
    BY <1>11, <2>1, <2>2 DEF SaveSnapshot, Finish, Step
<1>12. ASSUME NEW m \in Joiners, LoadCompact(m)
      PROVE  TypeOK'
  <2>1. Recoverable \subseteq Updates
    BY DEF Recoverable
  <2> QED
    BY <1>12, <2>1 DEF LoadCompact, jobVars, serialVars, rowVars
<1>13. ASSUME NEW m \in Joiners, LoadRows(m)
      PROVE  TypeOK'
  <2>1. \A i \in rows : written[i] \in Updates
    OBVIOUS
  <2> QED
    BY <1>13, <2>1 DEF LoadRows, jobVars, serialVars, rowVars
<1>14. ASSUME NEW m \in Joiners, BecomeMember(m)
      PROVE  TypeOK'
  BY <1>14 DEF BecomeMember, jobVars, serialVars, rowVars, joinVars
<1>15. ASSUME DropSerializer
      PROVE  TypeOK'
  BY <1>15 DEF DropSerializer, jobVars, serialVars, rowVars, joinVars
<1>16. ASSUME CloseRoom
      PROVE  TypeOK'
  BY <1>16 DEF CloseRoom, jobVars, serialVars, rowVars, joinVars
<1>17. ASSUME Crash
      PROVE  TypeOK'
  BY <1>17 DEF Crash, Ended, jobVars, serialVars, rowVars, joinVars
<1>18. CASE UNCHANGED vars
  BY <1>18 DEF vars, jobVars, serialVars, rowVars, joinVars
<1> HIDE JobsAndNone, DocAssumption DEF TypeOK, Steps, Ended
<1> QED
  BY <1>1, <1>2, <1>3, <1>4, <1>5, <1>6, <1>7, <1>8, <1>9, <1>10, <1>11, <1>12, <1>13,
     <1>14, <1>15, <1>16, <1>17, <1>18 DEF Next, Write

\* Every step keeps the tokens.
LEMMA TokensKept ==
    ASSUME TypeOK, Tokens, [Next]_vars
    PROVE  Tokens'
<1> USE JobsAndNone DEF TypeOK, Tokens, Writing, Steps
<1>1. ASSUME NEW j \in Jobs, FindSerializer(j)
      PROVE  Tokens'
  BY <1>1 DEF FindSerializer, Step, jobVars, serialVars, rowVars, joinVars
<1>2. ASSUME NEW j \in Jobs, Acquire(j)
      PROVE  Tokens'
  BY <1>2 DEF Acquire, Step, jobVars, serialVars, rowVars, joinVars
<1>3. ASSUME NEW j \in Jobs, AcquireTimeout(j)
      PROVE  Tokens'
  BY <1>3 DEF AcquireTimeout, Step, jobVars, serialVars, rowVars, joinVars
<1>4. ASSUME NEW j \in Jobs, CheckStorage(j)
      PROVE  Tokens'
  BY <1>4 DEF CheckStorage, Step, jobVars, serialVars, rowVars, joinVars
<1>5. ASSUME NEW j \in Jobs, CheckFails(j)
      PROVE  Tokens'
  BY <1>5 DEF CheckFails, Step, jobVars, serialVars, rowVars, joinVars
<1>6. ASSUME NEW j \in Jobs, StorageFull(j)
      PROVE  Tokens'
  BY <1>6 DEF StorageFull, Finish, Step, jobVars, serialVars, rowVars, joinVars
<1>7. ASSUME NEW j \in Jobs, WriteFails(j)
      PROVE  Tokens'
  BY <1>7 DEF WriteFails, Finish, Step, jobVars, serialVars, rowVars, joinVars
<1>8. ASSUME NEW u \in Updates, SendUpdate(u)
      PROVE  Tokens'
  BY <1>8 DEF SendUpdate, Step, jobVars, serialVars, rowVars, joinVars
<1>9. ASSUME NEW u \in Updates, AppendUpdate(u)
      PROVE  Tokens'
  BY <1>9 DEF AppendUpdate, Finish, Step, jobVars, serialVars, rowVars, joinVars
<1>10. ASSUME NEW s \in Snapshots, NEW b \in 0..Len(written), NEW more \in {{}, Sent},
             SendSnapshot(s, b, more)
      PROVE  Tokens'
  BY <1>10 DEF SendSnapshot, Step, jobVars, serialVars, rowVars, joinVars
<1>11. ASSUME NEW s \in Snapshots, SaveSnapshot(s)
      PROVE  Tokens'
  BY <1>11 DEF SaveSnapshot, Finish, Step, jobVars, serialVars, rowVars, joinVars
<1>12. ASSUME NEW m \in Joiners, LoadCompact(m)
      PROVE  Tokens'
  BY <1>12 DEF LoadCompact, jobVars, serialVars, rowVars, joinVars
<1>13. ASSUME NEW m \in Joiners, LoadRows(m)
      PROVE  Tokens'
  BY <1>13 DEF LoadRows, jobVars, serialVars, rowVars, joinVars
<1>14. ASSUME NEW m \in Joiners, BecomeMember(m)
      PROVE  Tokens'
  BY <1>14 DEF BecomeMember, jobVars, serialVars, rowVars, joinVars
<1>15. ASSUME DropSerializer
      PROVE  Tokens'
  BY <1>15 DEF DropSerializer, jobVars, serialVars, rowVars, joinVars
<1>16. ASSUME CloseRoom
      PROVE  Tokens'
  BY <1>16 DEF CloseRoom, jobVars, serialVars, rowVars, joinVars
<1>17. ASSUME Crash
      PROVE  Tokens'
  BY <1>17 DEF Crash, Ended, jobVars, serialVars, rowVars, joinVars
<1>18. CASE UNCHANGED vars
  BY <1>18 DEF vars, jobVars, serialVars, rowVars, joinVars
<1> HIDE JobsAndNone DEF TypeOK, Tokens, Writing, Steps
<1> QED
  BY <1>1, <1>2, <1>3, <1>4, <1>5, <1>6, <1>7, <1>8, <1>9, <1>10, <1>11, <1>12, <1>13,
     <1>14, <1>15, <1>16, <1>17, <1>18 DEF Next, Write

\* Every step keeps to the one channel.
LEMMA OneChannelKept ==
    ASSUME TypeOK, Tokens, OneChannel, [Next]_vars
    PROVE  OneChannel'
<1> USE JobsAndNone DEF TypeOK, Tokens, OneChannel, Steps
<1>1. ASSUME NEW j \in Jobs, FindSerializer(j)
      PROVE  OneChannel'
  BY <1>1 DEF FindSerializer, Step, jobVars, serialVars, rowVars, joinVars
<1>2. ASSUME NEW j \in Jobs, Acquire(j)
      PROVE  OneChannel'
  BY <1>2 DEF Acquire, Step, jobVars, serialVars, rowVars, joinVars
<1>3. ASSUME NEW j \in Jobs, AcquireTimeout(j)
      PROVE  OneChannel'
  BY <1>3 DEF AcquireTimeout, Step, jobVars, serialVars, rowVars, joinVars
<1>4. ASSUME NEW j \in Jobs, CheckStorage(j)
      PROVE  OneChannel'
  BY <1>4 DEF CheckStorage, Step, jobVars, serialVars, rowVars, joinVars
<1>5. ASSUME NEW j \in Jobs, CheckFails(j)
      PROVE  OneChannel'
  BY <1>5 DEF CheckFails, Step, jobVars, serialVars, rowVars, joinVars
<1>6. ASSUME NEW j \in Jobs, StorageFull(j)
      PROVE  OneChannel'
  BY <1>6 DEF StorageFull, Finish, Step, jobVars, serialVars, rowVars, joinVars
<1>7. ASSUME NEW j \in Jobs, WriteFails(j)
      PROVE  OneChannel'
  BY <1>7 DEF WriteFails, Finish, Step, jobVars, serialVars, rowVars, joinVars
<1>8. ASSUME NEW u \in Updates, SendUpdate(u)
      PROVE  OneChannel'
  BY <1>8 DEF SendUpdate, Step, jobVars, serialVars, rowVars, joinVars
<1>9. ASSUME NEW u \in Updates, AppendUpdate(u)
      PROVE  OneChannel'
  BY <1>9 DEF AppendUpdate, Finish, Step, jobVars, serialVars, rowVars, joinVars
<1>10. ASSUME NEW s \in Snapshots, NEW b \in 0..Len(written), NEW more \in {{}, Sent},
             SendSnapshot(s, b, more)
      PROVE  OneChannel'
  BY <1>10 DEF SendSnapshot, Step, jobVars, serialVars, rowVars, joinVars
<1>11. ASSUME NEW s \in Snapshots, SaveSnapshot(s)
      PROVE  OneChannel'
  <2>1. excuses \subseteq excuses'
    BY <1>11 DEF SaveSnapshot
  <2> QED
    BY <1>11, <2>1 DEF SaveSnapshot, Finish, Step
<1>12. ASSUME NEW m \in Joiners, LoadCompact(m)
      PROVE  OneChannel'
  BY <1>12 DEF LoadCompact, jobVars, serialVars, rowVars, joinVars
<1>13. ASSUME NEW m \in Joiners, LoadRows(m)
      PROVE  OneChannel'
  BY <1>13 DEF LoadRows, jobVars, serialVars, rowVars, joinVars
<1>14. ASSUME NEW m \in Joiners, BecomeMember(m)
      PROVE  OneChannel'
  BY <1>14 DEF BecomeMember, jobVars, serialVars, rowVars, joinVars
<1>15. ASSUME DropSerializer
      PROVE  OneChannel'
  BY <1>15 DEF DropSerializer, jobVars, serialVars, rowVars, joinVars
<1>16. ASSUME CloseRoom
      PROVE  OneChannel'
  BY <1>16 DEF CloseRoom, jobVars, serialVars, rowVars, joinVars
<1>17. ASSUME Crash
      PROVE  OneChannel'
  BY <1>17 DEF Crash, Ended, jobVars, serialVars, rowVars, joinVars
<1>18. CASE UNCHANGED vars
  BY <1>18 DEF vars, jobVars, serialVars, rowVars, joinVars
<1> HIDE JobsAndNone DEF TypeOK, Tokens, OneChannel, Steps
<1> QED
  BY <1>1, <1>2, <1>3, <1>4, <1>5, <1>6, <1>7, <1>8, <1>9, <1>10, <1>11, <1>12, <1>13,
     <1>14, <1>15, <1>16, <1>17, <1>18 DEF Next, Write

\* Two writing jobs of a room that has not emptied are one.
LEMMA Exclusive ==
    ASSUME TypeOK, Tokens, OneChannel
    PROVE  WritesExclusive
BY DEF TypeOK, Tokens, OneChannel, WritesExclusive, Writing

\* Every step keeps what has passed the check within the limit.
LEMMA FittingKept ==
    ASSUME TypeOK, Tokens, OneChannel, Fitting, [Next]_vars
    PROVE  Fitting'
<1> USE JobsAndNone, DocAssumption DEF TypeOK, Steps, Fitting
<1>1. ASSUME NEW j \in Jobs, FindSerializer(j)
      PROVE  Fitting'
  BY <1>1 DEF FindSerializer, Step, jobVars, serialVars, rowVars, joinVars
<1>2. ASSUME NEW j \in Jobs, Acquire(j)
      PROVE  Fitting'
  BY <1>2 DEF Acquire, Step, jobVars, serialVars, rowVars, joinVars
<1>3. ASSUME NEW j \in Jobs, AcquireTimeout(j)
      PROVE  Fitting'
  BY <1>3 DEF AcquireTimeout, Step, jobVars, serialVars, rowVars, joinVars
<1>4. ASSUME NEW j \in Jobs, CheckStorage(j)
      PROVE  Fitting'
  BY <1>4 DEF CheckStorage, Step, jobVars, serialVars, rowVars, joinVars
<1>5. ASSUME NEW j \in Jobs, CheckFails(j)
      PROVE  Fitting'
  BY <1>5 DEF CheckFails, Step, jobVars, serialVars, rowVars, joinVars
<1>6. ASSUME NEW j \in Jobs, StorageFull(j)
      PROVE  Fitting'
  BY <1>6 DEF StorageFull, Finish, Step, jobVars, serialVars, rowVars, joinVars
<1>7. ASSUME NEW j \in Jobs, WriteFails(j)
      PROVE  Fitting'
  BY <1>7 DEF WriteFails, Finish, Step, jobVars, serialVars, rowVars, joinVars
<1>8. ASSUME NEW u \in Updates, SendUpdate(u)
      PROVE  Fitting'
  BY <1>8 DEF SendUpdate, Step, jobVars, serialVars, rowVars, joinVars
<1>9. ASSUME NEW u \in Updates, AppendUpdate(u)
      PROVE  Fitting'
  <2> SUFFICES ASSUME excuses' \cap {"emptied", "unchecked"} = {}
               PROVE  /\ bytes' <= MaxStorage
                      /\ \A k \in Jobs : step'[k] = "checked" => bytes' + Size[k] <= MaxStorage
    BY DEF Fitting
  <2>1. excuses \cap {"emptied", "unchecked"} = {} /\ step[u] = "checked"
    BY <1>9 DEF AppendUpdate
  <2>2. \A k \in Jobs : step'[k] # "checked"
    BY <1>9, <2>1, Exclusive DEF AppendUpdate, Finish, Step, WritesExclusive, Writing
  <2>3. bytes' \in Nat /\ bytes' <= bytes + Size[u] /\ Size[u] \in Nat
    BY <1>9 DEF AppendUpdate
  <2>4. bytes + Size[u] <= MaxStorage
    BY <2>1
  <2> QED
    BY <2>2, <2>3, <2>4
<1>10. ASSUME NEW s \in Snapshots, NEW b \in 0..Len(written), NEW more \in {{}, Sent},
             SendSnapshot(s, b, more)
      PROVE  Fitting'
  BY <1>10 DEF SendSnapshot, Step, jobVars, serialVars, rowVars, joinVars
<1>11. ASSUME NEW s \in Snapshots, SaveSnapshot(s)
      PROVE  Fitting'
  <2> SUFFICES ASSUME excuses' \cap {"emptied", "unchecked"} = {}
               PROVE  /\ bytes' <= MaxStorage
                      /\ \A k \in Jobs : step'[k] = "checked" => bytes' + Size[k] <= MaxStorage
    BY DEF Fitting
  <2>1. excuses \cap {"emptied", "unchecked"} = {} /\ step[s] = "checked"
    BY <1>11 DEF SaveSnapshot
  <2>2. \A k \in Jobs : step'[k] # "checked"
    BY <1>11, <2>1, Exclusive DEF SaveSnapshot, Finish, Step, WritesExclusive, Writing
  <2>3. bytes' \in Nat /\ bytes' <= bytes + Size[s] /\ Size[s] \in Nat
    BY <1>11 DEF SaveSnapshot
  <2>4. bytes + Size[s] <= MaxStorage
    BY <2>1
  <2> QED
    BY <2>2, <2>3, <2>4
<1>12. ASSUME NEW m \in Joiners, LoadCompact(m)
      PROVE  Fitting'
  BY <1>12 DEF LoadCompact, jobVars, serialVars, rowVars, joinVars
<1>13. ASSUME NEW m \in Joiners, LoadRows(m)
      PROVE  Fitting'
  BY <1>13 DEF LoadRows, jobVars, serialVars, rowVars, joinVars
<1>14. ASSUME NEW m \in Joiners, BecomeMember(m)
      PROVE  Fitting'
  BY <1>14 DEF BecomeMember, jobVars, serialVars, rowVars, joinVars
<1>15. ASSUME DropSerializer
      PROVE  Fitting'
  BY <1>15 DEF DropSerializer, jobVars, serialVars, rowVars, joinVars
<1>16. ASSUME CloseRoom
      PROVE  Fitting'
  BY <1>16 DEF CloseRoom, jobVars, serialVars, rowVars, joinVars
<1>17. ASSUME Crash
      PROVE  Fitting'
  BY <1>17 DEF Crash, Ended, jobVars, serialVars, rowVars, joinVars
<1>18. CASE UNCHANGED vars
  BY <1>18 DEF vars, jobVars, serialVars, rowVars, joinVars
<1> HIDE JobsAndNone, DocAssumption DEF TypeOK, Steps, Fitting
<1> QED
  BY <1>1, <1>2, <1>3, <1>4, <1>5, <1>6, <1>7, <1>8, <1>9, <1>10, <1>11, <1>12, <1>13,
     <1>14, <1>15, <1>16, <1>17, <1>18 DEF Next, Write

\* Every step keeps snapshots covering their bases.
LEMMA CoveringKept ==
    ASSUME TypeOK, Covering, [Next]_vars
    PROVE  Covering'
<1> USE JobsAndNone DEF TypeOK, Covering
<1>1. ASSUME NEW j \in Jobs, FindSerializer(j)
      PROVE  Covering'
  BY <1>1 DEF FindSerializer, Step, jobVars, serialVars, rowVars, joinVars
<1>2. ASSUME NEW j \in Jobs, Acquire(j)
      PROVE  Covering'
  BY <1>2 DEF Acquire, Step, jobVars, serialVars, rowVars, joinVars
<1>3. ASSUME NEW j \in Jobs, AcquireTimeout(j)
      PROVE  Covering'
  BY <1>3 DEF AcquireTimeout, Step, jobVars, serialVars, rowVars, joinVars
<1>4. ASSUME NEW j \in Jobs, CheckStorage(j)
      PROVE  Covering'
  BY <1>4 DEF CheckStorage, Step, jobVars, serialVars, rowVars, joinVars
<1>5. ASSUME NEW j \in Jobs, CheckFails(j)
      PROVE  Covering'
  BY <1>5 DEF CheckFails, Step, jobVars, serialVars, rowVars, joinVars
<1>6. ASSUME NEW j \in Jobs, StorageFull(j)
      PROVE  Covering'
  BY <1>6 DEF StorageFull, Finish, Step, jobVars, serialVars, rowVars, joinVars
<1>7. ASSUME NEW j \in Jobs, WriteFails(j)
      PROVE  Covering'
  BY <1>7 DEF WriteFails, Finish, Step, jobVars, serialVars, rowVars, joinVars
<1>8. ASSUME NEW u \in Updates, SendUpdate(u)
      PROVE  Covering'
  BY <1>8 DEF SendUpdate, Step, jobVars, serialVars, rowVars, joinVars
<1>9. ASSUME NEW u \in Updates, AppendUpdate(u)
      PROVE  Covering'
  <2>1. Len(written') = Len(written) + 1 /\ \A i \in 1..Len(written) : written'[i] = written[i]
    BY <1>9 DEF AppendUpdate
  <2> QED
    BY <1>9, <2>1 DEF AppendUpdate, Finish
<1>10. ASSUME NEW s \in Snapshots, NEW b \in 0..Len(written), NEW more \in {{}, Sent},
             SendSnapshot(s, b, more)
      PROVE  Covering'
  BY <1>10 DEF SendSnapshot, Step, jobVars, serialVars, rowVars, joinVars
<1>11. ASSUME NEW s \in Snapshots, SaveSnapshot(s)
      PROVE  Covering'
  BY <1>11 DEF SaveSnapshot, Finish, Step, jobVars, serialVars, rowVars, joinVars
<1>12. ASSUME NEW m \in Joiners, LoadCompact(m)
      PROVE  Covering'
  BY <1>12 DEF LoadCompact, jobVars, serialVars, rowVars, joinVars
<1>13. ASSUME NEW m \in Joiners, LoadRows(m)
      PROVE  Covering'
  BY <1>13 DEF LoadRows, jobVars, serialVars, rowVars, joinVars
<1>14. ASSUME NEW m \in Joiners, BecomeMember(m)
      PROVE  Covering'
  BY <1>14 DEF BecomeMember, jobVars, serialVars, rowVars, joinVars
<1>15. ASSUME DropSerializer
      PROVE  Covering'
  BY <1>15 DEF DropSerializer, jobVars, serialVars, rowVars, joinVars
<1>16. ASSUME CloseRoom
      PROVE  Covering'
  BY <1>16 DEF CloseRoom, jobVars, serialVars, rowVars, joinVars
<1>17. ASSUME Crash
      PROVE  Covering'
  BY <1>17 DEF Crash, Ended, jobVars, serialVars, rowVars, joinVars
<1>18. CASE UNCHANGED vars
  BY <1>18 DEF vars, jobVars, serialVars, rowVars, joinVars
<1> HIDE JobsAndNone DEF TypeOK, Covering
<1> QED
  BY <1>1, <1>2, <1>3, <1>4, <1>5, <1>6, <1>7, <1>8, <1>9, <1>10, <1>11, <1>12, <1>13,
     <1>14, <1>15, <1>16, <1>17, <1>18 DEF Next, Write

\* Every step keeps what has been written.
LEMMA KeptKept ==
    ASSUME TypeOK, Covering, Kept, [Next]_vars
    PROVE  Kept'
<1> USE JobsAndNone DEF TypeOK, Covering, Kept
<1>1. ASSUME NEW j \in Jobs, FindSerializer(j)
      PROVE  Kept'
  BY <1>1 DEF FindSerializer, Step, jobVars, serialVars, rowVars, joinVars
<1>2. ASSUME NEW j \in Jobs, Acquire(j)
      PROVE  Kept'
  BY <1>2 DEF Acquire, Step, jobVars, serialVars, rowVars, joinVars
<1>3. ASSUME NEW j \in Jobs, AcquireTimeout(j)
      PROVE  Kept'
  BY <1>3 DEF AcquireTimeout, Step, jobVars, serialVars, rowVars, joinVars
<1>4. ASSUME NEW j \in Jobs, CheckStorage(j)
      PROVE  Kept'
  BY <1>4 DEF CheckStorage, Step, jobVars, serialVars, rowVars, joinVars
<1>5. ASSUME NEW j \in Jobs, CheckFails(j)
      PROVE  Kept'
  BY <1>5 DEF CheckFails, Step, jobVars, serialVars, rowVars, joinVars
<1>6. ASSUME NEW j \in Jobs, StorageFull(j)
      PROVE  Kept'
  BY <1>6 DEF StorageFull, Finish, Step, jobVars, serialVars, rowVars, joinVars
<1>7. ASSUME NEW j \in Jobs, WriteFails(j)
      PROVE  Kept'
  BY <1>7 DEF WriteFails, Finish, Step, jobVars, serialVars, rowVars, joinVars
<1>8. ASSUME NEW u \in Updates, SendUpdate(u)
      PROVE  Kept'
  BY <1>8 DEF SendUpdate, Step, jobVars, serialVars, rowVars, joinVars
<1>9. ASSUME NEW u \in Updates, AppendUpdate(u)
      PROVE  Kept'
  <2>1. Len(written') = Len(written) + 1 /\ \A i \in 1..Len(written) : written'[i] = written[i]
    BY <1>9 DEF AppendUpdate
  <2> QED
    BY <1>9, <2>1 DEF AppendUpdate, Finish
<1>10. ASSUME NEW s \in Snapshots, NEW b \in 0..Len(written), NEW more \in {{}, Sent},
             SendSnapshot(s, b, more)
      PROVE  Kept'
  BY <1>10 DEF SendSnapshot, Step, jobVars, serialVars, rowVars, joinVars
<1>11. ASSUME NEW s \in Snapshots, SaveSnapshot(s)
      PROVE  Kept'
  <2> SUFFICES ASSUME excuses' \cap {"unbased", "regressed"} = {},
                      NEW i \in 1..Len(written)
               PROVE  i \in rows' \/ written[i] \in compact'
    BY <1>11 DEF SaveSnapshot
  <2>1. excuses \cap {"unbased", "regressed"} = {} /\ Excuses(s) = {}
    BY <1>11 DEF SaveSnapshot, Excuses
  <2>2. base[s] > 0 /\ compact \subseteq content[s]
    <3>1. "unbased" \notin Excuses(s) /\ "regressed" \notin Excuses(s)
      BY <2>1
    <3> QED
      BY <3>1 DEF Excuses
  <2>3. compact' = content[s] /\ rows' = {k \in rows : k > base[s]}
    BY <1>11, <2>2 DEF SaveSnapshot
  <2>4. CASE i \in rows
    BY <2>2, <2>3, <2>4
  <2>5. CASE written[i] \in compact
    BY <2>2, <2>3, <2>5
  <2> QED
    BY <2>1, <2>4, <2>5
<1>12. ASSUME NEW m \in Joiners, LoadCompact(m)
      PROVE  Kept'
  BY <1>12 DEF LoadCompact, jobVars, serialVars, rowVars, joinVars
<1>13. ASSUME NEW m \in Joiners, LoadRows(m)
      PROVE  Kept'
  BY <1>13 DEF LoadRows, jobVars, serialVars, rowVars, joinVars
<1>14. ASSUME NEW m \in Joiners, BecomeMember(m)
      PROVE  Kept'
  BY <1>14 DEF BecomeMember, jobVars, serialVars, rowVars, joinVars
<1>15. ASSUME DropSerializer
      PROVE  Kept'
  BY <1>15 DEF DropSerializer, jobVars, serialVars, rowVars, joinVars
<1>16. ASSUME CloseRoom
      PROVE  Kept'
  BY <1>16 DEF CloseRoom, jobVars, serialVars, rowVars, joinVars
<1>17. ASSUME Crash
      PROVE  Kept'
  BY <1>17 DEF Crash, Ended, jobVars, serialVars, rowVars, joinVars
<1>18. CASE UNCHANGED vars
  BY <1>18 DEF vars, jobVars, serialVars, rowVars, joinVars
<1> HIDE JobsAndNone DEF TypeOK, Covering, Kept
<1> QED
  BY <1>1, <1>2, <1>3, <1>4, <1>5, <1>6, <1>7, <1>8, <1>9, <1>10, <1>11, <1>12, <1>13,
     <1>14, <1>15, <1>16, <1>17, <1>18 DEF Next, Write

\* Every step keeps what a load is going to find.
LEMMA LoadingKept ==
    ASSUME TypeOK, Loading, [Next]_vars
    PROVE  Loading'
<1> USE JobsAndNone DEF TypeOK, Loading
<1>1. ASSUME NEW j \in Jobs, FindSerializer(j)
      PROVE  Loading'
  BY <1>1 DEF FindSerializer, Step, jobVars, serialVars, rowVars, joinVars
<1>2. ASSUME NEW j \in Jobs, Acquire(j)
      PROVE  Loading'
  BY <1>2 DEF Acquire, Step, jobVars, serialVars, rowVars, joinVars
<1>3. ASSUME NEW j \in Jobs, AcquireTimeout(j)
      PROVE  Loading'
  BY <1>3 DEF AcquireTimeout, Step, jobVars, serialVars, rowVars, joinVars
<1>4. ASSUME NEW j \in Jobs, CheckStorage(j)
      PROVE  Loading'
  BY <1>4 DEF CheckStorage, Step, jobVars, serialVars, rowVars, joinVars
<1>5. ASSUME NEW j \in Jobs, CheckFails(j)
      PROVE  Loading'
  BY <1>5 DEF CheckFails, Step, jobVars, serialVars, rowVars, joinVars
<1>6. ASSUME NEW j \in Jobs, StorageFull(j)
      PROVE  Loading'
  BY <1>6 DEF StorageFull, Finish, Step, jobVars, serialVars, rowVars, joinVars
<1>7. ASSUME NEW j \in Jobs, WriteFails(j)
      PROVE  Loading'
  BY <1>7 DEF WriteFails, Finish, Step, jobVars, serialVars, rowVars, joinVars
<1>8. ASSUME NEW u \in Updates, SendUpdate(u)
      PROVE  Loading'
  BY <1>8 DEF SendUpdate, Step, jobVars, serialVars, rowVars, joinVars
<1>9. ASSUME NEW u \in Updates, AppendUpdate(u)
      PROVE  Loading'
  <2>1. rows \subseteq rows' /\ \A i \in rows : written'[i] = written[i]
    BY <1>9 DEF AppendUpdate
  <2>2. UNCHANGED <<joining, doc, expected, torn>>
    BY <1>9 DEF AppendUpdate, joinVars
  <2>3. \A u2 : (\E i \in rows : written[i] = u2) => \E i \in rows' : written'[i] = u2
    BY <2>1
  <2> QED
    BY <2>2, <2>3
<1>10. ASSUME NEW s \in Snapshots, NEW b \in 0..Len(written), NEW more \in {{}, Sent},
             SendSnapshot(s, b, more)
      PROVE  Loading'
  BY <1>10 DEF SendSnapshot, Step, jobVars, serialVars, rowVars, joinVars
<1>11. ASSUME NEW s \in Snapshots, SaveSnapshot(s)
      PROVE  Loading'
  <2>1. \A m \in Joiners : ~torn'[m] => ~torn[m] /\ joining[m] # "loading"
    BY <1>11 DEF SaveSnapshot
  <2>2. UNCHANGED <<joining, doc, expected>>
    BY <1>11 DEF SaveSnapshot
  <2> QED
    BY <2>1, <2>2
<1>12. ASSUME NEW m \in Joiners, LoadCompact(m)
      PROVE  Loading'
  <2>1. \A u \in Recoverable : u \in compact \/ \E i \in rows : written[i] = u
    BY DEF Recoverable
  <2> QED
    BY <1>12, <2>1 DEF LoadCompact, rowVars
<1>13. ASSUME NEW m \in Joiners, LoadRows(m)
      PROVE  Loading'
  <2>1. UNCHANGED <<rows, written, expected, torn>>
    BY <1>13 DEF LoadRows, rowVars
  <2>2. \A n \in Joiners \ {m} : joining'[n] = joining[n] /\ doc'[n] = doc[n]
    BY <1>13 DEF LoadRows
  <2>3. joining[m] = "loading" /\ joining'[m] = "loaded"
        /\ doc'[m] = doc[m] \cup {written[i] : i \in rows}
    BY <1>13 DEF LoadRows
  <2>4. ASSUME ~torn[m], NEW u \in expected[m]
        PROVE  u \in doc'[m]
    <3>1. u \in doc[m] \/ \E i \in rows : written[i] = u
      BY <2>3, <2>4
    <3> QED
      BY <2>3, <3>1
  <2> QED
    BY <2>1, <2>2, <2>3, <2>4
<1>14. ASSUME NEW m \in Joiners, BecomeMember(m)
      PROVE  Loading'
  BY <1>14 DEF BecomeMember, jobVars, serialVars, rowVars, joinVars
<1>15. ASSUME DropSerializer
      PROVE  Loading'
  BY <1>15 DEF DropSerializer, jobVars, serialVars, rowVars, joinVars
<1>16. ASSUME CloseRoom
      PROVE  Loading'
  BY <1>16 DEF CloseRoom, jobVars, serialVars, rowVars, joinVars
<1>17. ASSUME Crash
      PROVE  Loading'
  BY <1>17 DEF Crash, Ended, jobVars, serialVars, rowVars, joinVars
<1>18. CASE UNCHANGED vars
  BY <1>18 DEF vars, jobVars, serialVars, rowVars, joinVars
<1> HIDE JobsAndNone DEF TypeOK, Loading
<1> QED
  BY <1>1, <1>2, <1>3, <1>4, <1>5, <1>6, <1>7, <1>8, <1>9, <1>10, <1>11, <1>12, <1>13,
     <1>14, <1>15, <1>16, <1>17, <1>18 DEF Next, Write

-----------------------------------------------------------------------------
(* The counters *)

\* As many pairs as places.
LEMMA Places ==
    ASSUME NEW i, NEW k \in Nat
    PROVE  IsFiniteSet({i} \X (1..k)) /\ Cardinality({i} \X (1..k)) = k
<1> DEFINE place == [n \in 1..k |-> <<i, n>>]
<1>1. IsFiniteSet(1..k) /\ Cardinality(1..k) = k
  BY FS_Interval
<1>2. place \in Bijection(1..k, {i} \X (1..k))
  <2>1. place \in [1..k -> {i} \X (1..k)]
    OBVIOUS
  <2>2. \A m, n \in 1..k : place[m] = place[n] => m = n
    OBVIOUS
  <2>3. \A p \in {i} \X (1..k) : \E n \in 1..k : place[n] = p
    <3>1. TAKE p \in {i} \X (1..k)
    <3>2. p[2] \in 1..k /\ p = <<i, p[2]>>
      OBVIOUS
    <3>3. place[p[2]] = p
      BY <3>2
    <3> QED
      BY <3>2, <3>3
  <2> HIDE DEF place
  <2> QED
    BY <2>1, <2>2, <2>3 DEF Bijection, Injection, Surjection, IsInjective
<1>3. ExistsBijection(1..k, {i} \X (1..k))
  BY <1>2 DEF ExistsBijection
<1> HIDE DEF place
<1> QED
  BY <1>1, <1>3, FS_Bijection

\* Appending a row adds its bytes to those of the others.
LEMMA AppendCounted ==
    ASSUME TypeOK, Counting, NEW u \in Updates, AppendUpdate(u)
    PROVE  Counting'
<1>0. PICK n : n = Len(written) + 1
  OBVIOUS
<1> DEFINE old  == UNION {RowBytes(i) : i \in rows}
           last == {n} \X (1..Size[u])
<1>1. n \in Nat /\ n \notin rows /\ rows' = rows \cup {n} /\ written' = Append(written, u)
  BY <1>0 DEF TypeOK, AppendUpdate
<1>2. written'[n] = u /\ \A i \in rows : written'[i] = written[i]
  BY <1>0, <1>1 DEF TypeOK
<1>3. /\ bytes' = bytes + Size[u] /\ count' = count + 1 /\ compactSize' = compactSize
      /\ bytes \in Nat /\ count \in Nat /\ compactSize \in Nat /\ Size[u] \in Nat
  BY JobsAndNone, DocAssumption DEF AppendUpdate, TypeOK
<1>4. IsFiniteSet(last) /\ Cardinality(last) = Size[u]
  BY <1>3, Places
<1>5. UNION {RowBytes(i)' : i \in rows'} = old \cup last
  <2>1. \A i \in rows : RowBytes(i)' = RowBytes(i)
    BY <1>2 DEF RowBytes
  <2>2. RowBytes(n)' = last
    BY <1>2 DEF RowBytes
  <2> HIDE DEF last
  <2>3. {RowBytes(i)' : i \in rows'} = {RowBytes(i) : i \in rows} \cup {last}
    BY <1>1, <2>1, <2>2
  <2> QED
    BY <2>3
<1>6. old \cap last = {}
  BY <1>1 DEF RowBytes
<1>7. /\ IsFiniteSet(rows') /\ Cardinality(rows) \in Nat
      /\ Cardinality(rows') = Cardinality(rows) + 1
  BY <1>1, FS_AddElement, FS_CardinalityType DEF Counting
<1> HIDE DEF old, last
<1>8. IsFiniteSet(old) /\ Cardinality(old) \in Nat
  BY FS_CardinalityType DEF Counting, old
<1>9. IsFiniteSet(old \cup last) /\ Cardinality(old \cup last) = Cardinality(old) + Size[u]
  <2>1. IsFiniteSet(old \cup last)
        /\ Cardinality(old \cup last) = Cardinality(old) + Cardinality(last) - Cardinality({})
    BY <1>4, <1>6, <1>8, FS_Union
  <2>2. Cardinality({}) = 0
    BY FS_EmptySet
  <2> QED
    BY <1>3, <1>4, <1>8, <2>1, <2>2
<1>10. bytes <= compactSize + Cardinality(old) /\ count <= Cardinality(rows)
  BY DEF Counting, CountersSound, Occupied, old
<1>11. bytes' <= compactSize' + Cardinality(old \cup last) /\ count' <= Cardinality(rows')
  BY <1>3, <1>7, <1>8, <1>9, <1>10
<1> QED
  BY <1>5, <1>7, <1>9, <1>11 DEF Counting, CountersSound, Occupied

\* A snapshot keeps some rows and counts none of them.
LEMMA SnapshotCounted ==
    ASSUME TypeOK, Counting, NEW s \in Snapshots, SaveSnapshot(s)
    PROVE  Counting'
<1> DEFINE old == UNION {RowBytes(i) : i \in rows}
           new == UNION {RowBytes(i)' : i \in rows'}
<1>1. /\ rows' \subseteq rows /\ written' = written
      /\ bytes' = Size[s] /\ compactSize' = Size[s] /\ count' = 0 /\ Size[s] \in Nat
  BY JobsAndNone, DocAssumption DEF SaveSnapshot
<1>2. new \subseteq old
  <2>1. \A i \in rows' : RowBytes(i)' = RowBytes(i)
    BY <1>1 DEF RowBytes
  <2> QED
    BY <1>1, <2>1
<1> HIDE DEF new, old
<1>3. IsFiniteSet(new) /\ Cardinality(new) \in Nat
  BY <1>2, FS_Subset, FS_CardinalityType DEF Counting, old
<1>4. IsFiniteSet(rows') /\ Cardinality(rows') \in Nat
  BY <1>1, FS_Subset, FS_CardinalityType DEF Counting
<1>5. bytes' <= compactSize' + Cardinality(new) /\ count' <= Cardinality(rows')
  BY <1>1, <1>3, <1>4
<1> QED
  BY <1>3, <1>4, <1>5 DEF Counting, CountersSound, Occupied, new

\* Every other step leaves the counters and what they count alone.
LEMMA CountingKept ==
    ASSUME TypeOK, Counting, [Next]_vars
    PROVE  Counting'
<1>1. CASE UNCHANGED <<rows, written, bytes, count, compactSize>>
  <2>1. UNION {RowBytes(i)' : i \in rows'} = UNION {RowBytes(i) : i \in rows}
    BY <1>1 DEF RowBytes
  <2> QED
    BY <1>1, <2>1 DEF Counting, CountersSound, Occupied
<1>2. ASSUME NEW u \in Updates, AppendUpdate(u)
      PROVE  Counting'
  BY <1>2, AppendCounted
<1>3. ASSUME NEW s \in Snapshots, SaveSnapshot(s)
      PROVE  Counting'
  BY <1>3, SnapshotCounted
<1>4. ASSUME NEW j \in Jobs, Write(j)
      PROVE  UNCHANGED rowVars
  BY <1>4 DEF Write, FindSerializer, Acquire, AcquireTimeout, CheckStorage, CheckFails,
     StorageFull, WriteFails
<1>5. ASSUME NEW u \in Updates, SendUpdate(u)
      PROVE  UNCHANGED rowVars
  BY <1>5 DEF SendUpdate
<1>6. ASSUME NEW s \in Snapshots, NEW b \in 0..Len(written), NEW more \in {{}, Sent},
             SendSnapshot(s, b, more)
      PROVE  UNCHANGED rowVars
  BY <1>6 DEF SendSnapshot
<1>7. ASSUME NEW m \in Joiners, LoadCompact(m) \/ LoadRows(m) \/ BecomeMember(m)
      PROVE  UNCHANGED rowVars
  BY <1>7 DEF LoadCompact, LoadRows, BecomeMember
<1>8. ASSUME DropSerializer \/ CloseRoom \/ Crash
      PROVE  UNCHANGED rowVars
  BY <1>8 DEF DropSerializer, CloseRoom, Crash
<1>9. CASE UNCHANGED vars
  BY <1>1, <1>9 DEF vars, rowVars
<1>10. UNCHANGED rowVars => Counting'
  BY <1>1 DEF rowVars
<1> QED
  BY <1>2, <1>3, <1>4, <1>5, <1>6, <1>7, <1>8, <1>9, <1>10 DEF Next

-----------------------------------------------------------------------------
(* The theorems *)

DocInv == TypeOK /\ Tokens /\ OneChannel /\ Fitting /\ Covering /\ Kept /\ Loading /\ Counting

LEMMA InvariantHolds == Spec => []DocInv
<1>1. Init => DocInv
  <2> SUFFICES ASSUME Init
               PROVE  DocInv
    OBVIOUS
  <2>1. TypeOK
    <3>1. step \in [Jobs -> Steps] /\ serializer \in Jobs \cup {None}
          /\ channel \in [Jobs -> Jobs \cup {None}] /\ holder \in [Jobs -> Jobs \cup {None}]
      BY DEF Init, Steps
    <3>2. base \in [Snapshots -> Nat] /\ content \in [Snapshots -> SUBSET Updates]
      BY DEF Init
    <3>3. written \in Seq(Updates)
      BY DEF Init
    <3>4. compact \subseteq Updates /\ rows \subseteq 1..Len(written)
          /\ bytes \in Nat /\ count \in Nat /\ compactSize \in Nat /\ closedAt \in BOOLEAN
      BY DEF Init
    <3>5. joining \in [Joiners -> {"out", "loading", "loaded", "member", "gone"}]
          /\ doc \in [Joiners -> SUBSET Updates] /\ expected \in [Joiners -> SUBSET Updates]
      BY DEF Init
    <3>6. torn \in [Joiners -> BOOLEAN]
      BY DEF Init
    <3>7. excuses \subseteq {"emptied", "unchecked", "unbased", "regressed"}
      BY DEF Init
    <3> QED
      BY <3>1, <3>2, <3>3, <3>4, <3>5, <3>6, <3>7 DEF TypeOK
  <2>2. Tokens /\ OneChannel
    BY DEF Init, Tokens, Writing, OneChannel
  <2>3. Fitting
    BY DocAssumption DEF Init, Fitting
  <2>4. Covering /\ Kept
    BY DEF Init, Covering, Kept
  <2>5. Loading
    BY DEF Init, Loading
  <2>6. Counting
    <3>1. rows = {} /\ bytes = 0 /\ count = 0 /\ compactSize = 0
      BY DEF Init
    <3>2. UNION {RowBytes(i) : i \in rows} = {}
      BY <3>1
    <3> QED
      BY <3>1, <3>2, FS_EmptySet DEF Counting, CountersSound, Occupied
  <2> QED
    BY <2>1, <2>2, <2>3, <2>4, <2>5, <2>6 DEF DocInv
<1>2. DocInv /\ [Next]_vars => DocInv'
  BY TypesKept, TokensKept, OneChannelKept, FittingKept, CoveringKept, KeptKept, LoadingKept, CountingKept
     DEF DocInv
<1> QED
  BY <1>1, <1>2, PTL DEF Spec

\* Every reachable state is well typed, and every row has been given an update.
THEOREM StoreTypeCorrect == Spec => []TypeOK
BY InvariantHolds, PTL DEF DocInv

\* The serializer of acquireRoomWrite excludes writes as long as the room has
\* not emptied, for any number of jobs.
THEOREM SerializerExcludes == Spec => []WritesExclusive
<1>1. DocInv => WritesExclusive
  BY Exclusive DEF DocInv
<1> QED
  BY <1>1, InvariantHolds, PTL

\* Under that exclusion the storage check of doc_update and doc_snapshot bounds
\* storage_bytes.
THEOREM StorageIsLimited == Spec => []LimitKept
<1>1. DocInv => LimitKept
  BY DEF DocInv, Fitting, LimitKept
<1> QED
  BY <1>1, InvariantHolds, PTL

\* SaveSnapshot deletes covered rows only, whatever it interleaves with.
THEOREM UpdatesAreDurable == Spec => []Durable
<1>1. ASSUME DocInv
      PROVE  Durable
  <2> SUFFICES ASSUME excuses \cap {"unbased", "regressed"} = {}, NEW u \in ToSet(written)
               PROVE  u \in Recoverable
    BY DEF Durable
  <2>1. PICK i \in 1..Len(written) : written[i] = u
    BY DEF ToSet
  <2>2. i \in rows \/ written[i] \in compact
    BY <1>1 DEF DocInv, Kept
  <2> QED
    BY <2>1, <2>2 DEF Recoverable
<1> QED
  BY <1>1, InvariantHolds, PTL

\* LoadRoomState misses nothing unless a snapshot is saved between its queries.
THEOREM LoadsAreComplete == Spec => []LoadComplete
<1>1. DocInv => LoadComplete
  BY DEF DocInv, Loading, LoadComplete
<1> QED
  BY <1>1, InvariantHolds, PTL
\* AppendUpdate and SaveSnapshot never let storage_bytes or update_count exceed
\* what the rows and compact_state hold, for any sizes.
THEOREM CountersAreSound == Spec => []CountersSound
<1>1. DocInv => CountersSound
  BY DEF DocInv, Counting
<1> QED
  BY <1>1, InvariantHolds, PTL
=============================================================================
