-------------------------- MODULE ServerLifeProofs --------------------------
(***************************************************************************)
(* Proofs about ServerLife, for every set of setups and every number of    *)
(* starts and signals.  The inductive invariant says of each place main    *)
(* can be at what is on the disk by then: what the migration cursor has    *)
(* passed, and that the schema is complete once main is past the store.    *)
(***************************************************************************)
EXTENDS ServerLife, TLAPS

Complete == objects = Schema /\ counters = "right" /\ recorded = Files

\* Where main is before the hub, and from the hub on.
Early   == {"config", "log", "open", "migrate", "hub"}
Settled == {"hub", "stun", "notify", "listen", "serving", "close_stun", "close_store"}

DiskInv ==
    /\ RecordedMeansApplied
    /\ 2 \in recorded => 1 \in recorded

CursorInv ==
    /\ file > 1 => 1 \in recorded
    /\ file > 2 => 2 \in recorded
    /\ statement # 0 =>
         /\ file \notin recorded
         /\ \A i \in 1..(statement - 1) : Script[file][i] \in objects \cup {"backfill"}
         /\ file = 2 /\ statement = 4 => counters = "right"

PlaceInv ==
    /\ pc = "migrate" => CursorInv
    /\ pc \in Settled \/ options # None => Complete
    /\ pc \in Early => options = None
    /\ pc \in Settled \cup {"log", "open", "migrate"} \/ options # None =>
         Readable(setup) /\ Valid(setup)
    /\ options # None => options = HubOptions(setup)

EndInv ==
    /\ pc # "down" => ended = "none" /\ failure = "none"
    /\ ServedStartsAgain
    /\ StoreClosedAtEnd

IInv == TypeOK /\ DiskInv /\ PlaceInv /\ EndInv

-----------------------------------------------------------------------------
LEMMA ScriptFacts ==
    /\ Len(Script) = 2
    /\ Len(Script[1]) = 4 /\ DOMAIN Script[1] = 1..4
    /\ Len(Script[2]) = 3 /\ DOMAIN Script[2] = 1..3
    /\ Script[1][1] = "versions" /\ Script[1][2] = "rooms"
    /\ Script[1][3] = "updates" /\ Script[1][4] = "index"
    /\ Script[2][1] = "storage_bytes" /\ Script[2][2] = "update_count"
    /\ Script[2][3] = "backfill"
BY DEF Script

\* Executing a statement leaves the schema within bounds, grown by what it makes.
LEMMA ExecuteGrows ==
    ASSUME NEW name \in Schema \cup {"backfill"}, objects \subseteq Schema, Execute(name)
    PROVE  /\ objects \subseteq objects' /\ objects' \subseteq Schema
           /\ name \in objects' \cup {"backfill"}
<1>1. name # "backfill" => Makes(name) \subseteq Schema /\ name \in Makes(name)
  BY DEF Makes, Schema
<1> QED
  BY <1>1 DEF Execute

\* With the values validateConfig lets pass NewHub does as it is told.
LEMMA OptionsAreConfig ==
    ASSUME NEW s \in Setup, Readable(s), Valid(s), NEW f \in HubFields
    PROVE  \/ HubOptions(s)[f] = Config(s)[f]
           \/ f = "maxClientsPerRoom" /\ Config(s)[f] = 0
<1>1. f \in Fields /\ Floor[f] \in Nat /\ Default[f] \in Nat
  BY SettingsAssumption
<1>2. Config(s)[f] >= Floor[f]
  BY <1>1 DEF Valid
<1>3. Config(s)[f] \in Int
  <2>1. CASE InEnv(s, f)
    BY <1>1, <2>1 DEF Config, InEnv, Setup
  <2>2. CASE ~InEnv(s, f) /\ InFile(s, f)
    BY <1>1, <2>2 DEF Config, InFile, Setup, Value, Readable, Parses
  <2>3. CASE ~InEnv(s, f) /\ ~InFile(s, f)
    BY <1>1, <2>3 DEF Config
  <2> QED
    BY <2>1, <2>2, <2>3
<1>4. HubOptions(s)[f] = IF Config(s)[f] > 0 THEN Config(s)[f] ELSE HubDefault[f]
  BY DEF HubOptions
<1>5. CASE Config(s)[f] > 0
  BY <1>4, <1>5
<1>6. CASE ~(Config(s)[f] > 0)
  <2>1. Config(s)[f] = 0 /\ ~(Floor[f] > 0)
    BY <1>1, <1>2, <1>3, <1>6
  <2> QED
    BY <1>4, <2>1, FloorAssumption
<1> QED
  BY <1>5, <1>6

-----------------------------------------------------------------------------
LEMMA InitHolds == Init => IInv
<1> SUFFICES ASSUME Init
             PROVE  IInv
  OBVIOUS
<1> USE DEF Init, MigrationInit, Fresh, First, Legacy
<1>1. TypeOK
  BY ScriptFacts DEF TypeOK, Schema, Files, Done
<1>2. DiskInv
  BY DEF DiskInv, RecordedMeansApplied
<1>3. PlaceInv
  BY DEF PlaceInv, Settled, Early
<1>4. EndInv
  BY DEF EndInv, ServedStartsAgain, StoreClosedAtEnd
<1> QED
  BY <1>1, <1>2, <1>3, <1>4 DEF IInv

\* One migration step: the files and statements passed are on the disk.
LEMMA MigrateSteps == IInv /\ Migrate => IInv'
<1> SUFFICES ASSUME IInv, Migrate
             PROVE  IInv'
  OBVIOUS
<1>0. /\ TypeOK /\ DiskInv /\ PlaceInv /\ EndInv /\ CursorInv
      /\ pc = "migrate" /\ options = None /\ ended = "none" /\ failure = "none"
      /\ Readable(setup) /\ Valid(setup)
      /\ UNCHANGED <<memoryVars, endVars, countVars>>
  BY DEF IInv, Migrate, PlaceInv, EndInv, Early
<1>1. EndInv'
  BY <1>0 DEF EndInv, ServedStartsAgain, StoreClosedAtEnd, endVars, memoryVars
<1>2. (pc' = "migrate" => CursorInv') /\ (pc' = "hub" => Complete')
      /\ pc' \in {"migrate", "hub"} => PlaceInv'
  BY <1>0 DEF PlaceInv, memoryVars, Settled, Early
<1>3. CASE SkipFile /\ pc' = pc
  <2>1. file \in {1, 2} /\ file \in recorded /\ statement = 0 /\ file' = file + 1
        /\ UNCHANGED <<objects, recorded, counters, statement>>
    BY <1>0, <1>3, ScriptFacts DEF SkipFile, Done, TypeOK, diskVars
  <2>2. TypeOK'
    BY <1>0, <1>3, <2>1, ScriptFacts DEF TypeOK, Done, memoryVars
  <2>3. DiskInv'
    BY <1>0, <2>1 DEF DiskInv, RecordedMeansApplied
  <2>4. CursorInv'
    BY <1>0, <2>1 DEF CursorInv
  <2> QED
    BY <1>0, <1>1, <1>2, <1>3, <2>2, <2>3, <2>4 DEF IInv
<1>4. CASE BeginFile /\ pc' = pc
  <2>1. file \in {1, 2} /\ statement = 0 /\ statement' = 1
        /\ ~("versions" \in objects /\ file \in recorded)
        /\ UNCHANGED <<objects, recorded, counters, file>>
    BY <1>0, <1>4, ScriptFacts DEF BeginFile, Done, TypeOK, diskVars
  <2>2. TypeOK'
    BY <1>0, <1>4, <2>1, ScriptFacts DEF TypeOK, Done, memoryVars
  <2>3. DiskInv'
    BY <1>0, <2>1 DEF DiskInv, RecordedMeansApplied
  <2>4. file \notin recorded
    BY <1>0, <2>1 DEF DiskInv, RecordedMeansApplied
  <2>5. CursorInv'
    BY <1>0, <2>1, <2>4 DEF CursorInv
  <2> QED
    BY <1>0, <1>1, <1>2, <1>4, <2>2, <2>3, <2>5 DEF IInv
<1>5. CASE Record /\ pc' = pc
  <2>1. /\ file \in {1, 2} /\ statement = Len(Script[file]) + 1
        /\ recorded' = recorded \cup {file} /\ file' = file + 1 /\ statement' = 0
        /\ UNCHANGED <<objects, counters>>
    BY <1>0, <1>5, ScriptFacts DEF Record, Done, TypeOK
  <2>2. TypeOK'
    BY <1>0, <1>5, <2>1, ScriptFacts DEF TypeOK, Done, memoryVars, Files
  <2>3. DiskInv'
    <3>1. CASE file = 1
      <4>1. \A i \in 1..4 : Script[1][i] \in objects \cup {"backfill"}
        BY <1>0, <2>1, <3>1, ScriptFacts DEF CursorInv
      <4>2. {"versions", "rooms", "updates", "index"} \subseteq objects
        BY <4>1, ScriptFacts
      <4> QED
        BY <1>0, <2>1, <3>1, <4>2 DEF DiskInv, RecordedMeansApplied
    <3>2. CASE file = 2
      <4>1. \A i \in 1..3 : Script[2][i] \in objects \cup {"backfill"}
        BY <1>0, <2>1, <3>2, ScriptFacts DEF CursorInv
      <4>2. {"storage_bytes", "update_count"} \subseteq objects /\ counters = "right"
        BY <1>0, <2>1, <3>2, <4>1, ScriptFacts DEF CursorInv
      <4>3. 1 \in recorded
        BY <1>0, <3>2 DEF CursorInv
      <4> QED
        BY <1>0, <2>1, <3>2, <4>2, <4>3 DEF DiskInv, RecordedMeansApplied
    <3> QED
      BY <2>1, <3>1, <3>2
  <2>4. CursorInv'
    BY <1>0, <2>1 DEF CursorInv
  <2> QED
    BY <1>0, <1>1, <1>2, <1>5, <2>2, <2>3, <2>4 DEF IInv
<1>6. ASSUME NEW name \in Schema \cup {"backfill"}, Execute(name), pc' = pc
      PROVE  IInv'
  <2>1. /\ file \in {1, 2} /\ statement \in DOMAIN Script[file] /\ name = Script[file][statement]
        /\ statement' = statement + 1 /\ counters' = IF name = "backfill" THEN "right" ELSE counters
        /\ UNCHANGED <<recorded, file>>
    BY <1>0, <1>6, ScriptFacts DEF Execute, Executing, Done, TypeOK
  <2>2. /\ objects \subseteq objects' /\ objects' \subseteq Schema
        /\ name \in objects' \cup {"backfill"}
    BY <1>0, <1>6, ExecuteGrows DEF TypeOK
  <2>3. TypeOK'
    <3>1. statement' \in 0..(Len(Script[file]) + 1)
      BY <2>1, ScriptFacts
    <3> QED
      BY <1>0, <1>6, <2>1, <2>2, <3>1, ScriptFacts DEF TypeOK, Done, memoryVars
  <2>4. DiskInv'
    BY <1>0, <2>1, <2>2 DEF DiskInv, RecordedMeansApplied
  <2>5. CursorInv'
    <3>1. statement \in Nat /\ statement # 0
      BY <2>1, ScriptFacts
    <3>2. file \notin recorded
      BY <1>0, <3>1 DEF CursorInv
    <3>3. ASSUME NEW i \in 1..(statement' - 1)
          PROVE  Script[file][i] \in objects' \cup {"backfill"}
      <4>1. CASE i = statement
        BY <2>1, <2>2, <4>1
      <4>2. CASE i # statement
        BY <1>0, <2>1, <2>2, <3>1, <4>2 DEF CursorInv
      <4> QED
        BY <4>1, <4>2
    <3>4. file = 2 /\ statement' = 4 => counters' = "right"
      BY <2>1, <3>1, ScriptFacts
    <3> QED
      BY <1>0, <2>1, <3>2, <3>3, <3>4 DEF CursorInv
  <2> QED
    BY <1>0, <1>1, <1>2, <1>6, <2>3, <2>4, <2>5 DEF IInv
<1>7. CASE EnsureClosedAt /\ pc' = "hub"
  <2>1. file = 3 /\ objects' = objects \cup {"closed_at"}
        /\ UNCHANGED <<recorded, counters, file, statement>>
    BY <1>0, <1>7, ScriptFacts DEF EnsureClosedAt, Done, TypeOK, cursorVars
  <2>2. recorded = Files
    <3>1. 1 \in recorded /\ 2 \in recorded
      BY <1>0, <2>1 DEF CursorInv
    <3>2. \A x \in Files : x \in recorded
      <4>1. \A x \in 1..2 : x = 1 \/ x = 2
        OBVIOUS
      <4> QED
        BY <3>1, <4>1 DEF Files
    <3>3. recorded \subseteq Files
      BY <1>0 DEF TypeOK
    <3> QED
      BY <3>2, <3>3
  <2>3. Complete'
    <3>1. 1 \in recorded /\ 2 \in recorded
      BY <2>2 DEF Files
    <3>2. /\ {"versions", "rooms", "updates", "index", "storage_bytes", "update_count"} \subseteq objects
          /\ objects \subseteq Schema /\ counters = "right"
      BY <1>0, <3>1 DEF DiskInv, RecordedMeansApplied, TypeOK
    <3>3. objects' = Schema
      BY <2>1, <3>2 DEF Schema
    <3> QED
      BY <2>1, <2>2, <3>2, <3>3 DEF Complete
  <2>4. TypeOK'
    BY <1>0, <1>7, <2>1, <2>3 DEF TypeOK, Complete, Done, memoryVars
  <2>5. DiskInv'
    BY <1>0, <2>1 DEF DiskInv, RecordedMeansApplied
  <2> QED
    BY <1>0, <1>1, <1>2, <1>7, <2>3, <2>4, <2>5 DEF IInv
<1> QED
  BY <1>3, <1>4, <1>5, <1>6, <1>7 DEF Migrate

-----------------------------------------------------------------------------
\* No other step touches the disk.
LEMMA OtherSteps ==
    ASSUME IInv, [Next]_vars, ~Migrate
    PROVE  IInv'
<1>0. TypeOK /\ DiskInv /\ PlaceInv /\ EndInv
  BY DEF IInv
<1> USE DEF countVars, endVars, memoryVars
<1>1. ASSUME UNCHANGED <<diskVars, cursorVars>>,
             TypeOK => TypeOK', PlaceInv', EndInv'
      PROVE  IInv'
  BY <1>0, <1>1 DEF IInv, DiskInv, RecordedMeansApplied, diskVars
<1>2. ASSUME UNCHANGED <<diskVars, cursorVars>>
      PROVE  (Complete <=> Complete') /\ (CursorInv <=> CursorInv')
             /\ (TypeOK /\ pc' \in {"down", "config", "log", "open", "migrate", "hub", "stun",
                   "notify", "listen", "serving", "close_stun", "close_store"}
                 /\ setup' \in Setups
                 /\ handler' \in {"off", "waiting", "closing", "shutting", "done"} => TypeOK')
  BY <1>2 DEF Complete, CursorInv, TypeOK, diskVars, cursorVars, Done
<1>3. CASE Start
  <2>1. UNCHANGED <<diskVars, cursorVars>> /\ pc' = "config" /\ setup' \in Setups
        /\ options' = None /\ ended' = "none" /\ failure' = "none" /\ handler' = "off"
    BY <1>3 DEF Start, Goto
  <2>2. PlaceInv'
    BY <2>1 DEF PlaceInv, Settled, Early
  <2>3. EndInv'
    BY <2>1 DEF EndInv, ServedStartsAgain, StoreClosedAtEnd
  <2> QED
    BY <1>1, <1>2, <2>1, <2>2, <2>3 DEF TypeOK
\* A step ends the process: what is in memory stays as it was.
<1>4. ASSUME UNCHANGED <<diskVars, cursorVars, setup, options, handler>>,
             pc # "down", pc' = "down",
             failure' = "migration" => recorded # Files,
             ended' \in {"panic", "return"} => ~storeOpen'
      PROVE  IInv'
  <2>1. PlaceInv'
    BY <1>0, <1>2, <1>4 DEF PlaceInv, Settled, Early
  <2>2. EndInv'
    BY <1>4 DEF EndInv, ServedStartsAgain, StoreClosedAtEnd, diskVars
  <2> QED
    BY <1>0, <1>1, <1>2, <1>4, <2>1, <2>2 DEF TypeOK
<1>5. ASSUME NEW from \in {"config", "log", "open", "stun", "listen"}, NEW why \in {"config", "io", "port"},
             Fatal(from, why)
      PROVE  IInv'
  BY <1>4, <1>5 DEF Fatal, Goto
<1>6. CASE ConfigRefused \/ FileFails \/ PortFails
  BY <1>5, <1>6 DEF ConfigRefused, FileFails, PortFails
<1>7. ASSUME NEW why \in {"migration", "io"}, MigrateFails(why)
      PROVE  IInv'
  <2>1. why = "migration" => recorded # Files
    <3>1. CursorInv /\ file \in 1..3
      BY <1>0, <1>7, ScriptFacts DEF MigrateFails, Goto, PlaceInv, TypeOK
    <3>2. CASE why = "migration"
      <4>1. file \in {1, 2} /\ statement # 0
        BY <1>7, <3>1, <3>2, ScriptFacts DEF MigrateFails, Executing, Done
      <4> QED
        BY <3>1, <4>1 DEF CursorInv, Files
    <3> QED
      BY <3>2
  <2> QED
    BY <1>4, <1>7, <2>1 DEF MigrateFails, Goto
<1>8. CASE Kill
  BY <1>4, <1>8 DEF Kill
<1>9. CASE CloseStore
  <2>1. pc = "close_store" /\ failure = "none"
    BY <1>0, <1>9 DEF CloseStore, Goto, EndInv
  <2> QED
    BY <1>4, <1>9, <2>1 DEF CloseStore, Goto
<1>10. CASE LoadConfig
  <2>1. PlaceInv'
    BY <1>0, <1>2, <1>10 DEF LoadConfig, Goto, PlaceInv, Settled, Early
  <2>2. EndInv'
    BY <1>0, <1>10 DEF LoadConfig, Goto, EndInv, ServedStartsAgain, StoreClosedAtEnd, diskVars
  <2> QED
    BY <1>0, <1>1, <1>2, <1>10, <2>1, <2>2 DEF LoadConfig, Goto, TypeOK
<1>11. CASE Open
  <2>1. pc = "open" /\ pc' = "migrate" /\ file' = 1 /\ statement' = 0
        /\ UNCHANGED <<diskVars, setup, options, handler, ended, failure>>
    BY <1>11 DEF Open, Goto, MigrationStart
  <2>2. TypeOK'
    BY <1>0, <2>1, ScriptFacts DEF TypeOK, Done, diskVars
  <2>3. CursorInv'
    BY <2>1 DEF CursorInv
  <2>4. PlaceInv'
    BY <1>0, <2>1, <2>3 DEF PlaceInv, Settled, Early
  <2>5. EndInv'
    BY <1>0, <2>1 DEF EndInv, ServedStartsAgain, StoreClosedAtEnd, diskVars
  <2>6. DiskInv'
    BY <1>0, <2>1 DEF DiskInv, RecordedMeansApplied, diskVars
  <2> QED
    BY <2>2, <2>4, <2>5, <2>6 DEF IInv
<1>12. CASE NewHub
  <2>1. PlaceInv'
    BY <1>0, <1>2, <1>12 DEF NewHub, Goto, PlaceInv, Settled, Early
  <2>2. EndInv'
    BY <1>0, <1>12 DEF NewHub, Goto, EndInv, ServedStartsAgain, StoreClosedAtEnd, diskVars
  <2> QED
    BY <1>0, <1>1, <1>2, <1>12, <2>1, <2>2 DEF NewHub, Goto, TypeOK
\* main goes on, or a goroutine does a step of its own.
<1>13. ASSUME UNCHANGED <<diskVars, cursorVars, setup, options, ended, failure>>,
              \/ pc = "log" /\ pc' = "open"
              \/ pc \in Settled /\ pc' \in Settled \ {"hub"}
              \/ pc' = pc,
              pc # "down" \/ storeOpen' = storeOpen,
              handler' \in {"off", "waiting", "closing", "shutting", "done"}
       PROVE  IInv'
  <2>1. PlaceInv'
    BY <1>0, <1>2, <1>13 DEF PlaceInv, Settled, Early
  <2>2. EndInv'
    BY <1>0, <1>13 DEF EndInv, ServedStartsAgain, StoreClosedAtEnd, diskVars, Settled
  <2> QED
    BY <1>0, <1>1, <1>2, <1>13, <2>1, <2>2 DEF TypeOK, Settled
<1>14. CASE ConfigureLogging \/ StartSTUN \/ Notify \/ Listen \/ ListenReturns \/ CloseStun
  BY <1>0, <1>13, <1>14 DEF ConfigureLogging, StartSTUN, Notify, Listen, ListenReturns,
     CloseStun, Goto, Settled, TypeOK
<1>15. CASE Handler
  BY <1>0, <1>13, <1>15 DEF Handler, TakeSignal, HandlerClosesStun, Shutdown, TypeOK
<1>16. CASE Signal
  <2>1. CASE handler = "off"
    BY <1>0, <1>4, <1>16, <2>1 DEF Signal, EndInv
  <2>2. CASE handler # "off"
    BY <1>0, <1>13, <1>16, <2>2 DEF Signal, TypeOK
  <2> QED
    BY <2>1, <2>2
<1>17. CASE UNCHANGED vars
  BY <1>0, <1>13, <1>17 DEF vars, TypeOK
<1> QED
  BY <1>3, <1>6, <1>7, <1>8, <1>9, <1>10, <1>11, <1>12, <1>14, <1>15, <1>16, <1>17 DEF Next, Main

THEOREM Invariance == Spec => []IInv
<1>1. IInv /\ [Next]_vars => IInv'
  BY MigrateSteps, OtherSteps
<1> QED
  BY InitHolds, <1>1, PTL DEF Spec

-----------------------------------------------------------------------------
\* The disk, the migration cursor and the places of main and of the goroutine for
\* signals keep their types (sqlite.go migrate, main.go).
THEOREM LifeTypeCorrect == Spec => []TypeOK
<1>1. IInv => TypeOK
  BY DEF IInv
<1> QED
  BY Invariance, <1>1, PTL

\* A migration file that is recorded has been applied, however often starts were
\* interrupted on the way (migrate).
THEOREM RecordsAreTrue == Spec => []RecordedMeansApplied
<1>1. IInv => RecordedMeansApplied
  BY DEF IInv, DiskInv
<1> QED
  BY Invariance, <1>1, PTL

\* A hub never works on half a schema (migrate, ensureClosedAtColumn, main).
THEOREM HubHasItsSchema == Spec => []WorksOnCompleteSchema
<1>1. IInv => WorksOnCompleteSchema
  BY DEF IInv, PlaceInv, Complete, WorksOnCompleteSchema
<1> QED
  BY Invariance, <1>1, PTL

\* Once all files are recorded no later start fails of its migration (migrate).
THEOREM ServedDatabaseStartsAgain == Spec => []ServedStartsAgain
<1>1. IInv => ServedStartsAgain
  BY DEF IInv, EndInv
<1> QED
  BY Invariance, <1>1, PTL

\* The hub takes over what the configuration says, for every table of defaults and
\* floors that satisfies FloorAssumption (validateConfig, NewHub).
THEOREM HubTakesTheConfiguration == Spec => []HubRunsAsConfigured
<1>1. IInv => HubRunsAsConfigured
  BY OptionsAreConfig, LifeAssumption DEF IInv, PlaceInv, TypeOK, HubRunsAsConfigured
<1> QED
  BY Invariance, <1>1, PTL

\* The deferred calls close the store whichever way main ends (main.go, Close).
THEOREM StoreIsClosed == Spec => []StoreClosedAtEnd
<1>1. IInv => StoreClosedAtEnd
  BY DEF IInv, EndInv
<1> QED
  BY Invariance, <1>1, PTL
=============================================================================
