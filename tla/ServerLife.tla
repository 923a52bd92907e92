----------------------------- MODULE ServerLife -----------------------------
(***************************************************************************)
(* The life of the server process (main.go): a start reads the             *)
(* configuration, opens the log and the store, migrates the database,      *)
(* makes the hub, starts STUN, listens to signals and serves; a signal     *)
(* makes a goroutine close STUN and shut the HTTP server down, whereupon   *)
(* main runs its deferred calls.  The process may be killed at any moment; *)
(* what is on the disk stays.                                              *)
(***************************************************************************)
EXTENDS Migrations, Settings

CONSTANTS
    Setups,     \* what the starts may find
    MaxStarts,  \* bound: starts of the process
    MaxSignals, \* bound: SIGINT or SIGTERM sent, over all starts
    None

ASSUME LifeAssumption ==
    /\ Setups \subseteq Setup
    /\ MaxStarts \in Nat /\ MaxSignals \in Nat

VARIABLES
    pc,         \* where main is; "down" without a process
    setup,      \* what this start found
    options,    \* what NewHub made of it, or None
    storeOpen,
    stunOpen,
    handler,    \* the goroutine for signals: "off", "waiting", "closing", "shutting", "done"
    quit,       \* the signal in the channel quit
    shutdown,   \* the HTTP server has been told to stop
    panicking,  \* a deferred call of main has panicked
    ended,      \* how the last process ended: "none", "fatal", "killed", "panic", "return"
    failure,    \* what the last fatal start failed of
    starts, signals

memoryVars == <<setup, options, storeOpen, stunOpen, handler, quit, shutdown, panicking>>
endVars    == <<ended, failure>>
countVars  == <<starts, signals>>
vars       == <<diskVars, cursorVars, pc, memoryVars, endVars, countVars>>

-----------------------------------------------------------------------------
Goto(from, to) == pc = from /\ pc' = to

\* log.Fatal: os.Exit, without the deferred calls.
Fatal(from, why) ==
    /\ Goto(from, "down")
    /\ ended' = "fatal" /\ failure' = why
    /\ UNCHANGED <<diskVars, cursorVars, memoryVars, countVars>>

Start ==
    /\ Goto("down", "config")
    /\ starts < MaxStarts /\ starts' = starts + 1
    /\ setup' \in Setups
    /\ options' = None
    /\ storeOpen' = FALSE /\ stunOpen' = FALSE
    /\ handler' = "off" /\ quit' = FALSE /\ shutdown' = FALSE /\ panicking' = FALSE
    /\ ended' = "none" /\ failure' = "none"
    /\ UNCHANGED <<diskVars, cursorVars, signals>>

ConfigRefused == ~(Readable(setup) /\ Valid(setup)) /\ Fatal("config", "config")

LoadConfig ==
    /\ Goto("config", "log")
    /\ Readable(setup) /\ Valid(setup)
    /\ UNCHANGED <<diskVars, cursorVars, memoryVars, endVars, countVars>>

ConfigureLogging ==
    /\ Goto("log", "open")
    /\ UNCHANGED <<diskVars, cursorVars, memoryVars, endVars, countVars>>

\* The log or the database file cannot be had.
FileFails == Fatal("log", "io") \/ Fatal("open", "io")

Open ==
    /\ Goto("open", "migrate")
    /\ storeOpen' = TRUE
    /\ MigrationStart
    /\ UNCHANGED <<diskVars, setup, options, stunOpen, handler, quit, shutdown, panicking,
                   endVars, countVars>>

Migrate ==
    /\ pc = "migrate"
    /\ \/ /\ SkipFile \/ BeginFile \/ Record \/ \E name \in Schema \cup {"backfill"} : Execute(name)
          /\ pc' = pc
       \/ EnsureClosedAt /\ pc' = "hub"
    /\ UNCHANGED <<memoryVars, endVars, countVars>>

\* Open closes the database and returns the error, which is fatal.
MigrateFails(why) ==
    /\ Goto("migrate", "down")
    /\ why = "migration" => \E name \in Schema : Executing(name) /\ ColumnExists(name)
    /\ storeOpen' = FALSE
    /\ ended' = "fatal" /\ failure' = why
    /\ UNCHANGED <<diskVars, cursorVars, setup, options, stunOpen, handler, quit, shutdown,
                   panicking, countVars>>

\* NewHub, RegisterRoutes and StartCleanup.
NewHub ==
    /\ Goto("hub", "stun")
    /\ options' = HubOptions(setup)
    /\ UNCHANGED <<diskVars, cursorVars, setup, storeOpen, stunOpen, handler, quit, shutdown,
                   panicking, endVars, countVars>>

StartSTUN ==
    /\ Goto("stun", "notify")
    /\ stunOpen' = TRUE
    /\ UNCHANGED <<diskVars, cursorVars, setup, options, storeOpen, handler, quit, shutdown,
                   panicking, endVars, countVars>>

\* The port is taken, for UDP or for TCP.
PortFails == Fatal("stun", "port") \/ Fatal("listen", "port")

Notify ==
    /\ Goto("notify", "listen")
    /\ handler' = "waiting"
    /\ UNCHANGED <<diskVars, cursorVars, setup, options, storeOpen, stunOpen, quit, shutdown,
                   panicking, endVars, countVars>>

Listen ==
    /\ Goto("listen", "serving")
    /\ UNCHANGED <<diskVars, cursorVars, memoryVars, endVars, countVars>>

-----------------------------------------------------------------------------
(* Signals *)

\* Before signal.Notify a signal ends the process; afterwards it waits in the
\* channel, which holds one.
Signal ==
    /\ pc # "down"
    /\ signals < MaxSignals /\ signals' = signals + 1
    /\ IF handler = "off"
       THEN pc' = "down" /\ ended' = "killed" /\ quit' = quit
       ELSE quit' = TRUE /\ UNCHANGED <<pc, ended>>
    /\ UNCHANGED <<diskVars, cursorVars, setup, options, storeOpen, stunOpen, handler, shutdown,
                   panicking, failure, starts>>

TakeSignal ==
    /\ pc # "down" /\ handler = "waiting" /\ quit
    /\ handler' = "closing" /\ quit' = FALSE
    /\ UNCHANGED <<diskVars, cursorVars, pc, setup, options, storeOpen, stunOpen, shutdown,
                   panicking, endVars, countVars>>

HandlerClosesStun ==
    /\ pc # "down" /\ handler = "closing"
    /\ handler' = "shutting" /\ stunOpen' = FALSE
    /\ UNCHANGED <<diskVars, cursorVars, pc, setup, options, storeOpen, quit, shutdown,
                   panicking, endVars, countVars>>

\* Mutant: the handler stops with STUN.
ShutdownForgotten ==
    /\ pc # "down" /\ handler = "shutting"
    /\ handler' = "done"
    /\ UNCHANGED <<diskVars, cursorVars, pc, setup, options, storeOpen, stunOpen, quit,
                   shutdown, panicking, endVars, countVars>>

\* The library stops the listener there is; if there is none yet, it does nothing.
Shutdown ==
    /\ pc # "down" /\ handler = "shutting"
    /\ handler' = "done" /\ shutdown' = (pc = "serving")
    /\ UNCHANGED <<diskVars, cursorVars, pc, setup, options, storeOpen, stunOpen, quit,
                   panicking, endVars, countVars>>

-----------------------------------------------------------------------------
(* The end of main *)

\* Listen returns once the listener is closed; it does not wait for the handler.
ListenReturns ==
    /\ Goto("serving", "close_stun")
    /\ shutdown
    /\ UNCHANGED <<diskVars, cursorVars, memoryVars, endVars, countVars>>

\* Mutant: the panic of the first deferred call ends the process.
CloseStunAborts ==
    /\ pc = "close_stun"
    /\ pc' = IF stunOpen THEN "close_store" ELSE "down"
    /\ ended' = IF stunOpen THEN ended ELSE "panic"
    /\ stunOpen' = FALSE
    /\ UNCHANGED <<diskVars, cursorVars, setup, options, storeOpen, handler, quit, shutdown,
                   panicking, failure, countVars>>

\* STUNServer.Close closes its channel done, and panics if that was closed.
CloseStun ==
    /\ Goto("close_stun", "close_store")
    /\ panicking' = ~stunOpen
    /\ stunOpen' = FALSE
    /\ UNCHANGED <<diskVars, cursorVars, setup, options, storeOpen, handler, quit, shutdown,
                   endVars, countVars>>

\* The deferred calls go on after a panic.
CloseStore ==
    /\ Goto("close_store", "down")
    /\ storeOpen' = FALSE
    /\ ended' = IF panicking THEN "panic" ELSE "return"
    /\ UNCHANGED <<diskVars, cursorVars, setup, options, stunOpen, handler, quit, shutdown,
                   panicking, failure, countVars>>

\* Power fails, or somebody sends SIGKILL.
Kill ==
    /\ pc # "down" /\ pc' = "down"
    /\ ended' = "killed" /\ failure' = "none"
    /\ UNCHANGED <<diskVars, cursorVars, memoryVars, countVars>>

-----------------------------------------------------------------------------
Init ==
    /\ MigrationInit
    /\ pc = "down"
    /\ setup \in Setups
    /\ options = None
    /\ storeOpen = FALSE /\ stunOpen = FALSE
    /\ handler = "off" /\ quit = FALSE /\ shutdown = FALSE /\ panicking = FALSE
    /\ ended = "none" /\ failure = "none"
    /\ starts = 0 /\ signals = 0

Main ==
    \/ ConfigRefused \/ LoadConfig \/ ConfigureLogging \/ FileFails \/ Open
    \/ Migrate \/ MigrateFails("migration") \/ NewHub \/ StartSTUN \/ PortFails \/ Notify \/ Listen
    \/ ListenReturns \/ CloseStun \/ CloseStore

Handler == TakeSignal \/ HandlerClosesStun \/ Shutdown

Next == Start \/ Main \/ MigrateFails("io") \/ Handler \/ Signal \/ Kill

Spec == Init /\ [][Next]_vars

\* Goroutines that can go on do; nobody need start, signal or kill the process.
FairSpec == Spec /\ WF_vars(Main) /\ WF_vars(Handler)

-----------------------------------------------------------------------------
(* Properties *)

TypeOK ==
    /\ objects \subseteq Schema
    /\ recorded \subseteq Files
    /\ counters \in {"unset", "right"}
    /\ file \in 1..(Len(Script) + 1)
    /\ statement \in 0..(IF Done THEN 0 ELSE Len(Script[file]) + 1)
    /\ pc \in {"down", "config", "log", "open", "migrate", "hub", "stun", "notify", "listen",
               "serving", "close_stun", "close_store"}
    /\ setup \in Setups
    /\ handler \in {"off", "waiting", "closing", "shutting", "done"}

\* A server that has come as far as its hub works on a complete schema whose
\* counters are right for every row, wherever earlier starts were interrupted
\* (migrate, ensureClosedAtColumn).
WorksOnCompleteSchema ==
    options # None => objects = Schema /\ counters = "right" /\ recorded = Files

\* A database that has once been served is never refused by a later start.
ServedStartsAgain == recorded = Files => failure # "migration"

\* The hub runs with the very values loadConfig has returned: none that
\* validateConfig lets pass is replaced by NewHub's own default, but for the
\* maxClientsPerRoom of 0.
HubRunsAsConfigured ==
    options # None => \A f \in HubFields :
        \/ options[f] = Config(setup)[f]
        \/ f = "maxClientsPerRoom" /\ Config(setup)[f] = 0

\* Whoever stops main by a signal gets the store closed, although closing STUN
\* for the second time panics first.
StoreClosedAtEnd == ended \in {"return", "panic"} => ~storeOpen

\* A signal to a server that serves ends the process.
SignalEnds == (pc = "serving" /\ handler = "waiting" /\ quit) ~> (pc = "down")

\* migrations.go: the SQL must be idempotent, so that a start never fails of it.
MigrationIsIdempotent == failure # "migration"

\* A signal that is taken ends the process, whenever it comes.
SignalAlwaysEnds == (pc # "down" /\ quit) ~> (pc = "down")
=============================================================================
