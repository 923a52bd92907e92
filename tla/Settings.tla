------------------------------ MODULE Settings ------------------------------
(***************************************************************************)
(* How the configuration comes about: defaults, the JSON file over them,   *)
(* the environment over both (config.go), and the options the hub makes    *)
(* of it (NewHub).                                                         *)
(*                                                                         *)
(* Abstraction: a setting is a number that is compared with its floor and  *)
(* with zero.  A setup is what a start finds outside: the file, the        *)
(* environment, and the address (as addrIsLoopback judges it) and the      *)
(* secret they agree on.                                                   *)
(***************************************************************************)
EXTENDS Integers

CONSTANTS
    Fields,       \* numeric settings
    HubFields,    \* those NewHub takes over
    FromEnv,      \* those an environment variable overrides
    Default,      \* Default[f], in defaultConfig
    Floor,        \* Floor[f], the least value validateConfig lets pass
    HubDefault,   \* HubDefault[f], what NewHub puts for an option that is not positive
    Unset,        \* a setting the file or the environment does not mention
    Text,         \* a JSON string, such as "15s"
    Garbled       \* an environment variable that does not parse

Value == Int \cup {Unset, Text}

Setup ==
    [explicit : BOOLEAN,   \* TIMENOTES_CONFIG is set
     file     : {"absent", "unreadable", "malformed", "readable"},
     values   : [Fields -> Value],
     env      : [Fields -> Int \cup {Unset, Garbled}],
     addr     : {"empty", "loopback", "public"},
     secret   : {"none", "development", "short", "strong"},
     insecure : BOOLEAN]

ASSUME SettingsAssumption ==
    /\ HubFields \subseteq Fields /\ FromEnv \subseteq Fields
    /\ Default \in [Fields -> Nat]
    /\ Floor \in [Fields -> Nat]
    /\ HubDefault \in [Fields -> Nat]
    /\ Unset \notin Int /\ Text \notin Int /\ Garbled \notin Int

\* What NewHub takes for "not set" is below the floor, or means the same as its
\* default: true of every option but maxClientsPerRoom.
ASSUME FloorAssumption ==
    \A f \in HubFields \ {"maxClientsPerRoom"} : Floor[f] > 0 \/ HubDefault[f] = 0

-----------------------------------------------------------------------------
\* encoding/json refuses a string for any number, and a time.Duration is one.
Parses(s) == \A f \in Fields : s.values[f] # Text

\* A file that cannot be had is an error unless nobody asked for it.
Readable(s) ==
    \/ s.file = "readable" /\ Parses(s)
    \/ s.file = "absent" /\ ~s.explicit

InFile(s, f) == s.file = "readable" /\ s.values[f] # Unset

\* applyEnvOverrides ignores what does not parse.
InEnv(s, f) == f \in FromEnv /\ s.env[f] \notin {Unset, Garbled}

\* What loadConfig returns.
Config(s) == [f \in Fields |->
    IF InEnv(s, f) THEN s.env[f] ELSE IF InFile(s, f) THEN s.values[f] ELSE Default[f]]

\* An address other than the loopback asks for a secret of its own.
SecretAccepted(s) ==
    \/ s.insecure
    \/ s.addr = "loopback"
    \/ s.secret = "strong"

\* Mutant: the floors of the settings are not checked.
ValidUnchecked(s) == s.addr # "empty" /\ SecretAccepted(s)

\* validateConfig
Valid(s) ==
    /\ s.addr # "empty"
    /\ \A f \in Fields : Config(s)[f] >= Floor[f]
    /\ SecretAccepted(s)

\* NewHub replaces what is not positive.
HubOptions(s) == [f \in HubFields |->
    IF Config(s)[f] > 0 THEN Config(s)[f] ELSE HubDefault[f]]
=============================================================================
