---------------------------- MODULE MCServerLife ----------------------------
EXTENDS ServerLife

\* One setting of each kind: floor or none, an environment variable or none, an
\* own default of the hub or none.
FieldsHere   == {"maxUpdateBytes", "readDeadline", "maxClientsPerRoom", "maxGlobalRooms"}
FromEnvHere  == FieldsHere \ {"readDeadline"}
DefaultHere  == [f \in FieldsHere |-> IF f = "maxGlobalRooms" THEN 0 ELSE 2]
FloorHere    == [f \in FieldsHere |-> IF f \in {"maxUpdateBytes", "readDeadline"} THEN 1 ELSE 0]

Plain == [f \in FieldsHere |-> Unset]

Machine(kind, values, env, secret) ==
    [explicit |-> FALSE, file |-> kind, values |-> values, env |-> env,
     addr |-> "public", secret |-> secret, insecure |-> FALSE]

SetupsHere == {
    \* nothing but a secret, and the same with a file that says zero or nonsense
    Machine("absent", Plain, Plain, "strong"),
    Machine("readable", [Plain EXCEPT !["maxClientsPerRoom"] = 0, !["maxUpdateBytes"] = 0],
            Plain, "strong"),
    \* the environment over the file
    Machine("readable", [Plain EXCEPT !["maxClientsPerRoom"] = 0, !["maxGlobalRooms"] = 3],
            [Plain EXCEPT !["maxGlobalRooms"] = 1, !["maxUpdateBytes"] = Garbled], "strong"),
    \* the example, with its durations
    Machine("readable", [Plain EXCEPT !["readDeadline"] = Text], Plain, "strong"),
    \* a development machine, and what only that may do
    [Machine("absent", Plain, Plain, "none") EXCEPT !.addr = "loopback"],
    Machine("absent", Plain, [Plain EXCEPT !["maxGlobalRooms"] = -1], "strong"),
    Machine("absent", Plain, Plain, "short"),
    \* a file that was asked for and is not there
    [Machine("absent", Plain, Plain, "strong") EXCEPT !.explicit = TRUE]}
=============================================================================
