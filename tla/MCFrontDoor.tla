----------------------------- MODULE MCFrontDoor -----------------------------
EXTENDS FrontDoor, Bitwise

CONSTANTS home, guest, proxy, c1, badHost, goodHost

XorBits(a, b) == a ^^ b
WordsHere == (0..8) \cup {33, 18, 164, 66, 8466, 4919, 8192, 255}

AddressesHere == {home, guest, proxy}
KeysHere == (Tables \X AddressesHere) \cup ({"message"} \X {c1})

\* The burst, the price and the time to live of a table, in units of the finest refill.
Numbers(create, ws, stun, message) == [k \in KeysHere |->
    CASE k[1] = "create" -> create [] k[1] = "ws" -> ws
      [] k[1] = "stun" -> stun [] OTHER -> message]
CapHere  == Numbers(2, 1, 1, 2)
CostHere == Numbers(2, 1, 1, 2)
TTLHere  == Numbers(2, 1, 1, 2)

\* home comes directly or through the proxy, and may claim to be guest; guest
\* is listed by its plain address, which is no network.
ProxiesHere == {[cidr |-> TRUE, net |-> {proxy}], [cidr |-> FALSE, net |-> {guest}]}
Way(origin, via, claimed) == [origin |-> origin, via |-> via, claimed |-> claimed]
WaysHere == {Way(home, <<>>, <<guest>>), Way(home, <<proxy>>, <<guest, Junk>>),
             Way(home, <<guest, proxy>>, <<>>),
             Way(proxy, <<proxy>>, <<>>)}

Form(json, server, host, app) == [json |-> json, server |-> server, host |-> host, app |-> app]
FormsHere == {Form(TRUE, "none", badHost, "none"), Form(TRUE, "https", goodHost, "timenotes"),
              Form(TRUE, "http", badHost, "none")}
HostsHere == {goodHost}

SourcesHere == {[addr |-> home, ip |-> <<1, 0, 255, 2>>, port |-> 4919],
                [addr |-> guest, ip |-> <<33, 1, 2, 3, 4, 5, 6, 7, 8, 1, 2, 3, 4, 5, 6, 7>>,
                 port |-> 8192]}
Transaction == <<8, 7, 6, 5, 4, 3, 2, 1, 255, 0, 164, 66>>
Packet(size, length) == [size |-> size, type |-> BindingRequest, length |-> length,
                         cookie |-> Cookie, tid |-> Transaction]
PacketsHere == {Packet(20, 0), Packet(24, 8)}
=============================================================================
