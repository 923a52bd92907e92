---------------------------- MODULE StunMessage ----------------------------
(***************************************************************************)
(* The STUN binding request and its answer (stun.go).  A packet is a       *)
(* record of the header fields the server reads; its attributes are only   *)
(* counted.  An address is a sequence of 4 or 16 bytes, as net.IP is once  *)
(* To4 has recognised the IPv4 addresses.                                  *)
(***************************************************************************)
EXTENDS Naturals, Sequences

CONSTANTS
    BitXor(_, _),  \* exclusive or of two numbers, bit by bit
    Words       \* the bytes and ports that occur

ASSUME XorAssumption == \A a, b \in Words : BitXor(BitXor(a, b), b) = a

stunHeaderSize == 20

BindingRequest == "binding_request"
BindingSuccess == "binding_success"

\* The four bytes of stunMagicCookie, 0x2112A442.
Cookie == <<33, 18, 164, 66>>
CookiePort == 256 * Cookie[1] + Cookie[2]

Masked(bytes, mask) == [i \in DOMAIN bytes |-> BitXor(bytes[i], mask[i])]

\* Mutant: the IPv6 mask forgets the transaction.
MaskOfCookie(tid) == Cookie \o Cookie \o Cookie \o Cookie

\* The 16 bytes an IPv6 address is hidden with; an IPv4 address uses the first 4.
Mask(tid) == Cookie \o tid

\* buildXORMappedAddressAttribute
XORMappedAddress(ip, port, tid) ==
    [size    |-> IF Len(ip) = 4 THEN 12 ELSE 24,
     family  |-> IF Len(ip) = 4 THEN 1 ELSE 2,
     port    |-> BitXor(port, CookiePort),
     address |-> Masked(ip, Mask(tid))]

\* What buildSTUNBindingResponse answers; the other datagrams are ignored.
WellFormed(p) ==
    /\ p.size >= stunHeaderSize
    /\ p.type = BindingRequest
    /\ p.length % 4 = 0 /\ stunHeaderSize + p.length <= p.size
    /\ p.cookie = Cookie

BindingResponse(p, ip, port) ==
    LET attr == XORMappedAddress(ip, port, p.tid)
    IN  [type |-> BindingSuccess, length |-> attr.size, cookie |-> Cookie,
         tid |-> p.tid, size |-> stunHeaderSize + attr.size, attr |-> attr]

-----------------------------------------------------------------------------
(* The other side: how a browser reads an answer (RFC 5389) *)

MappedPort(r)    == BitXor(r.attr.port, CookiePort)
MappedAddress(r) ==
    [i \in DOMAIN r.attr.address |->
        BitXor(r.attr.address[i], IF i <= 4 THEN Cookie[i] ELSE r.tid[i - 4])]

\* The answer is a well-formed success that tells a client its own address,
\* whatever the transaction.
Tells(r, p, ip, port) ==
    /\ r.type = BindingSuccess /\ r.cookie = Cookie /\ r.tid = p.tid
    /\ r.size = stunHeaderSize + r.length
    /\ r.attr.family = (IF Len(ip) = 4 THEN 1 ELSE 2)
    /\ MappedPort(r) = port
    /\ MappedAddress(r) = ip
=============================================================================
