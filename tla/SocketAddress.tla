--------------------------- MODULE SocketAddress ---------------------------
(***************************************************************************)
(* rp::net::SocketAddress (arch/linux/net_socket.cpp): what the operations *)
(* do to the sockaddr_storage they share.  sockaddr_in and sockaddr_in6    *)
(* keep the port in the same place and the host in different ones.  A host *)
(* is named by its text; "any", "loopback" and "broadcast" are well known. *)
(***************************************************************************)
EXTENDS Integers

CONSTANTS Texts4, Texts6, \* texts that inet_pton() takes for IPv4 and for IPv6
          OtherTexts,     \* texts it takes for neither
          Ports           \* numbers given for ports, of type int

ASSUME AddressAssumption ==
  /\ Texts4 \cap (Texts6 \cup OtherTexts) = {} /\ Texts6 \cap OtherTexts = {}
  /\ Ports \subseteq Int

Texts == Texts4 \cup Texts6 \cup OtherTexts
Types == {"inet", "inet6", "unspec"}
Hosts4 == Texts4 \cup {"any", "loopback", "broadcast"}
Hosts6 == Texts6 \cup {"any", "loopback"}

\* Ports have 16 bits.
PortCount == 65536
PortNumbers == 0 .. PortCount - 1
Addresses ==
  [family : {"inet", "inet6"}, port : PortNumbers, v4 : Hosts4, v6 : Hosts6]

\* SocketAddress(): all zero, IPv4.
Blank == [family |-> "inet", port |-> 0, v4 |-> "any", v6 |-> "any"]

\* getAddressType() and getPort(); setPort() cuts to 16 bits, for either type.
AddressType(a) == a.family
PortOf(a) == a.port
WithPortUncut(a, port) == [a EXCEPT !.port = port] \* a slip, for the type invariant to notice
Cut(port) == port % PortCount
WithPort(a, port) == [a EXCEPT !.port = Cut(port)]

\* _halAddrTypeToOSType(), with the numbers of Linux.
OSType(type) == CASE type = "inet" -> 2 [] type = "inet6" -> 10 [] type = "unspec" -> 0

\* setAddressFromString(): the type is changed even if the text is refused.
Parses(text, type) == text \in IF type = "inet" THEN Texts4 ELSE Texts6
FromString(a, text, type) ==
  LET host == IF type = "inet" THEN "v4" ELSE "v6"
      b == [a EXCEPT !.family = type]
      c == IF Parses(text, type) THEN [b EXCEPT ![host] = text] ELSE b
  IN IF type = "unspec" THEN a ELSE WithPort(c, PortOf(a))

FromStringResult(text, type) ==
  IF type # "unspec" /\ Parses(text, type) THEN "OK" ELSE "INVALID_DATA"

\* A slip for a property to notice; the specification does not use it.
NamedWithoutPort(text, port, type) == FromString(Blank, text, type)

\* SocketAddress(text, port, type): what the text parses to is not looked at.
Named(text, port, type) == WithPort(FromString(Blank, text, type), port)

\* getRawAddress() looks at the size of the buffer first.
RawSize(a) == IF AddressType(a) = "inet" THEN 4 ELSE 16
RawResult(a, size) == IF size < RawSize(a) THEN "INSUFFICIENT_MEMORY" ELSE "OK"

\* getAddressAsString(): 16 bytes hold every IPv4 text and 46 every IPv6 one;
\* in less a short text may fit.
StringSize(a) == IF AddressType(a) = "inet" THEN 16 ELSE 46
StringResults(a, size) == IF size < StringSize(a) THEN {"OK", "FAIL"} ELSE {"OK"}

\* setLoopbackAddress(), setBroadcastAddressIPv4(), setAnyAddress().
WellKnown(a, host, type) ==
  CASE type = "inet"  -> [a EXCEPT !.family = "inet", !.v4 = host]
    [] type = "inet6" -> [a EXCEPT !.family = "inet6", !.v6 = host]
    [] OTHER          -> a
Loopback(a, type) == WithPort(WellKnown(a, "loopback", type), PortOf(a))
Broadcast(a) == WithPort(WellKnown(a, "broadcast", "inet"), PortOf(a))
AnyAddress(a, type) == WithPort(WellKnown(a, "any", type), PortOf(a))

\* LoopUpHostName() over what the resolver finds.  Without DNS two flags go
\* into the family instead of the flags, and the resolver knows no such
\* family.  The families of the system are compared with the numbers of the
\* address types, 1 and 2: no address but an IPv4 one passes.
TypeNumber(type) == CASE type = "unspec" -> 0 [] type = "inet" -> 1 [] type = "inet6" -> 2
LookUp(found, performDNS) ==
  IF performDNS THEN {a \in found : OSType(a.family) \in {TypeNumber("inet"), TypeNumber("inet6")}}
                ELSE {}
=============================================================================
