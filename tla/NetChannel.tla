----------------------------- MODULE NetChannel -----------------------------
(***************************************************************************)
(* TcpChannel and UdpChannel (sl_tcp_channel.cpp, sl_udp_channel.cpp) over *)
(* the sockets of module Socket, as SlamtecSlamkitDriver uses them.  The   *)
(* owner makes channels, connects and disconnects; one thread makes        *)
(* requests.  open() and each half of a request hold the driver's lock;    *)
(* disconnect() and the assignment of another channel do not, and may come *)
(* while a request is in a call.                                           *)
(*                                                                         *)
(* The device answers each command it gets with a row of cells, <<request, *)
(* position>>; cell 0 holds the sync byte, which is all the driver checks. *)
(* A stream may bring a row in two pieces; a datagram may be lost, and     *)
(* empty ones may come.                                                    *)
(*                                                                         *)
(* Other users of the socket classes are looked at one at a time: "namer"  *)
(* calls the operations of an address, "caller" those of a socket.         *)
(***************************************************************************)
EXTENDS Socket

CONSTANTS Users,      \* of "channel", "caller", "namer"
          Timeouts,   \* what the caller gives setTimeout()
          Lengths,    \* lengths of the answers requests may be for, in cells
          MaxRequests \* bound: requests in all

ASSUME NetAssumption ==
  /\ Users \subseteq {"channel", "caller", "namer"}
  /\ Timeouts \subseteq Nat /\ Lengths \subseteq Nat \ {0} /\ MaxRequests \in Nat

VARIABLES user,      \* who uses the classes
          meant,     \* _ip and _port of the channel
          channel,   \* is there a channel?
          owner,     \* the owner: "out", "opening", "connecting", "closing"
          connected, \* _isConnected
          dropped,   \* sockets of channels that were given up without a close()
          served,    \* history: sockets whose channel has been opened, and not been
                     \* replaced while the driver was connected
          asked,     \* lengths of the answers of the requests so far
          pc,        \* where the request is; "dead" after a crash
          data,      \* what read() has put into the buffer so far
          fresh,     \* history: was nothing under way when the request began, on
                     \* a channel that was open and has not been replaced since?
          commands,  \* requests the device has yet to answer
          given,     \* cells of the first answer it has sent
          answer     \* what the last request returned

driver == <<meant, channel, owner, connected, dropped, served>>
request == <<asked, pc, data, fresh, answer>>
device == <<commands, given>>
vars == <<socket, user, driver, request, device>>

Zero == <<0, 0>>
Stranger == -1
Row(r, n) == [i \in 1 .. n |-> <<r, i - 1>>]
Current == Len(asked)
Size == asked[Current]

Init ==
  /\ user \in Users /\ kind \in {"stream", "dgram"}
  /\ fd = None /\ files = {} /\ made = 0 /\ accepted = None
  /\ sock = Bare("inet") /\ unlimited = {} /\ inbox = <<>> /\ call = Idle
  /\ result = [code |-> "none", data |-> <<>>]
  /\ IF user = "channel" THEN meant \in [text : Texts, port : Ports]
                         ELSE meant = [text |-> "any", port |-> 0]
  /\ user = "namer" => kind = "stream"
  /\ address = IF user = "caller" THEN Loopback(Blank, "inet") ELSE Blank
  /\ channel = FALSE /\ owner = "out" /\ connected = FALSE /\ dropped = {} /\ served = {}
  /\ asked = <<>> /\ pc = "out" /\ data = <<>> /\ fresh = TRUE
  /\ commands = <<>> /\ given = 0
  /\ answer = [code |-> "none", data |-> <<>>]
-----------------------------------------------------------------------------
\* The namer.
Sets(a) == address' = a /\ UNCHANGED <<object, sock, unlimited, inbox, call, result>>

NamerStep ==
  \/ \E port \in Ports : Sets(WithPort(address, port))
  \/ \E type \in Types : Sets(Loopback(address, type)) \/ Sets(AnyAddress(address, type))
  \/ Sets(Broadcast(address))
  \/ \E text \in Texts, type \in Types :
       /\ address' = FromString(address, text, type)
       /\ Returns(FromStringResult(text, type))
       /\ UNCHANGED <<object, sock, unlimited, inbox, call>>
  \/ \E size \in {4, 16} :
       Returns(RawResult(address, size)) /\ Unmoved /\ UNCHANGED sock
  \/ \E size \in {16, 46} : \E code \in StringResults(address, size) :
       Returns(code) /\ Unmoved /\ UNCHANGED sock
  \/ \E performDNS \in BOOLEAN : \E a \in LookUp({address, Loopback(Blank, "inet6")}, performDNS) :
       Sets(a)

\* The caller.
CallerStep ==
  \/ \E family \in {"inet", "inet6", "raw"} : StreamCreate(family) \/ DgramCreate(family)
  \/ call = Idle /\ (StreamDispose \/ DgramDispose \/ AcceptedDispose)
  \/ StreamBind \/ DgramBind
  \/ StreamGetLocalAddress \/ DgramGetLocalAddress \/ GetPeerAddress
  \/ \E timeout \in Timeouts, mask \in SUBSET Both \ {{}} :
       StreamSetTimeout(timeout, mask) \/ DgramSetTimeout(timeout, mask)
  \/ Listen \/ EnableKeepAlive \/ EnableNoDelay
  \/ \E mask \in SUBSET Both \ {{}} : Shutdown(mask)
  \/ SetPairAddress(address) \/ ForgetPair
  \/ \E op \in {"connect", "accept", "send", "waitSent", "waitData"} : StreamBegins(op, 0)
  \/ \E op \in {"sendTo", "waitSent", "waitData"} : DgramBegins(op, 0)
  \/ \E n \in Sizes : StreamBegins("recv", n) \/ DgramBegins("recvFrom", n)
-----------------------------------------------------------------------------
\* What a call returned is looked at once.
Looked ==
  /\ call = Idle /\ Returns("none")
  /\ UNCHANGED <<object, sock, unlimited, inbox, call, address>>

\* The limits of a call are those of the socket it was made on.
Orphans == {"orphan", "stuck"}
Untimed ==
  \/ call.op \in {"connect", "send", "sendTo"} /\ "wr" \in unlimited
  \/ call.op \in {"accept", "recv", "recvFrom"} /\ "rd" \in unlimited
  \/ call.op = "stuck"

\* The owner makes a channel, TcpChannel(ip, port) or UdpChannel(ip, port), and
\* connect() assigns it to _channel before it takes the lock: a request may be
\* in a call of the one before, and two calls of connect() may both find the
\* driver not connected.  What the request does with the channel that is gone
\* ends the process, or a call it is in goes on with that one's socket.  A
\* channel has no destructor: its socket stays open unless close() was called.
NewChannel ==
  /\ owner = "out"
  /\ \/ Newborn /\ IF kind = "stream" THEN StreamBorn("inet") ELSE DgramBorn("inet")
     \/ NoSocket
  /\ channel' = TRUE /\ address' = Blank
  /\ dropped' = dropped \cup ({fd} \ {None})
  /\ served' = IF connected THEN served \ {fd} ELSE served
  /\ commands' = <<>> /\ given' = 0
  /\ call' = IF call = Idle THEN Idle
             ELSE [op |-> IF Untimed THEN "stuck" ELSE "orphan", size |-> call.size]
  /\ pc' \in IF pc \in {"out", "sent"} THEN {pc} ELSE {pc, "dead"}
  /\ fresh' = (fresh /\ pc = "out")
  /\ UNCHANGED <<kind, accepted, result, meant, owner, connected, asked, data, answer>>

\* A call on the socket of a channel that is gone.  The device may have
\* answered on that socket.
OrphanReturns ==
  /\ call.op \in Orphans
  /\ Ends
  /\ \/ Received(Row(Current, call.size))
     \/ \E code \in {"TIMEOUT", "FAIL"} : Returns(code)
  /\ UNCHANGED <<object, sock, unlimited, inbox, address, driver, request, device>>

\* connect() of the driver, under the lock: open() calls bind(), which makes
\* the address and cannot fail.  The second of two calls may find the driver
\* connected by now.
ChannelBind ==
  /\ channel /\ owner = "out" /\ pc \in {"out", "sent"}
  /\ Sets(Named(meant.text, meant.port, "inet"))
  /\ owner' = "opening"
  /\ UNCHANGED <<meant, channel, connected, dropped, served, request, device>>

OwnerGoes(to) ==
  owner' = to /\ UNCHANGED <<meant, channel, connected, dropped, served, request, device>>

TcpOpen == owner = "opening" /\ StreamBegins("connect", 0) /\ OwnerGoes("connecting")

UdpUnpaired ==
  /\ owner = "opening" /\ kind = "dgram" /\ Ready
  /\ Returns("OK") /\ Unmoved /\ UNCHANGED sock /\ OwnerGoes("connecting")

UdpOpen == owner = "opening" /\ SetPairAddress(address) /\ OwnerGoes("connecting")

\* A channel that was closed, or that got no socket, has a null pointer.
OpenCrashes ==
  /\ owner = "opening" /\ fd = None
  /\ pc' = "dead"
  /\ UNCHANGED <<socket, driver, asked, data, fresh, answer, device>>

Opened ==
  /\ owner = "connecting" /\ Looked
  /\ owner' = "out"
  /\ connected' = (connected \/ result.code = "OK")
  /\ served' = IF result.code = "OK" THEN served \cup {fd} ELSE served
  /\ UNCHANGED <<meant, channel, dropped, request, device>>

\* disconnect(): close() disposes of the socket; the flag is cleared after it.
TcpClose ==
  /\ connected /\ owner = "out" /\ StreamDispose
  /\ OwnerGoes("closing")
UdpClose ==
  /\ connected /\ owner = "out" /\ DgramDispose
  /\ OwnerGoes("closing")

\* So has the channel of a driver that is connected, if it was replaced by one
\* that got no socket.
CloseCrashes ==
  /\ connected /\ owner = "out" /\ fd = None
  /\ pc' = "dead"
  /\ UNCHANGED <<socket, driver, asked, data, fresh, answer, device>>

Disconnected ==
  /\ owner = "closing"
  /\ owner' = "out" /\ connected' = FALSE
  /\ UNCHANGED <<socket, meant, channel, dropped, served, request, device>>

OwnerStep == TcpOpen \/ UdpOpen \/ OpenCrashes \/ Opened \/ Disconnected
-----------------------------------------------------------------------------
\* A request.  The owner holds the lock while it opens the channel.
Unlocked == owner \in {"out", "closing"}
Goes(to) ==
  pc' = to /\ UNCHANGED <<driver, asked, data, fresh, answer, device>>
Finishes(code, cells) ==
  /\ pc' = "out" /\ answer' = [code |-> code, data |-> cells] /\ data' = <<>>
  /\ UNCHANGED <<driver, asked, fresh, device>>

\* _sendCommand(): flush() and clearReadCache() do nothing here.
SendRefused ==
  /\ pc = "out" /\ Unlocked /\ ~connected
  /\ Finishes("FAIL", <<>>)
  /\ UNCHANGED socket
SendCommand(n) ==
  /\ pc = "out" /\ Unlocked /\ connected
  /\ Current < MaxRequests
  /\ asked' = Append(asked, n)
  /\ fresh' = (commands = <<>> /\ inbox = <<>> /\ fd \in served)
  /\ pc' = "write" /\ answer' = [code |-> "none", data |-> <<>>]
  /\ UNCHANGED <<socket, driver, data, device>>

TcpWrite == pc = "write" /\ StreamBegins("send", 0) /\ Goes("writing")
UdpWrite == pc = "write" /\ DgramBegins("sendTo", 0) /\ Goes("writing")

\* close() has come before the call.  The null pointer ends the process; one
\* that was read just before leads to a descriptor that is closed.
AfterClose ==
  /\ pc \in {"write", "wait", "read"} /\ fd = None
  /\ \/ Goes("dead") /\ UNCHANGED result
     \/ /\ Returns("FAIL")
        /\ \/ pc = "write" /\ Goes("writing")
           \/ pc = "wait" /\ Goes("waiting")
           \/ pc = "read" /\ Goes("reading")
  /\ UNCHANGED <<object, sock, unlimited, inbox, call, address>>

\* write()'s answer is not looked at.
Written ==
  /\ pc = "writing" /\ Looked
  /\ pc' = "sent"
  /\ \/ result.code = "OK" /\ commands' = Append(commands, Current)
     \/ UNCHANGED commands
  /\ UNCHANGED <<driver, asked, data, fresh, answer, given>>

\* _waitResponse(), under the lock again.
WaitRefused ==
  /\ pc = "sent" /\ Unlocked /\ ~connected
  /\ Finishes("FAIL", <<>>)
  /\ UNCHANGED socket
WaitResponse ==
  /\ pc = "sent" /\ Unlocked /\ connected
  /\ Goes("wait") /\ UNCHANGED socket

\* waitForData(): one select(), however many bytes are asked for.
TcpWait == pc = "wait" /\ StreamBegins("waitData", 0) /\ Goes("waiting")
UdpWait == pc = "wait" /\ DgramBegins("waitData", 0) /\ Goes("waiting")
HasWaited ==
  /\ pc = "waiting" /\ Looked
  /\ IF result.code = "OK" THEN Goes("read")
                           ELSE Finishes("TIMEOUT", <<>>)

\* What the driver makes of its buffer, which was zero before.
Buffer(cells) == [i \in 1 .. Size |-> IF i <= Len(cells) THEN cells[i] ELSE Zero]
Synced(cells) == cells # <<>> /\ cells[1][2] = 0
Checked(cells) ==
  IF Synced(cells) THEN Finishes("OK", Buffer(cells)) \/ Finishes("FAIL", <<>>)
                   ELSE Finishes("INVALID_DATA", <<>>)

\* read(): one recv(), of a stream.
TcpRead == pc = "read" /\ StreamBegins("recv", Size) /\ Goes("reading")
TcpHasRead ==
  /\ pc = "reading" /\ kind = "stream" /\ Looked
  /\ Checked(result.data)

\* Datagrams until there is enough or one fails, each with room for all of
\* the answer: the last one may go beyond it.  An empty one is no failure.
UdpRead == pc = "read" /\ DgramBegins("recvFrom", Size) /\ Goes("reading")
UdpHasRead ==
  /\ pc = "reading" /\ kind = "dgram" /\ Looked
  /\ LET cells == data \o result.data IN
       IF result.code = "OK" /\ Len(cells) < Size
       THEN /\ pc' = "read" /\ data' = cells
            /\ UNCHANGED <<driver, asked, fresh, answer, device>>
       ELSE Checked(cells)

RequestStep ==
  \/ TcpWrite \/ UdpWrite \/ AfterClose \/ Written
  \/ WaitRefused \/ WaitResponse
  \/ TcpWait \/ UdpWait \/ HasWaited
  \/ TcpRead \/ TcpHasRead \/ UdpRead \/ UdpHasRead
-----------------------------------------------------------------------------
\* The device.  The kernel's socket lives as long as a call is in it.
Answers ==
  /\ commands # <<>> /\ ~sock.eof /\ (fd # None \/ call # Idle)
  /\ LET r == Head(commands)  n == asked[r] IN
       \/ /\ kind = "stream"
          /\ \E m \in (given + 1) .. n :
               /\ Arrives(SubSeq(Row(r, n), given + 1, m))
               /\ IF m = n THEN commands' = Tail(commands) /\ given' = 0
                           ELSE given' = m /\ UNCHANGED commands
       \/ /\ kind = "dgram"
          /\ Arrives(Row(r, n))
          /\ commands' \in {commands, Tail(commands)} /\ UNCHANGED given
  /\ UNCHANGED <<driver, request>>

\* A command or an answer is lost.
Loses ==
  /\ commands # <<>> /\ given = 0
  /\ commands' = Tail(commands)
  /\ UNCHANGED <<socket, driver, request, given>>

\* A datagram socket without a peer takes what anybody sends.
Sent(n) ==
  /\ fd # None
  /\ IF sock.link = "up" THEN user = "caller" /\ ~sock.eof
                         ELSE kind = "dgram" /\ sock.bound
  /\ Arrives(Row(Stranger, n))
  /\ UNCHANGED <<driver, request, device>>

\* An empty datagram may come from whoever is let through.
SentEmpty ==
  /\ kind = "dgram" /\ fd # None /\ (sock.link = "up" \/ sock.bound)
  /\ Arrives(<<>>)
  /\ UNCHANGED <<driver, request, device>>

ChannelStep ==
  \/ NewChannel \/ ChannelBind \/ TcpClose \/ UdpClose \/ CloseCrashes \/ OwnerStep
  \/ OrphanReturns
  \/ SendRefused \/ (\E n \in Lengths : SendCommand(n)) \/ RequestStep
  \/ Answers \/ Loses

Next ==
  /\ pc # "dead"
  /\ UNCHANGED user
  /\ \/ user = "namer" /\ NamerStep /\ UNCHANGED <<driver, request, device>>
     \/ user = "caller" /\ CallerStep /\ UNCHANGED <<driver, request, device>>
     \/ user = "channel" /\ ChannelStep
     \/ (CallEnds \/ PeerCloses) /\ UNCHANGED <<driver, request, device>>
     \/ \E n \in Sizes : Sent(n)
     \/ SentEmpty

Progress(A) == pc # "dead" /\ A /\ UNCHANGED user
\* A thread that can go on does, and limits of time end.  No peer has to
\* answer, and no new request or call has to come.
Spec ==
  /\ Init /\ [][Next]_vars
  /\ WF_vars(Progress(call.op = "orphan" /\ OrphanReturns))
  /\ WF_vars(Progress(CallExpires /\ UNCHANGED <<driver, request, device>>))
  /\ WF_vars(Progress(RequestStep)) /\ WF_vars(Progress(OwnerStep))
-----------------------------------------------------------------------------
Cells(rows) == \A i \in DOMAIN rows : rows[i][1] \in Stranger .. MaxRequests /\ rows[i][2] \in Nat

SocketOK ==
  /\ kind \in {"stream", "dgram"}
  /\ {fd, accepted} \subseteq 0 .. made /\ made \in 0 .. MaxMade
  /\ address \in Addresses /\ sock.peer \in Addresses /\ sock.local \in Addresses
  /\ sock.link \in {"none", "pending", "up", "listening"}
  /\ sock.shut \subseteq Both /\ unlimited \subseteq Both
  /\ \A i \in DOMAIN inbox : Cells(inbox[i])

\* The variables range over these values.
NetTypeOK ==
  /\ SocketOK
  /\ owner \in {"out", "opening", "connecting", "closing"}
  /\ pc \in {"out", "write", "writing", "sent", "wait", "waiting", "read", "reading", "dead"}
  /\ {channel, connected, fresh} \subseteq BOOLEAN
  /\ Cells(data)
  /\ \A i \in DOMAIN commands : commands[i] \in 1 .. Current

\* hal/socket.h, DEFAULT_SOCKET_TIMEOUT: unless its caller asked for no limit or
\* the constructor could not set one, every call returns, whatever the peer
\* does.  And every request of the driver that comes to no call without a limit
\* ends, whenever its channel is closed or replaced, if there is a time from
\* which on no connect() keeps it from the lock and no empty datagram waits to be
\* read: read() of the UDP channel goes on for as long as those come.
CallsReturn ==
  /\ (call # Idle /\ ~Untimed) ~> (call = Idle \/ pc = "dead")
  /\ <>[](Unlocked /\ \A i \in DOMAIN inbox : inbox[i] # <<>>)
       => ((pc # "out") ~> (pc \in {"out", "dead"} \/ Untimed))

\* A request that begins when nothing else is under way, on a channel that is
\* open and is not replaced meanwhile, gets its own answer if it gets one: of a
\* datagram all, of a stream perhaps only the beginning, with zeros for the rest.
OwnAnswer ==
  pc = "out" /\ answer.code = "OK" /\ fresh =>
    \A i \in 1 .. Size :
      \/ answer.data[i] = Row(Current, Size)[i]
      \/ kind = "stream" /\ i > 1 /\ answer.data[i] = Zero

\* The peer of a channel is the host and the port it was made for.  A text
\* that is no IPv4 address is not an error: it stands for the own host.
PeerIsGiven ==
  user = "channel" /\ sock.link # "none" =>
    sock.peer = [family |-> "inet", port |-> meant.port % 65536, v6 |-> "any",
                 v4 |-> IF meant.text \in Texts4 THEN meant.text ELSE "any"]

\* The sockets the process has open are those of its objects and those of
\* channels that were given up without a close(): never one that was opened,
\* unless connect() has put another in its place while the driver was connected.
SocketsAccounted ==
  /\ files = ({fd, accepted} \cup dropped) \ {None}
  /\ dropped \cap served = {}
=============================================================================
