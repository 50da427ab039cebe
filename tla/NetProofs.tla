----------------------------- MODULE NetProofs -----------------------------
(***************************************************************************)
(* What holds of NetChannel for every set of addresses, sizes, timeouts    *)
(* and bounds.  First that no socket is lost; few steps touch the accounts,*)
(* so those that leave them alone come first.  Then the types, the peer of *)
(* a channel, and whose answer a request gets.                             *)
(***************************************************************************)
EXTENDS NetChannel, SequenceTheorems, TLAPS

\* What SocketsAccounted depends on, and what decides who may change it.
accounts == <<fd, files, made, accepted, dropped, served>>
books == <<accounts, connected, owner>>

\* The numbers of sockets are used once.
Numbered ==
  /\ made \in Nat
  /\ files \subseteq 1 .. made /\ dropped \subseteq 1 .. made /\ served \subseteq 0 .. made
  /\ fd \in 0 .. made /\ accepted \in 0 .. made

\* The socket of the object, the one accept() has made and those given up are
\* different ones, and only a connected channel has a socket that was opened.
AccountInv ==
  /\ Numbered
  /\ SocketsAccounted
  /\ fd # None => fd # accepted /\ fd \notin dropped
  /\ accepted # None => accepted \notin dropped
  /\ fd # None /\ fd \in served => connected /\ owner # "closing"
-----------------------------------------------------------------------------
\* Calls that end, but for accept(), keep the descriptors.
LEMMA CallsKeepObject == CallEnds => Accepts \/ UNCHANGED object
<1> SUFFICES ASSUME CallEnds, ~Accepts PROVE UNCHANGED object
  OBVIOUS
<1>1. CASE Connects \/ ConnectTimesOut \/ ConnectFails
  BY <1>1 DEF Connects, ConnectTimesOut, ConnectFails, CallKeeps
<1>2. CASE AcceptFails \/ Sends \/ SendFails \/ SendsTo
  BY <1>2 DEF AcceptFails, Sends, SendFails, SendsTo, CallKeeps
<1>3. CASE Receives \/ ReceivesFrom
  BY <1>3 DEF Receives, ReceivesFrom
<1>4. CASE ReceiveTimesOut \/ ReceiveFails
  BY <1>4 DEF ReceiveTimesOut, ReceiveFails, CallKeeps
<1>5. CASE WaitEnds
  BY <1>5 DEF WaitEnds, StreamWaitsForSent, DgramWaitsForSent, WaitsForSent,
              StreamWaitsForData, DgramWaitsForData, Waited, CallKeeps
<1> QED
  BY <1>1, <1>2, <1>3, <1>4, <1>5 DEF CallEnds

\* So do calls that begin.
LEMMA BeginsKeepObject ==
  ASSUME NEW op, NEW n, StreamBegins(op, n) \/ DgramBegins(op, n)
  PROVE  UNCHANGED object
  BY DEF StreamBegins, DgramBegins, Begins

\* The operations of an address touch no socket.
LEMMA NamerKeepsObject == NamerStep => UNCHANGED object
  BY DEF NamerStep, Sets, Unmoved

\* Of the operations of a socket, creation and disposal change descriptors.
CallerChanges ==
  \/ \E family \in {"inet", "inet6", "raw"} : StreamCreate(family) \/ DgramCreate(family)
  \/ StreamDispose \/ DgramDispose \/ AcceptedDispose

LEMMA CallerKeepsObject == CallerStep => CallerChanges \/ UNCHANGED object
<1> SUFFICES ASSUME CallerStep, ~CallerChanges PROVE UNCHANGED object
  OBVIOUS
<1>1. CASE StreamBind \/ DgramBind
  BY <1>1 DEF StreamBind, DgramBind, Bind, Unmoved
<1>2. CASE StreamGetLocalAddress \/ DgramGetLocalAddress \/ GetPeerAddress
  BY <1>2 DEF StreamGetLocalAddress, DgramGetLocalAddress, GetLocalAddress, GetPeerAddress
<1>3. CASE \E timeout \in Timeouts, mask \in SUBSET Both \ {{}} :
             StreamSetTimeout(timeout, mask) \/ DgramSetTimeout(timeout, mask)
  BY <1>3 DEF StreamSetTimeout, DgramSetTimeout, SetTimeout
<1>4. CASE Listen \/ EnableKeepAlive \/ EnableNoDelay
  BY <1>4 DEF Listen, EnableKeepAlive, EnableNoDelay, Unmoved
<1>5. CASE \E mask \in SUBSET Both \ {{}} : Shutdown(mask)
  BY <1>5 DEF Shutdown, Unmoved
<1>6. CASE SetPairAddress(address) \/ ForgetPair
  BY <1>6 DEF SetPairAddress, ForgetPair, Unmoved
<1>7. CASE \/ \E op \in {"connect", "accept", "send", "waitSent", "waitData"} : StreamBegins(op, 0)
           \/ \E op \in {"sendTo", "waitSent", "waitData"} : DgramBegins(op, 0)
           \/ \E n \in Sizes : StreamBegins("recv", n) \/ DgramBegins("recvFrom", n)
  BY <1>7, BeginsKeepObject
<1> QED
  BY <1>1, <1>2, <1>3, <1>4, <1>5, <1>6, <1>7 DEF CallerStep, CallerChanges

\* A request and the device change none of the books.
LEMMA RequestKeepsBooks ==
  ASSUME \/ SendRefused \/ (\E n \in Lengths : SendCommand(n)) \/ RequestStep
         \/ Answers \/ Loses \/ SentEmpty \/ OrphanReturns
  PROVE  UNCHANGED books
<1> USE DEF books, accounts, object, driver
<1>1. CASE SendRefused \/ (\E n \in Lengths : SendCommand(n)) \/ Loses
  BY <1>1 DEF SendRefused, SendCommand, Loses, Finishes, socket
<1>2. CASE Answers \/ SentEmpty \/ OrphanReturns
  BY <1>2 DEF Answers, SentEmpty, OrphanReturns, Arrives
<1>3. CASE TcpWrite \/ UdpWrite \/ TcpWait \/ UdpWait \/ TcpRead \/ UdpRead
  BY <1>3, BeginsKeepObject
     DEF TcpWrite, UdpWrite, TcpWait, UdpWait, TcpRead, UdpRead, Goes
<1>4. CASE AfterClose
  BY <1>4 DEF AfterClose, Goes
<1>5. CASE Written \/ HasWaited
  BY <1>5 DEF Written, HasWaited, Looked, Goes, Finishes
<1>6. CASE WaitRefused \/ WaitResponse
  BY <1>6 DEF WaitRefused, WaitResponse, Goes, Finishes, socket
<1>7. CASE TcpHasRead \/ UdpHasRead
  BY <1>7 DEF TcpHasRead, UdpHasRead, Looked, Checked, Finishes
<1> QED
  BY <1>1, <1>2, <1>3, <1>4, <1>5, <1>6, <1>7 DEF RequestStep
-----------------------------------------------------------------------------
\* A new socket gets a new number.
LEMMA CreateKeeps ==
  ASSUME AccountInv, Newborn \/ NoSocket, fd = None,
         UNCHANGED <<accepted, dropped, served, connected, owner>>
  PROVE  AccountInv'
<1>1. CASE Newborn
  <2>1. /\ made' = made + 1 /\ fd' = made + 1 /\ files' = files \cup {made + 1}
        /\ UNCHANGED <<accepted, dropped, served>>
    BY <1>1 DEF Newborn
  <2>2. made + 1 \notin files \cup dropped \cup served /\ made + 1 # accepted /\ made + 1 # None
    BY DEF AccountInv, Numbered, None
  <2>3. Numbered'
    BY <2>1 DEF AccountInv, Numbered
  <2>4. SocketsAccounted'
    BY <2>1, <2>2 DEF AccountInv, SocketsAccounted
  <2> QED
    BY <2>1, <2>2, <2>3, <2>4 DEF AccountInv
<1>2. CASE NoSocket
  BY <1>2 DEF NoSocket, AccountInv, Numbered, SocketsAccounted
<1> QED
  BY <1>1, <1>2

\* Disposal closes the socket of the object and no other.
LEMMA DisposeCloses ==
  ASSUME AccountInv, Dispose, fd # None, UNCHANGED <<dropped, served>>
  PROVE  AccountInv'
  BY DEF AccountInv, Numbered, SocketsAccounted, Dispose, None

LEMMA CallerKeeps ==
  ASSUME AccountInv, CallerStep, UNCHANGED driver
  PROVE  AccountInv'
<1> USE DEF driver
<1>1. CASE UNCHANGED object
  BY <1>1 DEF object, AccountInv, Numbered, SocketsAccounted
<1>2. CASE \E family \in {"inet", "inet6", "raw"} : StreamCreate(family) \/ DgramCreate(family)
  BY <1>2, CreateKeeps DEF StreamCreate, DgramCreate
<1>3. CASE StreamDispose \/ DgramDispose
  BY <1>3, DisposeCloses DEF StreamDispose, DgramDispose
<1>4. CASE AcceptedDispose
  BY <1>4 DEF AcceptedDispose, AccountInv, Numbered, SocketsAccounted, None
<1> QED
  BY <1>1, <1>2, <1>3, <1>4, CallerKeepsObject DEF CallerChanges

\* The owner's steps: the channel's socket is given up, opened or closed.
LEMMA OwnerKeeps ==
  ASSUME AccountInv,
         NewChannel \/ ChannelBind \/ TcpClose \/ UdpClose \/ CloseCrashes \/ OwnerStep
  PROVE  AccountInv'
<1>1. CASE NewChannel
  <2>1. /\ dropped' = dropped \cup ({fd} \ {None})
        /\ owner = "out" /\ UNCHANGED <<accepted, connected, owner>>
        /\ served' \subseteq served /\ (fd \notin served' \/ fd = None)
    BY <1>1 DEF NewChannel, AccountInv
  <2>2. dropped' \cap served' = {} /\ dropped' \subseteq 1 .. made
    BY <2>1 DEF AccountInv, Numbered, SocketsAccounted, None
  <2>3. CASE UNCHANGED <<made, files>> /\ fd' = None
    BY <2>1, <2>2, <2>3 DEF AccountInv, Numbered, SocketsAccounted, None
  <2>4. CASE made' = made + 1 /\ fd' = made + 1 /\ files' = files \cup {made + 1}
    <3>1. /\ made + 1 \notin files \cup dropped' \cup served
          /\ made + 1 # accepted /\ made + 1 # None
      BY <2>2 DEF AccountInv, Numbered, None
    <3>2. Numbered'
      BY <2>1, <2>2, <2>4 DEF AccountInv, Numbered
    <3>3. SocketsAccounted'
      BY <2>1, <2>2, <2>4, <3>1 DEF AccountInv, SocketsAccounted
    <3>4. accepted' # None => accepted' \notin dropped'
      BY <2>1 DEF AccountInv
    <3> QED
      BY <2>1, <2>4, <3>1, <3>2, <3>3, <3>4 DEF AccountInv
  <2> QED
    BY <1>1, <2>3, <2>4 DEF NewChannel, Newborn, NoSocket
<1>2. CASE ChannelBind
  BY <1>2 DEF ChannelBind, Sets, object, AccountInv, Numbered, SocketsAccounted
<1>3. CASE TcpClose \/ UdpClose
  BY <1>3, DisposeCloses
     DEF TcpClose, UdpClose, StreamDispose, DgramDispose, OwnerGoes
<1>4. CASE TcpOpen \/ UdpOpen
  BY <1>4, BeginsKeepObject
     DEF TcpOpen, UdpOpen, SetPairAddress, Unmoved, OwnerGoes, object,
         AccountInv, Numbered, SocketsAccounted
<1>5. CASE OpenCrashes \/ CloseCrashes
  BY <1>5 DEF OpenCrashes, CloseCrashes, socket, object, driver, AccountInv, Numbered, SocketsAccounted
<1>6. CASE Opened
  <2>1. /\ UNCHANGED <<fd, files, made, accepted, dropped>>
        /\ owner' = "out" /\ connected' = (connected \/ result.code = "OK")
        /\ served' = IF result.code = "OK" THEN served \cup {fd} ELSE served
    BY <1>6 DEF Opened, Looked, object, AccountInv
  <2>2. CASE result.code = "OK"
    <3>1. connected' /\ served' = served \cup {fd}
      BY <2>1, <2>2
    <3>2. owner' # "closing"
      BY <2>1
    <3> QED
      BY <2>1, <3>1, <3>2 DEF AccountInv, Numbered, SocketsAccounted, None
  <2>3. CASE result.code # "OK"
    <3>1. served' = served /\ (connected => connected')
      BY <2>1, <2>3
    <3> QED
      BY <2>1, <3>1 DEF AccountInv, Numbered, SocketsAccounted
  <2> QED
    BY <2>2, <2>3
<1>7. CASE Disconnected
  BY <1>7 DEF Disconnected, socket, object, AccountInv, Numbered, SocketsAccounted
<1> QED
  BY <1>1, <1>2, <1>3, <1>4, <1>5, <1>6, <1>7 DEF OwnerStep

\* The kernel's.
LEMMA KernelKeeps ==
  ASSUME AccountInv,
         CallEnds \/ PeerCloses \/ (\E n \in Sizes : Sent(n)),
         UNCHANGED driver
  PROVE  AccountInv'
<1> USE DEF driver, AccountInv, Numbered, SocketsAccounted
<1>1. CASE Accepts
  BY <1>1 DEF Accepts, None
<1>2. CASE UNCHANGED object
  BY <1>2 DEF object
<1>3. CASE PeerCloses \/ (\E n \in Sizes : Sent(n))
  BY <1>2, <1>3 DEF PeerCloses, Sent, Arrives
<1> QED
  BY <1>1, <1>2, <1>3, CallsKeepObject

LEMMA AccountNext == AccountInv /\ [Next]_vars => AccountInv'
<1> SUFFICES ASSUME AccountInv, [Next]_vars PROVE AccountInv'
  OBVIOUS
<1>1. CASE NamerStep /\ UNCHANGED driver
  BY <1>1, NamerKeepsObject
     DEF object, driver, AccountInv, Numbered, SocketsAccounted
<1>2. CASE CallerStep /\ UNCHANGED driver
  BY <1>2, CallerKeeps
<1>3. CASE NewChannel \/ ChannelBind \/ TcpClose \/ UdpClose \/ CloseCrashes \/ OwnerStep
  BY <1>3, OwnerKeeps
<1>4. CASE \/ SendRefused \/ (\E n \in Lengths : SendCommand(n)) \/ RequestStep
           \/ Answers \/ Loses \/ SentEmpty \/ OrphanReturns
  BY <1>4, RequestKeepsBooks
     DEF books, accounts, AccountInv, Numbered, SocketsAccounted
<1>5. CASE (CallEnds \/ PeerCloses) /\ UNCHANGED driver
  BY <1>5, KernelKeeps
<1>6. CASE \E n \in Sizes : Sent(n)
  BY <1>6, KernelKeeps DEF Sent
<1>7. CASE UNCHANGED vars
  BY <1>7 DEF vars, socket, object, driver, AccountInv, Numbered, SocketsAccounted
<1> QED
  BY <1>1, <1>2, <1>3, <1>4, <1>5, <1>6, <1>7 DEF Next, ChannelStep

\* SocketsAccounted, for every number of sockets and requests: whatever fails
\* or is timed out, and wherever disconnect() and the accepting of connections
\* come, no socket of a channel that was opened is lost but by a connect() that
\* replaces it while the driver is connected.
THEOREM NoSocketIsLost == Spec => []SocketsAccounted
<1>1. Init => AccountInv
  BY DEF Init, AccountInv, Numbered, SocketsAccounted, None
<1>2. AccountInv => SocketsAccounted
  BY DEF AccountInv
<1> QED
  BY <1>1, <1>2, AccountNext, PTL DEF Spec
-----------------------------------------------------------------------------
\* The types that are kept: those of NetTypeOK, and of what it leaves out.
Cell == (Stranger .. MaxRequests) \X Nat
SockRecord ==
  [family : {"inet", "inet6", "raw"}, link : {"none", "pending", "up", "listening"},
   bound : BOOLEAN, local : Addresses, peer : Addresses, rd : Nat, wr : Nat,
   shut : SUBSET Both, eof : BOOLEAN]

SocketTyped ==
  /\ kind \in {"stream", "dgram"}
  /\ made \in 0 .. MaxMade
  /\ sock \in SockRecord /\ unlimited \subseteq Both
  /\ inbox \in Seq(Seq(Cell))
  /\ call.size \in Nat /\ result.data \in Seq(Cell)
  /\ address \in Addresses

ChannelTyped ==
  /\ user = "channel" => meant \in [text : Texts, port : Ports]
  /\ owner \in {"out", "opening", "connecting", "closing"}
  /\ pc \in {"out", "write", "writing", "sent", "wait", "waiting", "read", "reading", "dead"}
  /\ channel \in BOOLEAN /\ connected \in BOOLEAN /\ fresh \in BOOLEAN
  /\ asked \in Seq(Lengths) /\ Current <= MaxRequests
  /\ data \in Seq(Cell)
  /\ commands \in Seq(1 .. Current) /\ given \in Nat
  /\ pc \notin {"out", "dead"} => Current # 0

\* Rows and what is cut out of them.
LEMMA RowCells ==
  ASSUME NEW r \in Stranger .. MaxRequests, NEW n \in Nat
  PROVE  /\ Row(r, n) \in Seq(Cell)
         /\ Len(Row(r, n)) = n
         /\ \A i \in 1 .. n : Row(r, n)[i] = <<r, i - 1>>
<1>1. \A i \in 1 .. n : <<r, i - 1>> \in Cell
  BY DEF Cell
<1>2. Row(r, n) \in [1 .. n -> Cell]
  BY <1>1 DEF Row
<1> QED
  BY <1>2 DEF Row

LEMMA CutCells ==
  ASSUME NEW S, NEW s \in Seq(S), NEW m \in Nat \ {0}, NEW n \in Nat, n <= Len(s)
  PROVE  /\ SubSeq(s, m, n) \in Seq(S)
         /\ Len(SubSeq(s, m, n)) = IF m <= n THEN n - m + 1 ELSE 0
         /\ \A i \in 1 .. Len(SubSeq(s, m, n)) : SubSeq(s, m, n)[i] = s[m + i - 1]
<1>1. \A i \in m .. n : s[i] \in S
  BY ElementOfSeq
<1>2. m \in Int /\ n \in Int
  OBVIOUS
<1> QED
  BY <1>1, <1>2, SubSeqProperties

LEMMA SingleSeq ==
  ASSUME NEW S, NEW x \in S
  PROVE  <<x>> \in Seq(S) /\ Len(<<x>>) = 1 /\ <<x>>[1] = x
  OBVIOUS

LEMMA LeastIs ==
  ASSUME NEW m \in Nat, NEW n \in Nat
  PROVE  Least(m, n) \in Nat /\ Least(m, n) <= m /\ Least(m, n) <= n
  BY DEF Least

\* The numbers of ports.
LEMMA RemainderIs ==
  ASSUME NEW n \in Nat \ {0}, NEW port \in Int
  PROVE  port % n \in 0 .. n - 1
  OBVIOUS

LEMMA NumbersTo ==
  ASSUME NEW n \in Nat \ {0}
  PROVE  0 \in 0 .. n - 1 /\ 0 .. n - 1 \subseteq Int
  OBVIOUS

LEMMA PortsAreNumbers == 0 \in PortNumbers /\ PortNumbers \subseteq Int
<1>1. PortCount \in Nat \ {0}
  BY DEF PortCount
<1> QED
  BY <1>1, NumbersTo DEF PortNumbers

LEMMA CutIs == ASSUME NEW port \in Int PROVE Cut(port) \in PortNumbers
<1>1. PortCount \in Nat \ {0}
  BY DEF PortCount
<1> QED
  BY <1>1, RemainderIs DEF Cut, PortNumbers

\* The operations of an address give addresses.
LEMMA AddressesKept ==
  ASSUME NEW a \in Addresses
  PROVE  /\ \A port \in Int : WithPort(a, port) \in Addresses
         /\ \A text \in Texts, type \in Types : FromString(a, text, type) \in Addresses
         /\ \A type \in Types : Loopback(a, type) \in Addresses /\ AnyAddress(a, type) \in Addresses
         /\ Broadcast(a) \in Addresses
<1> USE DEF Addresses, Hosts4, Hosts6, PortOf
<1>1. ASSUME NEW b \in Addresses, NEW port \in Int PROVE WithPort(b, port) \in Addresses
  BY CutIs DEF WithPort
<1>0. PortOf(a) \in Int
  BY PortsAreNumbers
<1>2. ASSUME NEW text \in Texts, NEW type \in Types PROVE FromString(a, text, type) \in Addresses
  <2>1. CASE type = "unspec"
    BY <2>1 DEF FromString
  <2>2. CASE type = "inet"
    <3>1. [a EXCEPT !.family = type] \in Addresses
      BY <2>2
    <3>2. Parses(text, type) => [[a EXCEPT !.family = type] EXCEPT !["v4"] = text] \in Addresses
      BY <2>2 DEF Parses
    <3> QED
      BY <2>2, <3>1, <3>2, <1>0, <1>1 DEF FromString
  <2>3. CASE type = "inet6"
    <3>1. [a EXCEPT !.family = type] \in Addresses
      BY <2>3
    <3>2. Parses(text, type) => [[a EXCEPT !.family = type] EXCEPT !["v6"] = text] \in Addresses
      BY <2>3 DEF Parses
    <3> QED
      BY <2>3, <3>1, <3>2, <1>0, <1>1 DEF FromString
  <2> QED
    BY <2>1, <2>2, <2>3 DEF Types
<1>3. ASSUME NEW host \in {"any", "loopback"}, NEW type \in Types
      PROVE  WellKnown(a, host, type) \in Addresses
  BY <1>3 DEF WellKnown, Types
<1>4. WellKnown(a, "broadcast", "inet") \in Addresses
  BY DEF WellKnown
<1> QED
  BY <1>0, <1>1, <1>2, <1>3, <1>4 DEF Loopback, AnyAddress, Broadcast

LEMMA BlankIs == Blank \in Addresses
  BY PortsAreNumbers DEF Blank, Addresses, Hosts4, Hosts6

LEMMA TypedInit == Init => SocketTyped /\ ChannelTyped
<1> SUFFICES ASSUME Init PROVE SocketTyped /\ ChannelTyped
  OBVIOUS
<1>1. address \in Addresses
  BY BlankIs, AddressesKept DEF Init, Types
<1>2. sock \in SockRecord
  BY BlankIs DEF Init, Bare, SockRecord
<1>3. \A S : <<>> \in Seq(S)
  BY EmptySeq
<1>4. SocketTyped
  <2>1. made = 0 /\ kind \in {"stream", "dgram"} /\ unlimited = {} /\ inbox = <<>>
    BY DEF Init
  <2>2. call = [op |-> "none", size |-> 0] /\ result = [code |-> "none", data |-> <<>>]
    BY DEF Init, Idle
  <2> QED
    <3>1. call.size \in Nat /\ result.data \in Seq(Cell)
      BY <1>3, <2>2
    <3>2. made \in 0 .. MaxMade
      BY <2>1, SocketAssumption
    <3>3. inbox \in Seq(Seq(Cell)) /\ unlimited \subseteq Both
      BY <1>3, <2>1
    <3> QED
      BY <1>1, <1>2, <2>1, <3>1, <3>2, <3>3 DEF SocketTyped
<1>5. ChannelTyped
  <2>1. asked = <<>> /\ data = <<>> /\ commands = <<>> /\ given = 0
    BY DEF Init
  <2>2. Current = 0
    BY <2>1, EmptySeq DEF Current
  <2>3. user = "channel" => meant \in [text : Texts, port : Ports]
    BY DEF Init
  <2>4. /\ owner = "out" /\ pc = "out" /\ channel = FALSE /\ connected = FALSE /\ fresh = TRUE
    BY DEF Init
  <2>5. asked \in Seq(Lengths) /\ data \in Seq(Cell) /\ commands \in Seq(1 .. Current)
    BY <1>3, <2>1
  <2>6. Current <= MaxRequests /\ given \in Nat
    BY <2>1, <2>2, NetAssumption
  <2> QED
    BY <2>3, <2>4, <2>5, <2>6 DEF ChannelTyped
<1> QED
  BY <1>4, <1>5

\* What a step may do to the kernel's socket: one field and several.
Links == {"none", "pending", "up", "listening"}
LEMMA OneEdit ==
  ASSUME NEW s \in SockRecord
  PROVE  /\ \A link \in Links : [s EXCEPT !.link = link] \in SockRecord
         /\ \A a \in Addresses : [s EXCEPT !.local = a] \in SockRecord
         /\ \A a \in Addresses : [s EXCEPT !.peer = a] \in SockRecord
         /\ \A n \in Nat : [s EXCEPT !.rd = n] \in SockRecord
         /\ \A n \in Nat : [s EXCEPT !.wr = n] \in SockRecord
         /\ \A mask \in SUBSET Both : [s EXCEPT !.shut = mask] \in SockRecord
         /\ [s EXCEPT !.bound = TRUE] \in SockRecord
         /\ [s EXCEPT !.eof = TRUE] \in SockRecord
<1>1. \A link \in Links : [s EXCEPT !.link = link] \in SockRecord
  BY DEF SockRecord, Links
<1>2. \A a \in Addresses : [s EXCEPT !.local = a] \in SockRecord
  BY DEF SockRecord
<1>3. \A a \in Addresses : [s EXCEPT !.peer = a] \in SockRecord
  BY DEF SockRecord
<1>4. \A n \in Nat : [s EXCEPT !.rd = n] \in SockRecord
  BY DEF SockRecord
<1>5. \A n \in Nat : [s EXCEPT !.wr = n] \in SockRecord
  BY DEF SockRecord
<1>6. \A mask \in SUBSET Both : [s EXCEPT !.shut = mask] \in SockRecord
  BY DEF SockRecord
<1>7. [s EXCEPT !.bound = TRUE] \in SockRecord
  BY DEF SockRecord
<1>8. [s EXCEPT !.eof = TRUE] \in SockRecord
  BY DEF SockRecord
<1> QED
  BY <1>1, <1>2, <1>3, <1>4, <1>5, <1>6, <1>7, <1>8

LEMMA SockFields ==
  ASSUME NEW s \in SockRecord
  PROVE  /\ s.family \in {"inet", "inet6", "raw"} /\ s.link \in Links
         /\ s.local \in Addresses /\ s.peer \in Addresses
         /\ s.rd \in Nat /\ s.wr \in Nat /\ s.shut \subseteq Both
  BY DEF SockRecord, Links

LEMMA SockEdits ==
  ASSUME NEW s \in SockRecord
  PROVE  /\ \A n \in Nat, mask \in SUBSET Both : Limited(s, n, mask) \in SockRecord
         /\ \A a \in Addresses : [s EXCEPT !.bound = TRUE, !.local = a] \in SockRecord
         /\ \A a \in Addresses, link \in Links :
              [s EXCEPT !.link = link, !.bound = TRUE, !.peer = a] \in SockRecord
         /\ [s EXCEPT !.link = "listening", !.bound = TRUE] \in SockRecord
         /\ [s EXCEPT !.link = "none", !.peer = Blank] \in SockRecord
         /\ \A mask \in SUBSET Both : [s EXCEPT !.shut = @ \cup mask] \in SockRecord
<1>1. ASSUME NEW n \in Nat, NEW mask \in SUBSET Both PROVE Limited(s, n, mask) \in SockRecord
  <2> DEFINE r == IF "rd" \in mask THEN n ELSE s.rd
             t == [s EXCEPT !.rd = r]
             w == IF "wr" \in mask THEN n ELSE t.wr
  <2>1. t \in SockRecord
    BY OneEdit, SockFields
  <2>2. w \in Nat
    BY <2>1, SockFields
  <2>3. [t EXCEPT !.wr = w] \in SockRecord
    BY <2>1, <2>2, OneEdit
  <2> QED
    BY <2>3 DEF Limited
<1>2. ASSUME NEW a \in Addresses PROVE [s EXCEPT !.bound = TRUE, !.local = a] \in SockRecord
  <2>1. [s EXCEPT !.bound = TRUE] \in SockRecord
    BY OneEdit
  <2> QED
    BY <2>1, OneEdit
<1>3. ASSUME NEW a \in Addresses, NEW link \in Links
      PROVE  [s EXCEPT !.link = link, !.bound = TRUE, !.peer = a] \in SockRecord
  <2>1. [s EXCEPT !.link = link] \in SockRecord
    BY OneEdit
  <2>2. [[s EXCEPT !.link = link] EXCEPT !.bound = TRUE] \in SockRecord
    BY <2>1, OneEdit
  <2> QED
    BY <2>2, OneEdit
<1>4. [s EXCEPT !.link = "listening", !.bound = TRUE] \in SockRecord
  <2>1. [s EXCEPT !.link = "listening"] \in SockRecord
    BY OneEdit DEF Links
  <2> QED
    BY <2>1, OneEdit
<1>5. [s EXCEPT !.link = "none", !.peer = Blank] \in SockRecord
  <2>1. [s EXCEPT !.link = "none"] \in SockRecord
    BY OneEdit DEF Links
  <2> QED
    BY <2>1, OneEdit, BlankIs
<1>6. ASSUME NEW mask \in SUBSET Both PROVE [s EXCEPT !.shut = @ \cup mask] \in SockRecord
  <2> DEFINE m == s.shut \cup mask
  <2>1. m \in SUBSET Both
    BY SockFields
  <2> HIDE DEF m
  <2>2. [s EXCEPT !.shut = m] \in SockRecord
    BY Zenon, <2>1, OneEdit
  <2> QED
    BY <2>2 DEF m
<1> QED
  BY Zenon, <1>1, <1>2, <1>3, <1>4, <1>5, <1>6

LEMMA BareIs ==
  ASSUME NEW family \in {"inet", "inet6", "raw"}, StreamBorn(family) \/ DgramBorn(family)
  PROVE  sock' \in SockRecord /\ unlimited' \subseteq Both
<1>0. PICK done \in SUBSET Both :
        /\ sock' = Limited(Bare(family), DefaultTimeout, done)
        /\ unlimited' = Both \ done
  BY DEF StreamBorn, DgramBorn, Limits, Both
<1>1. Bare(family) \in SockRecord
  BY BlankIs DEF Bare, SockRecord
<1>2. DefaultTimeout \in Nat
  BY DEF DefaultTimeout
<1>3. sock' \in SockRecord
  BY Zenon, <1>0, <1>1, <1>2, SockEdits
<1> QED
  BY <1>0, <1>3

\* What a call returns without data.
LEMMA ReturnsNothing ==
  ASSUME NEW code, Returns(code) PROVE result'.data = <<>> /\ result'.data \in Seq(Cell)
  BY EmptySeq DEF Returns

LEMMA NamerTyped == ASSUME SocketTyped, NamerStep PROVE SocketTyped'
<1> USE DEF SocketTyped, object
<1>1. ASSUME NEW a \in Addresses, Sets(a) PROVE SocketTyped'
  BY <1>1 DEF Sets
<1>2. ASSUME NEW code, Returns(code), address' \in Addresses,
             UNCHANGED <<object, sock, unlimited, inbox, call>>
      PROVE  SocketTyped'
  BY <1>2, ReturnsNothing
<1>3. CASE \E port \in Ports : Sets(WithPort(address, port))
  BY <1>1, <1>3, AddressesKept, AddressAssumption DEF AddressAssumption
<1>4. CASE \/ \E type \in Types : Sets(Loopback(address, type)) \/ Sets(AnyAddress(address, type))
           \/ Sets(Broadcast(address))
  BY <1>1, <1>4, AddressesKept
<1>5. CASE \E text \in Texts, type \in Types :
             /\ address' = FromString(address, text, type)
             /\ Returns(FromStringResult(text, type))
             /\ UNCHANGED <<object, sock, unlimited, inbox, call>>
  BY <1>2, <1>5, AddressesKept
<1>6. CASE \/ \E size \in {4, 16} :
                Returns(RawResult(address, size)) /\ Unmoved /\ UNCHANGED sock
           \/ \E size \in {16, 46} : \E code \in StringResults(address, size) :
                Returns(code) /\ Unmoved /\ UNCHANGED sock
  <2>1. result'.data = <<>>
    BY <1>6 DEF Returns
  <2>2. Unmoved /\ UNCHANGED sock
    BY <1>6
  <2> QED
    BY <2>1, <2>2, EmptySeq DEF Unmoved
<1>7. CASE \E performDNS \in BOOLEAN :
             \E a \in LookUp({address, Loopback(Blank, "inet6")}, performDNS) : Sets(a)
  <2>1. Loopback(Blank, "inet6") \in Addresses
    BY BlankIs, AddressesKept DEF Types
  <2> QED
    BY <1>1, <1>7, <2>1 DEF LookUp
<1> QED
  BY <1>3, <1>4, <1>5, <1>6, <1>7 DEF NamerStep

\* A new socket has no peer and nothing to read.
LEMMA NewbornTyped ==
  ASSUME SocketTyped, NEW family \in {"inet", "inet6", "raw"}, Newborn,
         StreamBorn(family) \/ DgramBorn(family),
         UNCHANGED kind, call'.size \in Nat, address' \in Addresses, result'.data \in Seq(Cell)
  PROVE  SocketTyped'
<1>1. \A S : <<>> \in Seq(S)
  BY EmptySeq
<1>2. sock' \in SockRecord /\ unlimited' \subseteq Both
  BY BareIs
<1>3. made' \in 0 .. MaxMade
  BY SocketAssumption DEF Newborn, SocketTyped
<1>4. inbox' = <<>>
  BY DEF Newborn
<1> QED
  BY <1>1, <1>2, <1>3, <1>4 DEF SocketTyped

LEMMA BeginsTyped ==
  ASSUME SocketTyped, NEW op, NEW n \in Nat, StreamBegins(op, n) \/ DgramBegins(op, n)
  PROVE  SocketTyped'
  BY DEF StreamBegins, DgramBegins, Begins, SocketTyped, object

\* The operations of a socket, without those that create one.
LEMMA CallerTyped == ASSUME SocketTyped, CallerStep PROVE SocketTyped'
<1> USE DEF object
<1>0. /\ sock \in SockRecord /\ address \in Addresses
      /\ sock.local \in Addresses /\ sock.peer \in Addresses
  BY SockFields DEF SocketTyped
<1>a. ASSUME result'.data \in Seq(Cell), sock' \in SockRecord, Unmoved PROVE SocketTyped'
  BY <1>a DEF SocketTyped, Unmoved
<1>1. CASE \E family \in {"inet", "inet6", "raw"} : StreamCreate(family) \/ DgramCreate(family)
  <2>1. PICK family \in {"inet", "inet6", "raw"} : StreamCreate(family) \/ DgramCreate(family)
    BY <1>1
  <2>2. UNCHANGED <<kind, call, address>>
    BY <2>1 DEF StreamCreate, DgramCreate
  <2>a. result'.data \in Seq(Cell)
    BY <2>1, ReturnsNothing DEF StreamCreate, DgramCreate
  <2>b. call'.size \in Nat /\ address' \in Addresses
    BY <2>2 DEF SocketTyped
  <2>3. CASE NoSocket
    BY <2>2, <2>3, <2>a DEF NoSocket, SocketTyped
  <2>4. CASE Newborn /\ (StreamBorn(family) \/ DgramBorn(family))
    BY <2>2, <2>4, <2>a, <2>b, NewbornTyped
  <2> QED
    BY <2>1, <2>3, <2>4 DEF StreamCreate, DgramCreate
<1>2. CASE StreamDispose \/ DgramDispose \/ AcceptedDispose
  BY <1>2 DEF StreamDispose, DgramDispose, AcceptedDispose, Dispose, SocketTyped
<1>3. CASE StreamBind \/ DgramBind
  <2>0. sock' = sock \/ sock' = [sock EXCEPT !.bound = TRUE, !.local = address]
    BY <1>3 DEF StreamBind, DgramBind, Bind
  <2>1. sock' \in SockRecord
    BY Zenon, <1>0, <2>0, SockEdits
  <2>2. result'.data \in Seq(Cell)
    BY <1>3, ReturnsNothing DEF StreamBind, DgramBind, Bind
  <2> QED
    BY <1>3, <1>a, <2>1, <2>2 DEF StreamBind, DgramBind, Bind
<1>4. CASE StreamGetLocalAddress \/ DgramGetLocalAddress \/ GetPeerAddress
  <2>1. sock.family # "raw" =>
          [sock.local EXCEPT !.family = AddressType(sock)] \in Addresses
    <3>1. sock.family \in {"inet", "inet6", "raw"}
      BY <1>0, SockFields
    <3> QED
      BY <1>0, <3>1 DEF AddressType, Addresses
  <2>2. address' \in Addresses
    BY <1>0, <1>4, <2>1
       DEF StreamGetLocalAddress, DgramGetLocalAddress, GetLocalAddress, GetPeerAddress
  <2>3. result'.data \in Seq(Cell)
    BY <1>4, ReturnsNothing
       DEF StreamGetLocalAddress, DgramGetLocalAddress, GetLocalAddress, GetPeerAddress
  <2> QED
    BY <1>4, <2>2, <2>3
       DEF StreamGetLocalAddress, DgramGetLocalAddress, GetLocalAddress, GetPeerAddress, SocketTyped
<1>5. CASE \E timeout \in Timeouts, mask \in SUBSET Both \ {{}} :
             StreamSetTimeout(timeout, mask) \/ DgramSetTimeout(timeout, mask)
  <2>1. PICK timeout \in Timeouts, mask \in SUBSET Both : SetTimeout(timeout, mask)
    BY <1>5 DEF StreamSetTimeout, DgramSetTimeout
  <2>2. PICK done \in SUBSET mask :
          /\ sock' = Limited(sock, timeout, done)
          /\ unlimited' = IF timeout = 0 THEN unlimited \cup done ELSE unlimited \ done
          /\ Returns(IF done = mask THEN "OK" ELSE "FAIL")
    BY <2>1 DEF SetTimeout
  <2>3. timeout \in Nat /\ done \in SUBSET Both
    BY NetAssumption DEF NetAssumption
  <2>4. sock' \in SockRecord
    BY Zenon, <1>0, <2>2, <2>3, SockEdits
  <2>5. unlimited' \subseteq Both
    BY <2>2, <2>3 DEF SocketTyped
  <2>6. result'.data \in Seq(Cell)
    BY <2>2, ReturnsNothing
  <2>7. UNCHANGED <<object, inbox, call, address>>
    BY <2>1 DEF SetTimeout
  <2> QED
    BY <2>4, <2>5, <2>6, <2>7 DEF SocketTyped
<1>6. CASE Listen \/ EnableKeepAlive \/ EnableNoDelay
  <2>0. sock' = sock \/ sock' = [sock EXCEPT !.link = "listening", !.bound = TRUE]
    BY <1>6 DEF Listen, EnableKeepAlive, EnableNoDelay
  <2>1. sock' \in SockRecord
    BY Zenon, <1>0, <2>0, SockEdits
  <2>2. result'.data \in Seq(Cell)
    BY <1>6, ReturnsNothing DEF Listen, EnableKeepAlive, EnableNoDelay
  <2> QED
    BY <1>6, <1>a, <2>1, <2>2 DEF Listen, EnableKeepAlive, EnableNoDelay
<1>7. CASE \E mask \in SUBSET Both \ {{}} : Shutdown(mask)
  <2>1. PICK mask \in SUBSET Both : Shutdown(mask)
    BY <1>7
  <2>2. sock' = [sock EXCEPT !.shut = @ \cup mask] \/ sock' = sock
    BY <2>1 DEF Shutdown
  <2>3. sock' \in SockRecord
    BY Zenon, <1>0, <2>2, SockEdits
  <2>4. result'.data \in Seq(Cell)
    BY <2>1, ReturnsNothing DEF Shutdown
  <2> QED
    BY <1>a, <2>1, <2>3, <2>4 DEF Shutdown
<1>8. CASE SetPairAddress(address) \/ ForgetPair
  <2>0. \/ sock' = sock
        \/ sock' = [sock EXCEPT !.link = "up", !.bound = TRUE, !.peer = address]
        \/ sock' = [sock EXCEPT !.link = "none", !.peer = Blank]
    BY <1>8 DEF SetPairAddress, ForgetPair
  <2>1. sock' \in SockRecord
    BY Zenon, <1>0, <2>0, SockEdits DEF Links
  <2>2. result'.data \in Seq(Cell)
    BY <1>8, ReturnsNothing DEF SetPairAddress, ForgetPair
  <2> QED
    BY <1>8, <1>a, <2>1, <2>2 DEF SetPairAddress, ForgetPair
<1>9. CASE \/ \E op \in {"connect", "accept", "send", "waitSent", "waitData"} : StreamBegins(op, 0)
           \/ \E op \in {"sendTo", "waitSent", "waitData"} : DgramBegins(op, 0)
           \/ \E n \in Sizes : StreamBegins("recv", n) \/ DgramBegins("recvFrom", n)
  BY <1>9, BeginsTyped, SocketAssumption DEF SocketAssumption
<1> QED
  BY <1>1, <1>2, <1>3, <1>4, <1>5, <1>6, <1>7, <1>8, <1>9 DEF CallerStep

\* The calls that end.
LEMMA CallEndsTyped == ASSUME SocketTyped, Numbered, CallEnds PROVE SocketTyped'
<1> USE DEF object
<1>0. /\ sock \in SockRecord /\ address \in Addresses
      /\ sock.peer \in Addresses /\ sock.link \in Links
  BY SockFields DEF SocketTyped
<1>1. ASSUME result'.data \in Seq(Cell), sock' \in SockRecord, Ends, CallKeeps PROVE SocketTyped'
  BY <1>1 DEF SocketTyped, Ends, CallKeeps, Idle
<1>2. CASE Connects \/ ConnectTimesOut
  <2>0. PICK link \in {"up", "pending"} :
          sock' = [sock EXCEPT !.link = link, !.bound = TRUE,
                               !.peer = IF sock.link = "none" THEN address ELSE sock.peer]
    BY <1>2 DEF Connects, ConnectTimesOut, Linked
  <2>a. (IF sock.link = "none" THEN address ELSE sock.peer) \in Addresses /\ link \in Links
    BY <1>0 DEF Links
  <2>1. sock' \in SockRecord
    BY Zenon, <1>0, <2>0, <2>a, SockEdits
  <2>2. result'.data \in Seq(Cell)
    BY <1>2, ReturnsNothing DEF Connects, ConnectTimesOut
  <2> QED
    BY <1>1, <1>2, <2>1, <2>2 DEF Connects, ConnectTimesOut
<1>3. CASE ConnectFails
  <2>1. sock' = [sock EXCEPT !.link = IF sock.link = "pending" THEN "none" ELSE sock.link]
    BY <1>3 DEF ConnectFails
  <2>2. sock' \in SockRecord
    BY <1>0, <2>1, OneEdit DEF Links
  <2>3. result'.data \in Seq(Cell)
    BY <1>3, ReturnsNothing DEF ConnectFails
  <2> QED
    BY <1>1, <1>3, <2>2, <2>3 DEF ConnectFails
<1>4. CASE Accepts
  <2>1. result'.data \in Seq(Cell)
    BY <1>4, ReturnsNothing DEF Accepts
  <2>2. made' \in 0 .. MaxMade
    BY <1>4, SocketAssumption DEF Accepts, SocketTyped
  <2> QED
    BY <1>4, <2>1, <2>2 DEF Accepts, Ends, Idle, SocketTyped
<1>5. CASE AcceptFails \/ Sends \/ SendFails
  <2>1. result'.data \in Seq(Cell)
    BY <1>5, ReturnsNothing DEF AcceptFails, Sends, SendFails
  <2> QED
    BY <1>0, <1>1, <1>5, <2>1 DEF AcceptFails, Sends, SendFails
<1>6. CASE SendsTo
  <2>1. result'.data \in Seq(Cell)
    BY <1>6, ReturnsNothing DEF SendsTo
  <2>2. sock' \in SockRecord
    BY <1>0, <1>6, OneEdit DEF SendsTo
  <2> QED
    BY <1>1, <1>6, <2>1, <2>2 DEF SendsTo
<1>7. CASE Receives
  <2>1. Queued \in Seq(Cell)
    BY EmptySeq, ElementOfSeq DEF Queued, SocketTyped
  <2>a. Len(Queued) \in Nat /\ call.size \in Nat
    BY <2>1 DEF SocketTyped
  <2>b. /\ Least(call.size, Len(Queued)) \in Nat
        /\ Least(call.size, Len(Queued)) <= Len(Queued)
    BY <2>a, LeastIs
  <2>2. PICK n \in Nat :
          /\ n = Least(call.size, Len(Queued))
          /\ result' = [code |-> "OK", data |-> SubSeq(Queued, 1, n)]
          /\ inbox' = IF n = Len(Queued) THEN <<>> ELSE <<SubSeq(Queued, n + 1, Len(Queued))>>
    BY <1>7, <2>b DEF Receives, Received
  <2>3. n <= Len(Queued) /\ Len(Queued) \in Nat
    BY <2>a, <2>b, <2>2
  <2>4. SubSeq(Queued, 1, n) \in Seq(Cell)
    BY <2>1, <2>3, CutCells
  <2>5. SubSeq(Queued, n + 1, Len(Queued)) \in Seq(Cell)
    BY <2>1, <2>3, CutCells
  <2>6. inbox' \in Seq(Seq(Cell)) /\ result'.data \in Seq(Cell)
    <3> DEFINE t == SubSeq(Queued, n + 1, Len(Queued))
    <3>1. t \in Seq(Cell)
      BY <2>5
    <3>2. result'.data \in Seq(Cell)
      BY <2>2, <2>4
    <3>3. inbox' = <<>> \/ inbox' = <<t>>
      BY <2>2
    <3> HIDE DEF t
    <3> QED
      BY <3>1, <3>2, <3>3, EmptySeq, SingleSeq
  <2> QED
    BY <1>7, <2>6 DEF Receives, Ends, Idle, SocketTyped
<1>8. CASE ReceivesFrom
  <2>1. inbox[1] \in Seq(Cell) /\ Tail(inbox) \in Seq(Seq(Cell))
    BY <1>8, EmptySeq, ElementOfSeq, HeadTailProperties DEF ReceivesFrom, SocketTyped
  <2>a. Len(inbox[1]) \in Nat /\ call.size \in Nat
    BY <2>1 DEF SocketTyped
  <2>b. /\ Least(call.size, Len(inbox[1])) \in Nat
        /\ Least(call.size, Len(inbox[1])) <= Len(inbox[1])
    BY <2>a, LeastIs
  <2>2. PICK n \in Nat :
          /\ n = Least(call.size, Len(inbox[1]))
          /\ result' = [code |-> "OK", data |-> SubSeq(inbox[1], 1, n)]
    BY <1>8, <2>b DEF ReceivesFrom, Received
  <2>3. SubSeq(inbox[1], 1, n) \in Seq(Cell)
    BY <2>1, <2>b, <2>2, CutCells
  <2>4. result'.data \in Seq(Cell)
    BY <2>2, <2>3
  <2> QED
    BY <1>8, <2>1, <2>4 DEF ReceivesFrom, Ends, Idle, SocketTyped
<1>9. CASE ReceiveTimesOut \/ ReceiveFails
  <2>1. result'.data \in Seq(Cell)
    BY <1>9, ReturnsNothing DEF ReceiveTimesOut, ReceiveFails
  <2> QED
    BY <1>0, <1>1, <1>9, <2>1 DEF ReceiveTimesOut, ReceiveFails
<1>10. CASE WaitEnds
  <2>1. PICK code \in {"OK", "TIMEOUT", "FAIL"} : Waited(code)
    BY <1>10 DEF WaitEnds, StreamWaitsForSent, DgramWaitsForSent, WaitsForSent,
                 StreamWaitsForData, DgramWaitsForData
  <2>2. result'.data \in Seq(Cell)
    BY <2>1, ReturnsNothing DEF Waited
  <2> QED
    BY <1>0, <1>1, <2>1, <2>2 DEF Waited
<1> QED
  BY <1>2, <1>3, <1>4, <1>5, <1>6, <1>7, <1>8, <1>9, <1>10 DEF CallEnds

LEMMA LookedTyped == ASSUME SocketTyped, Looked PROVE SocketTyped'
<1>1. result'.data \in Seq(Cell)
  BY ReturnsNothing DEF Looked
<1> QED
  BY <1>1 DEF Looked, object, SocketTyped

LEMMA ArrivesTyped ==
  ASSUME SocketTyped, NEW d \in Seq(Cell), Arrives(d) PROVE SocketTyped'
<1>1. CASE kind = "stream" /\ inbox # <<>>
  <2>1. inbox[1] \in Seq(Cell)
    BY <1>1, EmptySeq, ElementOfSeq DEF SocketTyped
  <2>2. inbox[1] \o d \in Seq(Cell)
    BY <2>1, ConcatProperties
  <2>3. inbox' = <<inbox[1] \o d>>
    BY <1>1 DEF Arrives
  <2>4. inbox' \in Seq(Seq(Cell))
    BY Zenon, <2>2, <2>3, SingleSeq
  <2> QED
    BY <2>4 DEF Arrives, object, SocketTyped
<1>2. CASE ~(kind = "stream" /\ inbox # <<>>)
  <2>1. inbox' = Append(inbox, d)
    BY <1>2 DEF Arrives
  <2>2. inbox' \in Seq(Seq(Cell))
    BY <2>1, AppendProperties DEF SocketTyped
  <2> QED
    BY <2>2 DEF Arrives, object, SocketTyped
<1> QED
  BY <1>1, <1>2

LEMMA NamedIs ==
  ASSUME NEW text \in Texts, NEW port \in Ports
  PROVE  Named(text, port, "inet") \in Addresses
<1>1. FromString(Blank, text, "inet") \in Addresses
  BY BlankIs, AddressesKept DEF Types
<1> QED
  BY <1>1, AddressesKept, AddressAssumption DEF Named, AddressAssumption

\* The owner's steps.
LEMMA OwnerTyped ==
  ASSUME SocketTyped, ChannelTyped, user = "channel", UNCHANGED user,
         NewChannel \/ ChannelBind \/ TcpClose \/ UdpClose \/ CloseCrashes \/ OwnerStep
  PROVE  SocketTyped' /\ ChannelTyped'
<1> USE DEF object
<1>a. ASSUME UNCHANGED <<meant, channel, connected, request, device>>,
             owner' \in {"out", "opening", "connecting", "closing"}
      PROVE  ChannelTyped'
  BY <1>a DEF ChannelTyped, request, device, Current
<1>1. CASE NewChannel
  <2>1. UNCHANGED <<kind, result>> /\ address' \in Addresses /\ result'.data \in Seq(Cell)
    BY <1>1, BlankIs DEF NewChannel, SocketTyped
  <2>2. call'.size \in Nat
    BY <1>1 DEF NewChannel, SocketTyped, Idle
  <2>3. SocketTyped'
    <3>1. CASE NoSocket
      BY <2>1, <2>2, <3>1 DEF NoSocket, SocketTyped
    <3>2. CASE Newborn /\ (StreamBorn("inet") \/ DgramBorn("inet"))
      BY <2>1, <2>2, <3>2, NewbornTyped
    <3> QED
      BY <1>1, <3>1, <3>2 DEF NewChannel
  <2>4. /\ commands' = <<>> /\ given' = 0 /\ channel' = TRUE /\ fresh' \in BOOLEAN
        /\ pc' \in {pc, "dead"}
        /\ UNCHANGED <<meant, owner, connected, asked, data, answer>>
    BY <1>1 DEF NewChannel
  <2>5. commands' \in Seq(1 .. Current)
    BY <2>4, EmptySeq
  <2>6. ChannelTyped'
    BY <2>4, <2>5 DEF ChannelTyped, Current
  <2> QED
    BY <2>3, <2>6
<1>2. CASE ChannelBind
  <2>1. address' \in Addresses
    BY <1>2, NamedIs DEF ChannelBind, Sets, ChannelTyped
  <2>2. SocketTyped'
    BY <1>2, <2>1 DEF ChannelBind, Sets, SocketTyped
  <2> QED
    BY <1>2, <1>a, <2>2 DEF ChannelBind
<1>3. CASE TcpClose \/ UdpClose
  <2>1. SocketTyped'
    BY <1>3 DEF TcpClose, UdpClose, StreamDispose, DgramDispose, Dispose, SocketTyped
  <2> QED
    BY <1>3, <1>a, <2>1 DEF TcpClose, UdpClose, OwnerGoes
<1>4. CASE TcpOpen
  BY <1>4, <1>a, BeginsTyped DEF TcpOpen, OwnerGoes
<1>5. CASE UdpOpen
  <2>1. CASE sock' = sock
    <3>1. result'.data \in Seq(Cell)
      BY <1>5, ReturnsNothing DEF UdpOpen, SetPairAddress
    <3> QED
      BY <1>5, <1>a, <2>1, <3>1 DEF UdpOpen, OwnerGoes, SetPairAddress, Unmoved, SocketTyped
  <2>2. CASE sock' = [sock EXCEPT !.link = "up", !.bound = TRUE, !.peer = address]
    <3>1. result'.data \in Seq(Cell)
      BY <1>5, ReturnsNothing DEF UdpOpen, SetPairAddress
    <3>2. sock \in SockRecord /\ address \in Addresses
      BY DEF SocketTyped
    <3>3. sock' \in SockRecord
      BY Zenon, <2>2, <3>2, SockEdits DEF Links
    <3> QED
      BY <1>5, <1>a, <3>1, <3>3 DEF UdpOpen, OwnerGoes, SetPairAddress, Unmoved, SocketTyped
  <2> QED
    BY <1>5, <2>1, <2>2 DEF UdpOpen, SetPairAddress
<1>6. CASE OpenCrashes \/ CloseCrashes
  <2>1. SocketTyped'
    BY <1>6 DEF OpenCrashes, CloseCrashes, socket, SocketTyped
  <2> QED
    BY <1>6, <2>1 DEF OpenCrashes, CloseCrashes, driver, device, ChannelTyped, Current
<1>7. CASE Opened
  <2>1. connected' \in BOOLEAN /\ owner' = "out"
    BY <1>7 DEF Opened, ChannelTyped
  <2> QED
    BY <1>7, <2>1, LookedTyped DEF Opened, ChannelTyped, request, device, Current
<1>8. CASE Disconnected
  <2>1. SocketTyped'
    BY <1>8 DEF Disconnected, socket, SocketTyped
  <2> QED
    BY <1>8, <2>1 DEF Disconnected, request, device, ChannelTyped, Current
<1> QED
  BY <1>1, <1>2, <1>3, <1>4, <1>5, <1>6, <1>7, <1>8 DEF OwnerStep

\* The request under way, if there is one, is for cells.
LEMMA SizeIs ==
  ASSUME ChannelTyped
  PROVE  /\ Current \in Nat
         /\ Current # 0 => Size \in Nat \ {0}
<1>1. asked \in Seq(Lengths) /\ Len(asked) \in Nat
  BY LenProperties DEF ChannelTyped
<1>2. Len(asked) # 0 => asked[Len(asked)] \in Lengths
  BY <1>1, ElementOfSeq
<1> QED
  BY <1>1, <1>2, NetAssumption DEF Current, Size

LEMMA WiderSeq ==
  ASSUME NEW S, NEW T, S \subseteq T, NEW s \in Seq(S)
  PROVE  s \in Seq(T)
<1>1. Len(s) \in Nat /\ s \in [1 .. Len(s) -> S]
  BY LenProperties
<1>2. s \in [1 .. Len(s) -> T]
  BY <1>1
<1> QED
  BY <1>1, <1>2

\* The steps of a request.
LEMMA RequestTyped ==
  ASSUME SocketTyped, ChannelTyped, UNCHANGED user,
         SendRefused \/ (\E n \in Lengths : SendCommand(n)) \/ RequestStep
  PROVE  SocketTyped' /\ ChannelTyped'
<1> USE DEF object
<1>0. Current \in Nat /\ (Current # 0 => Size \in Nat)
  BY SizeIs
<1>a. ASSUME NEW to \in {"writing", "wait", "waiting", "read", "reading", "dead"}, Goes(to),
             pc \notin {"out", "dead"}
      PROVE  ChannelTyped'
  BY <1>a DEF Goes, ChannelTyped, driver, device, Current
<1>b. ASSUME NEW code, NEW cells, Finishes(code, cells) PROVE ChannelTyped'
  BY <1>b, EmptySeq DEF Finishes, ChannelTyped, driver, device, Current
<1>1. CASE SendRefused
  <2>1. SocketTyped'
    BY <1>1 DEF SendRefused, socket, SocketTyped
  <2> QED
    BY <1>1, <1>b, <2>1 DEF SendRefused
<1>2. CASE \E n \in Lengths : SendCommand(n)
  <2>1. PICK n \in Lengths : SendCommand(n)
    BY <1>2
  <2>2. SocketTyped'
    BY <2>1 DEF SendCommand, socket, SocketTyped
  <2>3. asked' \in Seq(Lengths) /\ Current' = Current + 1 /\ Current' <= MaxRequests
    BY <2>1, AppendProperties, NetAssumption DEF SendCommand, ChannelTyped, Current
  <2>4. commands' \in Seq(1 .. Current')
    <3>1. commands' = commands /\ commands \in Seq(1 .. Current)
      BY <2>1 DEF SendCommand, device, ChannelTyped
    <3>2. 1 .. Current \subseteq 1 .. Current'
      BY <1>0, <2>3
    <3> QED
      BY <3>1, <3>2, WiderSeq
  <2>5. pc' = "write" /\ fresh' \in BOOLEAN /\ given' = given /\ UNCHANGED <<driver, data>>
    BY <2>1 DEF SendCommand, device
  <2>6. Current' # 0
    BY <1>0, <2>3
  <2> QED
    BY <2>2, <2>3, <2>4, <2>5, <2>6 DEF ChannelTyped, driver
<1>3. CASE TcpWrite \/ UdpWrite \/ TcpWait \/ UdpWait
  <2>1. SocketTyped'
    BY <1>3, BeginsTyped DEF TcpWrite, UdpWrite, TcpWait, UdpWait
  <2> QED
    BY <1>3, <1>a, <2>1 DEF TcpWrite, UdpWrite, TcpWait, UdpWait
<1>4. CASE TcpRead \/ UdpRead
  <2>1. Size \in Nat
    BY <1>0, <1>4 DEF TcpRead, UdpRead, ChannelTyped
  <2>2. SocketTyped'
    BY <1>4, <2>1, BeginsTyped DEF TcpRead, UdpRead
  <2> QED
    BY <1>4, <1>a, <2>2 DEF TcpRead, UdpRead
<1>5. CASE AfterClose
  <2>1. result'.data \in Seq(Cell)
    BY <1>5, ReturnsNothing DEF AfterClose, SocketTyped
  <2>2. SocketTyped'
    BY <1>5, <2>1 DEF AfterClose, SocketTyped
  <2> QED
    BY <1>5, <1>a, <2>2 DEF AfterClose
<1>6. CASE Written
  <2>1. SocketTyped'
    BY <1>6, LookedTyped DEF Written
  <2>2. Current \in 1 .. Current
    BY <1>0, <1>6 DEF Written, ChannelTyped
  <2>a. commands \in Seq(1 .. Current)
    BY DEF ChannelTyped
  <2>b. commands' = Append(commands, Current) \/ commands' = commands
    BY <1>6 DEF Written
  <2>3. commands' \in Seq(1 .. Current)
    BY <2>2, <2>a, <2>b, AppendProperties
  <2> QED
    BY <1>6, <2>1, <2>2, <2>3 DEF Written, driver, ChannelTyped, Current
<1>7. CASE WaitRefused \/ WaitResponse
  <2>1. SocketTyped'
    BY <1>7 DEF WaitRefused, WaitResponse, socket, SocketTyped
  <2> QED
    BY <1>7, <1>a, <1>b, <2>1 DEF WaitRefused, WaitResponse
<1>8. CASE HasWaited
  BY <1>8, <1>a, <1>b, LookedTyped DEF HasWaited
<1>9. CASE TcpHasRead
  <2>1. \E code, cells : Finishes(code, cells)
    BY <1>9 DEF TcpHasRead, Checked
  <2> QED
    BY <1>9, <1>b, <2>1, LookedTyped DEF TcpHasRead
<1>10. CASE UdpHasRead
  <2> DEFINE more == data \o result.data
  <2>1. CASE pc' = "read" /\ data' = more /\ UNCHANGED <<driver, asked, fresh, answer, device>>
    <3>1. data' \in Seq(Cell)
      BY <2>1, ConcatProperties DEF SocketTyped, ChannelTyped
    <3> QED
      BY <1>10, <2>1, <3>1, LookedTyped DEF UdpHasRead, driver, device, ChannelTyped, Current
  <2>2. CASE Checked(more)
    <3>1. \E code, cells : Finishes(code, cells)
      BY <2>2 DEF Checked
    <3> QED
      BY <1>10, <1>b, <3>1, LookedTyped DEF UdpHasRead
  <2> QED
    BY <1>10, <2>1, <2>2 DEF UdpHasRead
<1> QED
  BY <1>1, <1>2, <1>3, <1>4, <1>5, <1>6, <1>7, <1>8, <1>9, <1>10 DEF RequestStep

\* The command the device answers first: whose, and for how many cells.
LEMMA HeadIs ==
  ASSUME ChannelTyped, commands # <<>>
  PROVE  /\ Head(commands) \in 1 .. Current /\ Head(commands) \in Stranger .. MaxRequests
         /\ asked[Head(commands)] \in Nat \ {0}
         /\ Tail(commands) \in Seq(1 .. Current)
<1>1. commands \in Seq(1 .. Current) /\ asked \in Seq(Lengths) /\ Current <= MaxRequests
  BY DEF ChannelTyped
<1>2. Head(commands) \in 1 .. Current /\ Tail(commands) \in Seq(1 .. Current)
  BY <1>1, HeadTailProperties
<1>3. asked[Head(commands)] \in Lengths
  BY <1>1, <1>2, ElementOfSeq DEF Current
<1>4. Current \in Nat
  BY SizeIs
<1>5. \A r \in 1 .. Current : r \in Stranger .. MaxRequests
  BY <1>1, <1>4, NetAssumption DEF Stranger
<1>6. Lengths \subseteq Nat \ {0}
  BY NetAssumption
<1> QED
  BY <1>2, <1>3, <1>5, <1>6

\* The device and what comes from outside.
LEMMA DeviceTyped ==
  ASSUME SocketTyped, ChannelTyped, UNCHANGED user,
         Answers \/ Loses \/ (\E n \in Sizes : Sent(n)) \/ SentEmpty \/ OrphanReturns
  PROVE  SocketTyped' /\ ChannelTyped'
<1>1. CASE Answers
  <2> DEFINE r == Head(commands)
             n == asked[r]
  <2>0. commands # <<>> /\ UNCHANGED <<driver, request>>
    BY <1>1 DEF Answers
  <2>1. /\ r \in Stranger .. MaxRequests /\ n \in Nat /\ Tail(commands) \in Seq(1 .. Current)
    BY <2>0, HeadIs
  <2>2. Row(r, n) \in Seq(Cell) /\ Len(Row(r, n)) = n
    BY <2>1, RowCells
  <2> HIDE DEF r, n
  <2>3. given \in Nat /\ commands \in Seq(1 .. Current)
    BY DEF ChannelTyped
  <2>4. CASE \E m \in (given + 1) .. n :
               /\ Arrives(SubSeq(Row(r, n), given + 1, m))
               /\ IF m = n THEN commands' = Tail(commands) /\ given' = 0
                           ELSE given' = m /\ UNCHANGED commands
    <3>1. PICK m \in (given + 1) .. n :
               /\ Arrives(SubSeq(Row(r, n), given + 1, m))
               /\ IF m = n THEN commands' = Tail(commands) /\ given' = 0
                           ELSE given' = m /\ UNCHANGED commands
      BY <2>4
    <3>2. given + 1 \in Nat \ {0} /\ m \in Nat /\ m <= n
      BY <2>1, <2>3
    <3>3. SubSeq(Row(r, n), given + 1, m) \in Seq(Cell)
      BY <2>2, <3>2, CutCells
    <3>4. SocketTyped'
      BY <3>1, <3>3, ArrivesTyped
    <3>5. given' \in Nat /\ commands' \in Seq(1 .. Current)
      <4>1. given' = 0 \/ given' = m
        BY <3>1
      <4>2. commands' = Tail(commands) \/ commands' = commands
        BY <3>1
      <4>3. given' \in Nat
        BY <3>2, <4>1
      <4>4. commands' \in Seq(1 .. Current)
        BY Zenon, <2>1, <2>3, <4>2
      <4> QED
        BY <4>3, <4>4
    <3> QED
      BY <2>0, <3>4, <3>5 DEF ChannelTyped, driver, request, Current
  <2>5. CASE Arrives(Row(r, n)) /\ commands' \in {commands, Tail(commands)} /\ UNCHANGED given
    <3>1. SocketTyped'
      BY <2>2, <2>5, ArrivesTyped
    <3>2. commands' \in Seq(1 .. Current)
      BY <2>1, <2>3, <2>5
    <3> QED
      BY <2>0, <2>5, <3>1, <3>2 DEF ChannelTyped, driver, request, Current
  <2> QED
    BY <1>1, <2>4, <2>5 DEF Answers, r, n
<1>2. CASE Loses
  <2>1. Tail(commands) \in Seq(1 .. Current)
    BY <1>2, HeadIs DEF Loses
  <2> QED
    BY <1>2, <2>1 DEF Loses, SocketTyped, ChannelTyped, socket, object, driver, request, Current
<1>3. CASE \E n \in Sizes : Sent(n)
  <2>1. PICK n \in Sizes : Sent(n)
    BY <1>3
  <2>2. n \in Nat /\ Stranger \in Stranger .. MaxRequests
    BY SocketAssumption, NetAssumption DEF Stranger
  <2>3. SocketTyped'
    BY <2>1, <2>2, RowCells, ArrivesTyped DEF Sent
  <2> QED
    BY <2>1, <2>3 DEF Sent, ChannelTyped, driver, request, device, Current
<1>4. CASE SentEmpty
  <2>1. <<>> \in Seq(Cell)
    BY EmptySeq
  <2>2. SocketTyped'
    BY <1>4, <2>1, ArrivesTyped DEF SentEmpty
  <2> QED
    BY <1>4, <2>2 DEF SentEmpty, ChannelTyped, driver, request, device, Current
<1>5. CASE OrphanReturns
  <2>1. Current \in Stranger .. MaxRequests /\ call.size \in Nat
    BY SizeIs, NetAssumption DEF ChannelTyped, SocketTyped, Stranger
  <2>2. Row(Current, call.size) \in Seq(Cell)
    BY <2>1, RowCells
  <2>3. result'.data \in Seq(Cell)
    BY <1>5, <2>2, ReturnsNothing DEF OrphanReturns, Received
  <2>4. call'.size \in Nat
    BY <1>5 DEF OrphanReturns, Ends, Idle
  <2>5. SocketTyped'
    BY <1>5, <2>3, <2>4 DEF OrphanReturns, SocketTyped, object
  <2> QED
    BY <1>5, <2>5 DEF OrphanReturns, ChannelTyped, driver, request, device, Current
<1> QED
  BY <1>1, <1>2, <1>3, <1>4, <1>5

LEMMA TypedNext ==
  ASSUME SocketTyped, ChannelTyped, Numbered, [Next]_vars
  PROVE  SocketTyped' /\ ChannelTyped'
<1>a. ASSUME UNCHANGED <<user, driver, request, device>> PROVE ChannelTyped'
  BY <1>a DEF ChannelTyped, driver, request, device, Current
<1>1. CASE NamerStep /\ UNCHANGED <<user, driver, request, device>>
  BY <1>1, <1>a, NamerTyped
<1>2. CASE CallerStep /\ UNCHANGED <<user, driver, request, device>>
  BY <1>2, <1>a, CallerTyped
<1>3. CASE UNCHANGED user /\ user = "channel" /\ ChannelStep
  BY <1>3, OwnerTyped, RequestTyped, DeviceTyped DEF ChannelStep
<1>4. CASE CallEnds /\ UNCHANGED <<user, driver, request, device>>
  BY <1>4, <1>a, CallEndsTyped
<1>5. CASE PeerCloses /\ UNCHANGED <<user, driver, request, device>>
  <2>1. sock' \in SockRecord
    BY <1>5, OneEdit DEF PeerCloses, SocketTyped
  <2> QED
    BY <1>5, <1>a, <2>1 DEF PeerCloses, SocketTyped, object
<1>6. CASE UNCHANGED user /\ (SentEmpty \/ \E n \in Sizes : Sent(n))
  BY <1>6, DeviceTyped
<1>7. CASE UNCHANGED vars
  BY <1>7, <1>a DEF vars, SocketTyped, socket, object
<1> QED
  BY <1>1, <1>2, <1>3, <1>4, <1>5, <1>6, <1>7 DEF Next

\* The types of NetTypeOK are among them.
LEMMA TypesAre == SocketTyped /\ ChannelTyped /\ Numbered => NetTypeOK
<1> SUFFICES ASSUME SocketTyped, ChannelTyped, Numbered PROVE NetTypeOK
  OBVIOUS
<1>1. ASSUME NEW rows \in Seq(Cell) PROVE Cells(rows)
  <2> SUFFICES ASSUME NEW i \in DOMAIN rows
               PROVE  rows[i][1] \in Stranger .. MaxRequests /\ rows[i][2] \in Nat
    BY DEF Cells
  <2>1. rows[i] \in Cell
    BY <1>1, LenProperties, ElementOfSeq
  <2> QED
    BY <2>1 DEF Cell
<1>2. \A i \in DOMAIN inbox : Cells(inbox[i])
  BY <1>1, LenProperties, ElementOfSeq DEF SocketTyped
<1>3. \A i \in DOMAIN commands : commands[i] \in 1 .. Current
  BY LenProperties, ElementOfSeq DEF ChannelTyped
<1>4. SocketOK
  <2>1. {fd, accepted} \subseteq 0 .. made
    BY DEF Numbered
  <2>2. /\ sock.peer \in Addresses /\ sock.local \in Addresses /\ sock.shut \subseteq Both
        /\ sock.link \in {"none", "pending", "up", "listening"}
    BY SockFields DEF SocketTyped, Links
  <2> QED
    BY <1>2, <2>1, <2>2 DEF SocketOK, SocketTyped
<1> QED
  BY <1>1, <1>3, <1>4 DEF NetTypeOK, ChannelTyped

\* NetTypeOK, for every set of addresses, sizes and timeouts and every bound:
\* what is received is made of cells that were sent, and every operation
\* leaves an address of a family, a port of 16 bits and a host of that family.
THEOREM TypesAreKept == Spec => []NetTypeOK
<1> DEFINE I == AccountInv /\ SocketTyped /\ ChannelTyped
<1>1. Init => I
  BY TypedInit DEF Init, AccountInv, Numbered, SocketsAccounted, None
<1>2. I /\ [Next]_vars => I'
  BY AccountNext, TypedNext DEF AccountInv
<1>3. I => NetTypeOK
  BY TypesAre DEF AccountInv
<1> QED
  BY <1>1, <1>2, <1>3, PTL DEF Spec
-----------------------------------------------------------------------------
\* The address a channel was made for.
Given ==
  [family |-> "inet", port |-> meant.port % 65536, v6 |-> "any",
   v4 |-> IF meant.text \in Texts4 THEN meant.text ELSE "any"]

\* PeerIsGiven is inductive once the shared address is known to be the one
\* given whenever a connection is about to be made with it.
PeerInv ==
  user = "channel" =>
    /\ owner = "opening" \/ call.op = "connect" => address = Given
    /\ sock.link # "none" => sock.peer = Given

\* An address starts as "any" with port 0; a text that is no IPv4 address
\* leaves it so.
LEMMA GivenIs ==
  ASSUME meant \in [text : Texts, port : Ports]
  PROVE  Named(meant.text, meant.port, "inet") = Given
<1> DEFINE t == meant.text
           v == IF t \in Texts4 THEN t ELSE "any"
           q == Cut(0)
           b == [family |-> "inet", port |-> 0, v4 |-> v, v6 |-> "any"]
<1>1. (IF Parses(t, "inet") THEN [[Blank EXCEPT !.family = "inet"] EXCEPT !["v4"] = t]
                            ELSE [Blank EXCEPT !.family = "inet"]) = b
  BY DEF Blank, Parses
<1>2. PortOf(Blank) = 0
  BY DEF Blank, PortOf
<1>3. FromString(Blank, t, "inet") = WithPort(b, 0)
  BY <1>1, <1>2 DEF FromString
<1>4. WithPort(b, 0) = [family |-> "inet", port |-> q, v4 |-> v, v6 |-> "any"]
  BY DEF WithPort
<1>5. WithPort(WithPort(b, 0), meant.port)
        = [family |-> "inet", port |-> Cut(meant.port), v4 |-> v, v6 |-> "any"]
  <2> DEFINE r == [family |-> "inet", port |-> q, v4 |-> v, v6 |-> "any"]
             c == Cut(meant.port)
  <2> HIDE DEF v, q, c
  <2>1. [r EXCEPT !.port = c] = [family |-> "inet", port |-> c, v4 |-> v, v6 |-> "any"]
    OBVIOUS
  <2> QED
    BY <1>4, <2>1 DEF WithPort, c
<1>6. Cut(meant.port) = meant.port % 65536
  BY DEF Cut, PortCount
<1> QED
  BY <1>3, <1>5, <1>6 DEF Named, Given

\* Steps that leave a record's link and peer alone.
LEMMA PeerKept ==
  ASSUME NEW s \in SockRecord
  PROVE  /\ [s EXCEPT !.bound = TRUE].link = s.link /\ [s EXCEPT !.bound = TRUE].peer = s.peer
         /\ [s EXCEPT !.eof = TRUE].link = s.link /\ [s EXCEPT !.eof = TRUE].peer = s.peer
  BY DEF SockRecord

LEMMA PeerMade ==
  ASSUME NEW s \in SockRecord, NEW link, NEW a
  PROVE  /\ [s EXCEPT !.link = link, !.bound = TRUE, !.peer = a].link = link
         /\ [s EXCEPT !.link = link, !.bound = TRUE, !.peer = a].peer = a
         /\ [s EXCEPT !.link = link].link = link
         /\ [s EXCEPT !.link = link].peer = s.peer
  BY DEF SockRecord

LEMMA BareLink ==
  ASSUME NEW family \in {"inet", "inet6", "raw"},
         StreamBorn(family) \/ DgramBorn(family)
  PROVE  sock'.link = "none"
<1>1. Bare(family) \in SockRecord /\ Bare(family).link = "none"
  BY BlankIs DEF Bare, SockRecord
<1>2. ASSUME NEW s \in SockRecord, NEW n, NEW mask PROVE Limited(s, n, mask).link = s.link
  BY DEF SockRecord, Limited
<1> QED
  BY <1>1, <1>2 DEF StreamBorn, DgramBorn

\* What the calls do to the peer and to the link.
LEMMA CallsLink ==
  ASSUME SocketTyped, CallEnds
  PROVE  /\ call.op # "none" /\ call' = Idle /\ address' = address
         /\ \/ /\ sock'.peer = sock.peer
               /\ sock'.link # "none" => sock.link # "none"
            \/ /\ call.op = "connect"
               /\ sock'.peer = IF sock.link = "none" THEN address ELSE sock.peer
         /\ sock'.link # sock.link => call.op = "connect"
         /\ call.op = "connect" /\ result'.code = "OK" => sock'.link = "up"
         /\ sock.link = "up" => sock'.link = "up"
<1> USE DEF object
<1>0. sock \in SockRecord
  BY DEF SocketTyped
<1>1. CASE Connects \/ ConnectTimesOut
  <2> DEFINE p == IF sock.link = "none" THEN address ELSE sock.peer
  <2>1. \A link : Linked(link) => sock'.link = link /\ sock'.peer = p
    <3> SUFFICES ASSUME NEW link, Linked(link) PROVE sock'.link = link /\ sock'.peer = p
      OBVIOUS
    <3>1. sock' = [sock EXCEPT !.link = link, !.bound = TRUE, !.peer = p]
      BY DEF Linked
    <3> HIDE DEF p
    <3> QED
      BY <1>0, <3>1, PeerMade
  <2>2. sock'.peer = p
    BY <1>1, <2>1 DEF Connects, ConnectTimesOut
  <2>3. Connects => sock'.link = "up"
    BY <2>1 DEF Connects
  <2>4. ConnectTimesOut => result'.code = "FAIL"
    BY DEF ConnectTimesOut, Returns
  <2>5. sock.link # "up"
    BY <1>1 DEF Connects, ConnectTimesOut, Refused
  <2> QED
    BY <1>1, <2>2, <2>3, <2>4, <2>5 DEF Connects, ConnectTimesOut, Ends, CallKeeps
<1>2. CASE ConnectFails
  <2>1. sock' = [sock EXCEPT !.link = IF sock.link = "pending" THEN "none" ELSE sock.link]
    BY <1>2 DEF ConnectFails
  <2>2. /\ sock'.peer = sock.peer
        /\ sock'.link = IF sock.link = "pending" THEN "none" ELSE sock.link
    BY <1>0, <2>1, PeerMade
  <2>3. result'.code # "OK"
    BY <1>2 DEF ConnectFails, Returns
  <2> QED
    BY <1>2, <2>2, <2>3 DEF ConnectFails, Ends, CallKeeps
<1>3. CASE Accepts \/ Receives \/ ReceivesFrom
  BY <1>3 DEF Accepts, Receives, ReceivesFrom, Ends
<1>4. CASE AcceptFails \/ Sends \/ SendFails \/ ReceiveTimesOut \/ ReceiveFails
  BY <1>4 DEF AcceptFails, Sends, SendFails, ReceiveTimesOut, ReceiveFails, Ends, CallKeeps
<1>5. CASE SendsTo
  <2>1. sock' = sock \/ sock' = [sock EXCEPT !.bound = TRUE]
    BY <1>5 DEF SendsTo
  <2>2. sock'.link = sock.link /\ sock'.peer = sock.peer
    BY <1>0, <2>1, PeerKept
  <2> QED
    BY <1>5, <2>2 DEF SendsTo, Ends, CallKeeps
<1>6. CASE WaitEnds
  BY <1>6 DEF WaitEnds, StreamWaitsForSent, DgramWaitsForSent, WaitsForSent,
              StreamWaitsForData, DgramWaitsForData, Waited, Ends, CallKeeps
<1> QED
  BY <1>1, <1>2, <1>3, <1>4, <1>5, <1>6 DEF CallEnds

\* A request and the device leave the kernel's socket and the address alone.
LEMMA RequestKeepsSocket ==
  ASSUME \/ SendRefused \/ (\E n \in Lengths : SendCommand(n)) \/ RequestStep
         \/ Answers \/ Loses \/ SentEmpty \/ OrphanReturns
  PROVE  /\ UNCHANGED <<kind, sock, address, meant>>
         /\ call' = call \/ call'.op # "connect"
<1> USE DEF object, driver
<1>1. CASE SendRefused \/ (\E n \in Lengths : SendCommand(n)) \/ Loses
  BY <1>1 DEF SendRefused, SendCommand, Loses, Finishes, socket
<1>2. CASE Answers \/ SentEmpty
  BY <1>2 DEF Answers, SentEmpty, Arrives
<1>10. CASE OrphanReturns
  BY <1>10 DEF OrphanReturns, Ends, Idle
<1>3. ASSUME NEW op \in {"send", "sendTo", "waitData", "recv", "recvFrom"}, NEW n,
             StreamBegins(op, n) \/ DgramBegins(op, n)
      PROVE  UNCHANGED <<kind, sock, address>> /\ call'.op # "connect"
  BY <1>3 DEF StreamBegins, DgramBegins, Begins
<1>4. CASE TcpWrite \/ UdpWrite \/ TcpWait \/ UdpWait
  BY <1>3, <1>4 DEF TcpWrite, UdpWrite, TcpWait, UdpWait, Goes
<1>5. CASE TcpRead \/ UdpRead
  BY <1>5 DEF TcpRead, UdpRead, StreamBegins, DgramBegins, Begins, Goes
<1>6. CASE AfterClose
  BY <1>6 DEF AfterClose, Goes
<1>7. CASE Written \/ HasWaited
  BY <1>7 DEF Written, HasWaited, Looked, Goes, Finishes
<1>8. CASE WaitRefused \/ WaitResponse
  BY <1>8 DEF WaitRefused, WaitResponse, Goes, Finishes, socket
<1>9. CASE TcpHasRead \/ UdpHasRead
  BY <1>9 DEF TcpHasRead, UdpHasRead, Looked, Checked, Finishes
<1> QED
  BY <1>1, <1>2, <1>4, <1>5, <1>6, <1>7, <1>8, <1>9, <1>10 DEF RequestStep

LEMMA PeerNext ==
  ASSUME SocketTyped, ChannelTyped, PeerInv, [Next]_vars
  PROVE  PeerInv'
<1> SUFFICES ASSUME user' = "channel" PROVE PeerInv'
  BY DEF PeerInv
<1>0. UNCHANGED user /\ user = "channel" /\ sock \in SockRecord
  BY DEF Next, vars, SocketTyped
<1>a. UNCHANGED meant => Given' = Given
  BY DEF Given
<1> USE <1>0, <1>a DEF PeerInv, object
<1>1. CASE NewChannel
  <2>1. sock' = sock \/ sock'.link = "none"
    BY <1>1, BareLink DEF NewChannel, NoSocket
  <2>2. call'.op # "connect"
    BY <1>1 DEF NewChannel, Idle
  <2> QED
    BY <1>1, <2>1, <2>2 DEF NewChannel
<1>2. CASE ChannelBind
  <2>1. address' = Given
    BY <1>2, GivenIs DEF ChannelBind, Sets, ChannelTyped
  <2> QED
    BY <1>2, <2>1 DEF ChannelBind, Sets
<1>3. CASE TcpClose \/ UdpClose
  BY <1>3 DEF TcpClose, UdpClose, StreamDispose, DgramDispose, Dispose, OwnerGoes
<1>4. CASE TcpOpen
  BY <1>4 DEF TcpOpen, StreamBegins, Begins, OwnerGoes
<1>5. CASE UdpOpen
  <2>1. ASSUME sock' = [sock EXCEPT !.link = "up", !.bound = TRUE, !.peer = address]
        PROVE  sock'.peer = address
    BY <2>1, PeerMade
  <2>2. sock' = sock \/ sock'.peer = address
    BY <1>5, <2>1 DEF UdpOpen, SetPairAddress
  <2> QED
    BY <1>5, <2>2 DEF UdpOpen, SetPairAddress, Unmoved, OwnerGoes
<1>6. CASE OpenCrashes \/ CloseCrashes \/ Disconnected
  BY <1>6 DEF OpenCrashes, CloseCrashes, Disconnected, socket, driver
<1>7. CASE Opened
  BY <1>7 DEF Opened, Looked
<1>8. CASE \/ SendRefused \/ (\E n \in Lengths : SendCommand(n)) \/ RequestStep
           \/ Answers \/ Loses \/ SentEmpty \/ OrphanReturns
  BY <1>8, RequestKeepsSocket, RequestKeepsBooks DEF books
<1>9. CASE CallEnds /\ UNCHANGED driver
  BY <1>9, CallsLink DEF driver, Idle
<1>10. CASE PeerCloses /\ UNCHANGED driver
  <2>1. sock'.link = sock.link /\ sock'.peer = sock.peer
    BY <1>10, PeerKept DEF PeerCloses
  <2> QED
    BY <1>10, <2>1 DEF PeerCloses, driver
<1>11. CASE \E n \in Sizes : Sent(n)
  BY <1>11 DEF Sent, Arrives, driver
<1>12. CASE UNCHANGED vars
  BY <1>12 DEF vars, socket, driver
<1> QED
  BY <1>1, <1>2, <1>3, <1>4, <1>5, <1>6, <1>7, <1>8, <1>9, <1>10, <1>11, <1>12
     DEF Next, ChannelStep, OwnerStep

\* PeerIsGiven, for every set of texts and ports: whatever fails, is closed
\* and is opened again, a channel has no other peer than the one given.
THEOREM PeerIsTheOneGiven == Spec => []PeerIsGiven
<1> DEFINE I == AccountInv /\ SocketTyped /\ ChannelTyped /\ PeerInv
<1>1. Init => I
  BY TypedInit DEF Init, AccountInv, Numbered, SocketsAccounted, None, PeerInv, Bare, Idle
<1>2. I /\ [Next]_vars => I'
  BY AccountNext, TypedNext, PeerNext DEF AccountInv
<1>3. I => PeerIsGiven
  BY DEF PeerInv, PeerIsGiven, Given
<1> QED
  BY <1>1, <1>2, <1>3, PTL DEF Spec
-----------------------------------------------------------------------------
\* Whose answer a request gets.  Where the owner and the request can be at the
\* same time: the channel is opened only when no request is in a call, and a
\* fresh request has the socket that was opened, or none after a close().
Places ==
  /\ owner \in {"opening", "connecting"} => pc \in {"out", "sent"}
  /\ pc # "out" /\ fresh /\ fd # None => fd \in served

\* The call under way is the one its caller has begun, or one on a channel that
\* is gone.
CallIsOwn ==
  \/ call = Idle
  \/ pc = "writing" /\ call.op \in {"send", "sendTo"}
  \/ pc = "waiting" /\ call.op = "waitData"
  \/ pc = "reading" /\ call = [op |-> IF kind = "stream" THEN "recv" ELSE "recvFrom", size |-> Size]
  \/ owner = "connecting" /\ call.op = "connect"
  \/ call.op \in Orphans /\ pc \in {"writing", "waiting", "reading"} /\ ~fresh

\* The socket of a channel that was opened has its peer, so that no stranger
\* gets through to it.
PeerIsLinked ==
  /\ fd # None /\ fd \in served => sock.link = "up"
  /\ owner = "connecting" /\ call = Idle /\ result.code = "OK" => sock.link = "up"

PlaceInv == Places /\ CallIsOwn /\ PeerIsLinked

\* Cells that the answer to the last request begins with.
Begun(x) == \A i \in 1 .. Len(x) : x[i] = <<Current, i - 1>>

\* What a fresh request finds in the socket: of a datagram socket whole
\* answers to it and empty datagrams, of a stream as much of an answer as the
\* device has sent, until it is read.
Datagrams == \A i \in 1 .. Len(inbox) : Begun(inbox[i]) /\ Len(inbox[i]) \in {0, Size}
Streamed ==
  \/ inbox = <<>> /\ given = 0
  \/ /\ Len(inbox) = 1 /\ Begun(inbox[1])
     /\ commands # <<>> => Len(inbox[1]) = given
HasRead ==
  /\ Begun(result.data)
  /\ kind = "dgram" => Len(result.data) \in {0, Size}

OwnFlow ==
  /\ data = <<>>
  /\ commands \in {<<>>, <<Current>>}
  /\ pc \in {"write", "writing"} => commands = <<>> /\ (kind = "stream" => inbox = <<>>)
  /\ kind = "dgram" => Datagrams
  /\ kind = "stream" /\ (pc # "reading" \/ call # Idle) => Streamed
  /\ pc = "reading" /\ call = Idle => HasRead

FlowInv ==
  /\ kind = "dgram" \/ commands = <<>> => given = 0
  /\ pc = "out" => data = <<>>
  /\ pc # "out" /\ fresh => OwnFlow

\* A process that was aborted does nothing more.
LiveInv == user = "channel" /\ pc # "dead" => PlaceInv /\ FlowInv

\* The places are kept by the owner's steps, by those of a request, and by
\* what the kernel does.
LEMMA OwnerKeepsPlaces ==
  ASSUME SocketTyped, Numbered, PlaceInv, pc' # "dead",
         NewChannel \/ ChannelBind \/ TcpClose \/ UdpClose \/ CloseCrashes \/ OwnerStep
  PROVE  PlaceInv'
<1> USE DEF PlaceInv, Places, CallIsOwn, PeerIsLinked, object
<1>0. sock \in SockRecord /\ Idle.op = "none"
  BY DEF SocketTyped, Idle
<1>1. CASE NewChannel
  <2>1. /\ owner = "out" /\ owner' = owner /\ pc' = pc /\ served' \subseteq served
        /\ fresh' = (fresh /\ pc = "out")
    BY <1>1 DEF NewChannel
  <2>2. fd' = None \/ fd' \notin served'
    <3>1. CASE Newborn
      <4>1. fd' = made + 1
        BY <3>1 DEF Newborn
      <4>2. made + 1 \notin served
        BY DEF Numbered
      <4> QED
        BY <2>1, <4>1, <4>2
    <3>2. CASE NoSocket
      BY <3>2 DEF NoSocket
    <3> QED
      BY <1>1, <3>1, <3>2 DEF NewChannel
  <2>3. call' = Idle \/ (call # Idle /\ call'.op \in Orphans)
    BY <1>1 DEF NewChannel, Orphans
  <2>4. call # Idle => pc \in {"writing", "waiting", "reading"}
    BY <2>1
  <2> QED
    BY <2>1, <2>2, <2>3, <2>4
<1>2. CASE ChannelBind
  BY <1>2 DEF ChannelBind, Sets, request
<1>3. CASE TcpClose \/ UdpClose
  BY <1>3 DEF TcpClose, UdpClose, StreamDispose, DgramDispose, Dispose, OwnerGoes, request, Size, Current
<1>4. CASE TcpOpen
  BY <1>0, <1>4 DEF TcpOpen, StreamBegins, Begins, Ready, OwnerGoes, request
<1>5. CASE UdpOpen
  <2>1. ASSUME sock' = [sock EXCEPT !.link = "up", !.bound = TRUE, !.peer = address]
        PROVE  sock'.link = "up"
    BY <1>0, <2>1, PeerMade
  <2>2. sock'.link = "up" \/ (result'.code = "FAIL" /\ sock' = sock)
    BY <1>5, <2>1 DEF UdpOpen, SetPairAddress, Returns
  <2> QED
    BY <1>0, <1>5, <2>2 DEF UdpOpen, SetPairAddress, Ready, Unmoved, OwnerGoes, request
<1>6. CASE OpenCrashes \/ CloseCrashes
  BY <1>6 DEF OpenCrashes, CloseCrashes
<1>7. CASE Opened
  BY <1>7 DEF Opened, Looked, request
<1>8. CASE Disconnected
  BY <1>8 DEF Disconnected, socket, request, Size, Current
<1> QED
  BY <1>1, <1>2, <1>3, <1>4, <1>5, <1>6, <1>7, <1>8 DEF OwnerStep

LEMMA RequestKeepsPlaces ==
  ASSUME PlaceInv, pc' # "dead",
         SendRefused \/ (\E n \in Lengths : SendCommand(n)) \/ RequestStep \/ OrphanReturns
  PROVE  PlaceInv'
<1> USE DEF PlaceInv, Places, CallIsOwn, PeerIsLinked, object, driver
<1>0. Idle.op = "none"
  BY DEF Idle
<1>1. CASE SendRefused
  BY <1>1 DEF SendRefused, Finishes, socket, Size, Current
<1>2. CASE \E n \in Lengths : SendCommand(n)
  BY <1>2 DEF SendCommand, Unlocked, socket
<1>3. CASE TcpWrite \/ UdpWrite
  BY <1>0, <1>3 DEF TcpWrite, UdpWrite, StreamBegins, DgramBegins, Begins, Ready, Goes
<1>4. CASE TcpWait \/ UdpWait
  BY <1>0, <1>4 DEF TcpWait, UdpWait, StreamBegins, DgramBegins, Begins, Ready, Goes
<1>5. CASE TcpRead
  BY <1>0, <1>5 DEF TcpRead, StreamBegins, Begins, Ready, Goes, Size, Current
<1>6. CASE UdpRead
  BY <1>0, <1>6 DEF UdpRead, DgramBegins, Begins, Ready, Goes, Size, Current
<1>7. CASE AfterClose
  BY <1>7 DEF AfterClose, Goes
<1>8. CASE Written \/ HasWaited
  BY <1>8 DEF Written, HasWaited, Looked, Goes, Finishes
<1>9. CASE WaitRefused \/ WaitResponse
  BY <1>9 DEF WaitRefused, WaitResponse, Unlocked, Goes, Finishes, socket
<1>10. CASE TcpHasRead
  <2>1. \E code, cells : Finishes(code, cells)
    BY <1>10 DEF TcpHasRead, Checked
  <2> QED
    BY <1>10, <2>1 DEF TcpHasRead, Looked, Finishes
<1>11. CASE UdpHasRead
  <2>1. /\ pc' \in {"out", "read"} /\ UNCHANGED <<driver, fresh>>
    BY <1>11 DEF UdpHasRead, Checked, Finishes
  <2> QED
    BY <1>11, <2>1 DEF UdpHasRead, Looked
<1>12. CASE OrphanReturns
  <2>1. owner # "connecting"
    BY <1>0, <1>12 DEF OrphanReturns, Orphans
  <2> QED
    BY <1>12, <2>1 DEF OrphanReturns, Ends, request
<1> QED
  BY <1>1, <1>2, <1>3, <1>4, <1>5, <1>6, <1>7, <1>8, <1>9, <1>10, <1>11, <1>12 DEF RequestStep

LEMMA KernelKeepsPlaces ==
  ASSUME SocketTyped, PlaceInv,
         \/ (CallEnds \/ PeerCloses) /\ UNCHANGED <<driver, request>>
         \/ Answers \/ Loses \/ SentEmpty
         \/ \E n \in Sizes : Sent(n)
  PROVE  PlaceInv'
<1> USE DEF PlaceInv, Places, CallIsOwn, PeerIsLinked, driver, request
<1>1. CASE CallEnds /\ UNCHANGED <<driver, request>>
  <2>1. fd' = fd /\ kind' = kind
    BY <1>1, CallsKeepObject DEF Accepts, object
  <2>2. /\ call.op # "none" /\ call' = Idle
        /\ sock'.link # sock.link => call.op = "connect"
        /\ call.op = "connect" /\ result'.code = "OK" => sock'.link = "up"
        /\ sock.link = "up" => sock'.link = "up"
    BY <1>1, CallsLink
  <2>3. Idle.op = "none"
    BY DEF Idle
  <2>4. call.op = "connect" <=> owner = "connecting"
    BY <2>2, <2>3 DEF Orphans
  <2> QED
    BY <1>1, <2>1, <2>2, <2>4
<1>2. CASE PeerCloses /\ UNCHANGED <<driver, request>>
  <2>1. sock'.link = sock.link
    BY <1>2, PeerKept DEF PeerCloses, SocketTyped
  <2> QED
    BY <1>2, <2>1 DEF PeerCloses, object, Size, Current
<1>3. CASE Answers \/ SentEmpty \/ (\E n \in Sizes : Sent(n))
  <2>1. UNCHANGED <<object, sock, call, result, driver, request>>
    <3>1. CASE Answers \/ SentEmpty
      BY <3>1 DEF Answers, SentEmpty, Arrives
    <3>2. CASE \E n \in Sizes : Sent(n)
      BY <3>2 DEF Sent, Arrives
    <3> QED
      BY <1>3, <3>1, <3>2
  <2> QED
    BY <2>1 DEF object, Size, Current
<1>4. CASE Loses
  BY <1>4 DEF Loses, socket, object, Size, Current
<1> QED
  BY <1>1, <1>2, <1>3, <1>4

\* Steps that touch neither the request nor what it reads keep its flow.
LEMMA FlowSame ==
  ASSUME FlowInv, UNCHANGED <<kind, inbox, commands, given, request>>,
         pc # "reading" \/ UNCHANGED <<call, result>>
  PROVE  FlowInv'
<1> USE DEF request
<1>1. UNCHANGED <<Current, Size>>
  BY DEF Current, Size
<1>2. Datagrams => Datagrams'
  BY <1>1 DEF Datagrams, Begun
<1>3. Streamed => Streamed'
  BY <1>1 DEF Streamed, Begun
<1>4. pc = "reading" => (HasRead => HasRead')
  BY <1>1 DEF HasRead, Begun
<1> QED
  BY <1>1, <1>2, <1>3, <1>4 DEF FlowInv, OwnFlow

LEMMA AnswerSame ==
  ASSUME OwnAnswer, UNCHANGED <<kind, asked, answer>>, fresh' => fresh, pc' = "out" => pc = "out"
  PROVE  OwnAnswer'
<1>1. UNCHANGED <<Current, Size, Row(Current, Size)>>
  BY DEF Current, Size, Row
<1> QED
  BY <1>1 DEF OwnAnswer

LEMMA OwnerKeepsFlow ==
  ASSUME PlaceInv, FlowInv, OwnAnswer, pc' # "dead",
         NewChannel \/ ChannelBind \/ TcpClose \/ UdpClose \/ CloseCrashes \/ OwnerStep
  PROVE  FlowInv' /\ OwnAnswer'
<1> USE DEF object, request, driver, device
<1>1. CASE NewChannel
  <2>1. /\ commands' = <<>> /\ given' = 0 /\ fresh' = (fresh /\ pc = "out")
        /\ UNCHANGED <<kind, asked, pc, data, answer>>
    BY <1>1 DEF NewChannel
  <2> QED
    BY <2>1, AnswerSame DEF FlowInv
<1>2. ASSUME UNCHANGED <<kind, inbox, commands, given, request>>,
             pc # "reading" \/ UNCHANGED <<call, result>>
      PROVE  FlowInv' /\ OwnAnswer'
  BY <1>2, FlowSame, AnswerSame
<1>3. CASE ChannelBind
  BY <1>2, <1>3 DEF ChannelBind, Sets
<1>4. CASE TcpClose \/ UdpClose
  BY <1>2, <1>4 DEF TcpClose, UdpClose, StreamDispose, DgramDispose, Dispose, OwnerGoes
<1>5. CASE TcpOpen
  <2>1. pc # "reading"
    BY <1>5 DEF TcpOpen, PlaceInv, Places
  <2> QED
    BY <1>2, <1>5, <2>1 DEF TcpOpen, StreamBegins, Begins, OwnerGoes
<1>6. CASE UdpOpen
  <2>1. pc # "reading"
    BY <1>6 DEF UdpOpen, PlaceInv, Places
  <2> QED
    BY <1>2, <1>6, <2>1 DEF UdpOpen, SetPairAddress, Unmoved, OwnerGoes
<1>7. CASE OpenCrashes \/ CloseCrashes
  BY <1>7 DEF OpenCrashes, CloseCrashes
<1>8. CASE Opened
  <2>1. pc # "reading"
    BY <1>8 DEF Opened, PlaceInv, Places
  <2> QED
    BY <1>2, <1>8, <2>1 DEF Opened, Looked
<1>9. CASE Disconnected
  BY <1>2, <1>9 DEF Disconnected, socket
<1> QED
  BY <1>1, <1>3, <1>4, <1>5, <1>6, <1>7, <1>8, <1>9 DEF OwnerStep

\* What the driver makes of what it has read: the cells that came are those of
\* the answer, and of a datagram all have come.
LEMMA ChecksOwn ==
  ASSUME ChannelTyped, Current # 0, UNCHANGED kind,
         NEW cells \in Seq(Cell), Begun(cells), Checked(cells),
         kind = "dgram" => Len(cells) = Size \/ cells = <<>>,
         kind \in {"stream", "dgram"}
  PROVE  OwnAnswer'
<1> SUFFICES ASSUME answer'.code = "OK"
             PROVE  OwnAnswer'
  BY DEF OwnAnswer
<1>1. cells # <<>> /\ answer' = [code |-> "OK", data |-> Buffer(cells)] /\ UNCHANGED asked
  BY DEF Checked, Finishes, Synced
<1>2. Size \in Nat \ {0} /\ Len(cells) \in Nat \ {0}
  BY <1>1, SizeIs, EmptySeq
<1>3. UNCHANGED <<Current, Size>>
  BY <1>1 DEF Current, Size
<1>4. ASSUME NEW i \in 1 .. Size
      PROVE  \/ Buffer(cells)[i] = Row(Current, Size)[i]
             \/ kind = "stream" /\ i > 1 /\ Buffer(cells)[i] = Zero
  <2>1. Row(Current, Size)[i] = <<Current, i - 1>>
    BY DEF Row
  <2>2. Buffer(cells)[i] = IF i <= Len(cells) THEN cells[i] ELSE Zero
    BY DEF Buffer
  <2>3. CASE i <= Len(cells)
    BY <1>2, <2>1, <2>2, <2>3 DEF Begun
  <2>4. CASE ~(i <= Len(cells))
    BY <1>1, <1>2, <2>2, <2>4
  <2> QED
    BY <2>3, <2>4
<1>5. Row(Current, Size)' = Row(Current, Size)
  BY <1>3 DEF Row
<1> QED
  BY <1>1, <1>3, <1>4, <1>5 DEF OwnAnswer

\* A request begins fresh when nothing is on its way.
LEMMA BeginsFresh ==
  ASSUME FlowInv, OwnAnswer, \E n \in Lengths : SendCommand(n)
  PROVE  FlowInv' /\ OwnAnswer'
<1>1. /\ pc = "out" /\ pc' = "write" /\ (fresh' => commands = <<>> /\ inbox = <<>>)
      /\ UNCHANGED <<kind, inbox, commands, given, data>>
  BY DEF SendCommand, socket, object, device
<1>2. fresh' => commands = <<>> /\ inbox = <<>> /\ given = 0
  BY <1>1 DEF FlowInv
<1>3. kind' = "dgram" /\ fresh' => Datagrams'
  BY <1>1, <1>2, EmptySeq DEF Datagrams
<1>4. fresh' => Streamed'
  BY <1>1, <1>2 DEF Streamed
<1> QED
  BY <1>1, <1>2, <1>3, <1>4 DEF FlowInv, OwnFlow, OwnAnswer

\* A request that fails gives no answer.
LEMMA FailsFlow ==
  ASSUME FlowInv, UNCHANGED <<kind, commands, given>>,
         NEW code, NEW cells, Finishes(code, cells)
  PROVE  FlowInv' /\ (code # "OK" => OwnAnswer')
  BY DEF FlowInv, Finishes, OwnAnswer, device

\* The steps of a request between its beginning and its end.
LEMMA FlowGoes ==
  ASSUME FlowInv, OwnAnswer, NEW to, Goes(to), to \notin {"out", "dead"}, pc # "out",
         UNCHANGED <<kind, inbox>>,
         to \in {"write", "writing"} => pc \in {"write", "writing"},
         kind = "stream" /\ (to # "reading" \/ call' # Idle) => pc # "reading" \/ call # Idle,
         to = "reading" /\ call' = Idle => result'.data = <<>> /\ result'.code # "OK"
  PROVE  FlowInv' /\ OwnAnswer'
<1>1. /\ pc' = to /\ UNCHANGED <<kind, inbox, commands, given, asked, data, fresh, answer>>
  BY DEF Goes, device
<1>2. UNCHANGED <<Current, Size>>
  BY <1>1 DEF Current, Size
<1>3. Datagrams => Datagrams'
  BY <1>1, <1>2 DEF Datagrams, Begun
<1>4. Streamed => Streamed'
  BY <1>1, <1>2 DEF Streamed, Begun
<1>5. to = "reading" /\ call' = Idle => HasRead'
  BY EmptySeq DEF HasRead, Begun
<1>6. OwnAnswer'
  BY <1>1, AnswerSame
<1> QED
  BY <1>1, <1>2, <1>3, <1>4, <1>5, <1>6 DEF FlowInv, OwnFlow

LEMMA RequestKeepsFlow ==
  ASSUME SocketTyped, ChannelTyped, PlaceInv, FlowInv, OwnAnswer, pc' # "dead",
         SendRefused \/ (\E n \in Lengths : SendCommand(n)) \/ RequestStep
  PROVE  FlowInv' /\ OwnAnswer'
<1> USE DEF object
<1>0. Idle.op = "none"
  BY DEF Idle
<1>1. CASE SendRefused \/ WaitRefused
  BY <1>1, FailsFlow DEF SendRefused, WaitRefused, Finishes, socket, device
<1>2. CASE \E n \in Lengths : SendCommand(n)
  BY <1>2, BeginsFresh
<1>3. CASE TcpWrite \/ UdpWrite
  BY <1>0, <1>3, FlowGoes DEF TcpWrite, UdpWrite, StreamBegins, DgramBegins, Begins
<1>4. CASE TcpWait \/ UdpWait
  BY <1>0, <1>4, FlowGoes DEF TcpWait, UdpWait, StreamBegins, DgramBegins, Begins
<1>5. CASE TcpRead \/ UdpRead
  <2>1. /\ Goes("reading") /\ pc = "read" /\ call' # Idle /\ UNCHANGED <<kind, inbox>>
    BY <1>0, <1>5 DEF TcpRead, UdpRead, StreamBegins, DgramBegins, Begins
  <2> QED
    BY <2>1, FlowGoes
<1>6. CASE AfterClose
  <2>1. /\ UNCHANGED <<kind, inbox, call>> /\ result'.data = <<>> /\ result'.code # "OK"
        /\ \/ pc = "write" /\ Goes("writing")
           \/ pc = "wait" /\ Goes("waiting")
           \/ pc = "read" /\ Goes("reading")
    BY <1>6 DEF AfterClose, Returns, Goes
  <2> QED
    BY <2>1, FlowGoes
<1>7. CASE Written
  <2>1. /\ pc = "writing" /\ pc' = "sent" /\ call' = Idle
        /\ UNCHANGED <<kind, inbox, given, asked, data, fresh, answer>>
        /\ commands' = Append(commands, Current) \/ commands' = commands
    BY <1>7 DEF Written, Looked
  <2>2. fresh => /\ commands = <<>> /\ given = 0 /\ data = <<>>
                 /\ IF kind = "stream" THEN inbox = <<>> ELSE kind = "dgram" => Datagrams
    BY <2>1 DEF FlowInv, OwnFlow
  <2>3. UNCHANGED <<Current, Size>> /\ Append(<<>>, Current) = <<Current>>
    BY <2>1 DEF Current, Size
  <2>4. fresh => (kind = "dgram" => Datagrams') /\ (kind = "stream" => Streamed')
    BY <2>1, <2>2, <2>3 DEF Datagrams, Begun, Streamed
  <2>5. kind' = "dgram" \/ commands' = <<>> => given' = 0
    BY <2>1, AppendProperties DEF FlowInv, ChannelTyped
  <2>6. OwnAnswer'
    BY <2>1, AnswerSame
  <2> QED
    BY <2>1, <2>2, <2>3, <2>4, <2>5, <2>6 DEF FlowInv, OwnFlow
<1>8. CASE WaitResponse
  BY <1>8, FlowGoes DEF WaitResponse, socket
<1>9. CASE HasWaited
  <2>1. pc = "waiting" /\ UNCHANGED <<kind, inbox>>
    BY <1>9 DEF HasWaited, Looked
  <2>2. CASE Goes("read")
    BY <2>1, <2>2, FlowGoes
  <2>3. CASE Finishes("TIMEOUT", <<>>)
    BY <2>1, <2>3, FailsFlow DEF Finishes, device
  <2> QED
    BY <1>9, <2>2, <2>3 DEF HasWaited
<1>10. CASE TcpHasRead
  <2>1. /\ pc = "reading" /\ kind = "stream" /\ call = Idle /\ kind' = kind /\ Checked(result.data)
    BY <1>10 DEF TcpHasRead, Looked
  <2>2. PICK code, cells : Finishes(code, cells)
    BY <2>1 DEF Checked
  <2>3. FlowInv'
    BY <2>1, <2>2, FailsFlow DEF Finishes, device
  <2>4. OwnAnswer'
    <3>1. CASE fresh
      <4>1. Begun(result.data)
        BY <2>1, <3>1 DEF FlowInv, OwnFlow, HasRead
      <4>2. Current # 0 /\ result.data \in Seq(Cell)
        BY <2>1 DEF ChannelTyped, SocketTyped
      <4> QED
        BY <2>1, <4>1, <4>2, ChecksOwn
    <3>2. CASE ~fresh
      BY <2>2, <3>2 DEF Finishes, OwnAnswer
    <3> QED
      BY <3>1, <3>2
  <2> QED
    BY <2>3, <2>4
<1>11. CASE UdpHasRead
  <2> DEFINE more == data \o result.data
  <2>1. /\ pc = "reading" /\ kind = "dgram" /\ call = Idle /\ UNCHANGED <<kind, inbox>> /\ call' = Idle
    BY <1>11 DEF UdpHasRead, Looked
  <2>2. /\ Current # 0 /\ Size \in Nat \ {0}
        /\ data \in Seq(Cell) /\ result.data \in Seq(Cell)
    BY <2>1, SizeIs DEF ChannelTyped, SocketTyped
  <2>3. fresh => more = result.data /\ HasRead
    BY <2>1, <2>2, ConcatEmptySeq DEF FlowInv, OwnFlow
  <2>4. CASE /\ result.code = "OK" /\ Len(more) < Size
             /\ pc' = "read" /\ data' = more
             /\ UNCHANGED <<driver, asked, fresh, answer, device>>
    <3>1. fresh => more = <<>>
      <4>1. fresh => Len(more) = 0 /\ more \in Seq(Cell)
        BY <2>1, <2>2, <2>3, <2>4 DEF HasRead
      <4> HIDE DEF more
      <4> QED
        BY <4>1, EmptySeq
    <3>2. OwnAnswer'
      BY <2>1, <2>4, AnswerSame
    <3>3. UNCHANGED <<Current, Size>>
      BY <2>4 DEF Current, Size
    <3>4. Datagrams => Datagrams'
      BY <2>1, <3>3 DEF Datagrams, Begun
    <3>5. UNCHANGED <<commands, given, fresh>> /\ pc' = "read" /\ data' = more
      BY <2>4 DEF device
    <3> HIDE DEF more
    <3> QED
      BY <2>1, <3>1, <3>2, <3>3, <3>4, <3>5 DEF FlowInv, OwnFlow
  <2>5. CASE Checked(more)
    <3>1. PICK code, cells : Finishes(code, cells)
      BY <2>5 DEF Checked
    <3>2. FlowInv'
      BY <2>1, <3>1, FailsFlow DEF Finishes, device
    <3>3. OwnAnswer'
      <4>1. CASE fresh
        <5>1. Begun(more) /\ (Len(more) = Size \/ more = <<>>) /\ more \in Seq(Cell)
          BY <2>1, <2>2, <2>3, <4>1, EmptySeq DEF HasRead
        <5> HIDE DEF more
        <5> QED
          BY <2>1, <2>2, <2>5, <5>1, ChecksOwn
      <4>2. CASE ~fresh
        BY <3>1, <4>2 DEF Finishes, OwnAnswer
      <4> QED
        BY <4>1, <4>2
    <3> QED
      BY <3>2, <3>3
  <2> QED
    BY <1>11, <2>4, <2>5 DEF UdpHasRead
<1> QED
  BY <1>1, <1>2, <1>3, <1>4, <1>5, <1>6, <1>7, <1>8, <1>9, <1>10, <1>11 DEF RequestStep

\* What a read gets out of a stream or a datagram socket that holds nothing
\* but the answer.
LEMMA ReadsOwn ==
  ASSUME SocketTyped, ChannelTyped, UNCHANGED <<kind, asked>>, CallEnds,
         pc = "reading", Current # 0, call # Idle, CallIsOwn,
         owner # "connecting", fresh,
         kind = "dgram" => Datagrams, kind = "stream" => Streamed
  PROVE  HasRead' /\ (kind = "dgram" => Datagrams')
<1> USE DEF object
<1>0. /\ UNCHANGED <<Current, Size>> /\ Size \in Nat \ {0} /\ call.size = Size
      /\ call.op = IF kind = "stream" THEN "recv" ELSE "recvFrom"
      /\ kind \in {"stream", "dgram"}
  BY SizeIs DEF CallIsOwn, Current, Size, SocketTyped
<1>a. ASSUME NEW x \in Seq(Cell), Begun(x), NEW n \in Nat, n <= Len(x)
      PROVE  /\ Begun(SubSeq(x, 1, n)) /\ Len(SubSeq(x, 1, n)) = n
  <2>1. /\ Len(SubSeq(x, 1, n)) = n
        /\ \A i \in 1 .. Len(SubSeq(x, 1, n)) : SubSeq(x, 1, n)[i] = x[1 + i - 1]
    BY <1>a, CutCells
  <2> DEFINE y == SubSeq(x, 1, n)
  <2>2. Len(y) = n /\ \A i \in 1 .. n : y[i] = x[i]
    BY <2>1
  <2>3. Len(x) \in Nat
    BY LenProperties
  <2> HIDE DEF y
  <2>4. \A i \in 1 .. n : i \in 1 .. Len(x)
    BY <1>a, <2>3
  <2>5. \A i \in 1 .. n : y[i] = <<Current, i - 1>>
    BY <1>a, <2>2, <2>4 DEF Begun
  <2>6. Len(y) = n /\ Begun(y)
    BY <2>2, <2>5 DEF Begun
  <2> QED
    BY <2>6 DEF y
<1>1. CASE Receives
  <2>1. kind = "stream" /\ Queued \in Seq(Cell) /\ Begun(Queued)
    <3>1. kind = "stream"
      BY <1>0, <1>1 DEF Receives
    <3>2. CASE inbox = <<>>
      BY <3>1, <3>2, EmptySeq DEF Queued, Begun
    <3>3. CASE Len(inbox) = 1 /\ Begun(inbox[1])
      <4>0. 1 \in 1 .. Len(inbox)
        BY <3>3
      <4>1. inbox \in Seq(Seq(Cell)) /\ inbox # <<>>
        <5>1. inbox \in Seq(Seq(Cell))
          BY DEF SocketTyped
        <5>2. inbox # <<>>
          BY <3>3, EmptySeq
        <5> QED
          BY <5>1, <5>2
      <4>2. inbox[1] \in Seq(Cell) /\ Queued = inbox[1]
        BY <4>0, <4>1, ElementOfSeq DEF Queued
      <4> QED
        BY <3>1, <3>3, <4>2
    <3> QED
      BY <3>1, <3>2, <3>3 DEF Streamed
  <2>2. /\ Least(call.size, Len(Queued)) \in Nat
        /\ Least(call.size, Len(Queued)) <= Len(Queued)
    BY <1>0, <2>1, LeastIs, LenProperties
  <2>3. PICK n \in Nat :
          /\ n <= Len(Queued)
          /\ result' = [code |-> "OK", data |-> SubSeq(Queued, 1, n)]
    BY <1>1, <2>2 DEF Receives, Received
  <2>4. Begun(SubSeq(Queued, 1, n))
    BY <1>a, <2>1, <2>3
  <2> QED
    BY <1>0, <2>1, <2>3, <2>4 DEF HasRead, Begun
<1>2. CASE ReceivesFrom
  <2>1. kind = "dgram" /\ inbox # <<>> /\ inbox \in Seq(Seq(Cell))
    BY <1>0, <1>2 DEF ReceivesFrom, SocketTyped
  <2>2. /\ inbox[1] \in Seq(Cell) /\ Begun(inbox[1]) /\ Len(inbox[1]) \in {0, Size}
        /\ Tail(inbox) \in Seq(Seq(Cell)) /\ Len(Tail(inbox)) = Len(inbox) - 1
        /\ \A i \in 1 .. Len(Tail(inbox)) : Tail(inbox)[i] = inbox[i + 1]
    BY <2>1, EmptySeq, ElementOfSeq, HeadTailProperties DEF Datagrams
  <2> DEFINE n == Len(inbox[1])
  <2>3. Least(call.size, n) = n /\ n \in {0, Size} /\ n \in Nat
    BY <1>0, <2>2 DEF Least
  <2>4. result' = [code |-> "OK", data |-> SubSeq(inbox[1], 1, n)] /\ inbox' = Tail(inbox)
    BY <1>2, <2>3 DEF ReceivesFrom, Received
  <2>5. Begun(SubSeq(inbox[1], 1, n)) /\ Len(SubSeq(inbox[1], 1, n)) = n
    BY <1>0, <1>a, <2>2, <2>3
  <2>6. HasRead'
    <3>1. result'.data = SubSeq(inbox[1], 1, n)
      BY <2>4
    <3>2. Begun(result'.data) /\ Len(result'.data) = n
      BY Zenon, <2>5, <3>1
    <3> HIDE DEF n
    <3> QED
      BY <1>0, <2>3, <3>2 DEF HasRead, Begun
  <2>7. Datagrams'
    <3>1. \A i \in 1 .. Len(Tail(inbox)) : i + 1 \in 1 .. Len(inbox)
      BY <2>1, <2>2, LenProperties
    <3>2. \A i \in 1 .. Len(Tail(inbox)) :
            Begun(Tail(inbox)[i]) /\ Len(Tail(inbox)[i]) \in {0, Size}
      BY Zenon, <2>1, <2>2, <3>1 DEF Datagrams
    <3>3. inbox' = Tail(inbox)
      BY <2>4
    <3>4. \A i \in 1 .. Len(inbox') : Begun(inbox'[i]) /\ Len(inbox'[i]) \in {0, Size}
      BY Zenon, <3>2, <3>3
    <3> QED
      BY <1>0, <3>4 DEF Datagrams, Begun
  <2> QED
    BY <2>6, <2>7
<1>3. CASE ReceiveTimesOut \/ ReceiveFails
  <2>1. result'.data = <<>> /\ result'.code # "OK" /\ inbox' = inbox
    BY <1>3 DEF ReceiveTimesOut, ReceiveFails, Returns, CallKeeps
  <2> QED
    BY <1>0, <2>1, EmptySeq DEF HasRead, Begun, Datagrams
<1>4. CASE Connects \/ ConnectTimesOut \/ ConnectFails \/ Accepts \/ AcceptFails
  BY <1>0, <1>4 DEF Connects, ConnectTimesOut, ConnectFails, Accepts, AcceptFails
<1>5. CASE Sends \/ SendFails \/ SendsTo
  BY <1>0, <1>5 DEF Sends, SendFails, SendsTo
<1>6. CASE WaitEnds
  BY <1>0, <1>6 DEF WaitEnds, StreamWaitsForSent, DgramWaitsForSent, WaitsForSent,
                    StreamWaitsForData, DgramWaitsForData
<1> QED
  BY <1>1, <1>2, <1>3, <1>4, <1>5, <1>6 DEF CallEnds

\* The calls a request is in, but for its read, leave what has come in alone.
LEMMA OthersReadNothing ==
  ASSUME CallEnds, call.op \notin {"recv", "recvFrom"} PROVE inbox' = inbox
<1>1. CASE Connects \/ ConnectTimesOut \/ ConnectFails \/ AcceptFails \/ Sends \/ SendFails \/ SendsTo
  BY <1>1 DEF Connects, ConnectTimesOut, ConnectFails, AcceptFails, Sends, SendFails, SendsTo, CallKeeps
<1>2. CASE Accepts \/ Receives \/ ReceivesFrom \/ ReceiveTimesOut \/ ReceiveFails
  BY <1>2 DEF Accepts, Receives, ReceivesFrom, ReceiveTimesOut, ReceiveFails
<1>3. CASE WaitEnds
  BY <1>3 DEF WaitEnds, StreamWaitsForSent, DgramWaitsForSent, WaitsForSent,
              StreamWaitsForData, DgramWaitsForData, Waited, CallKeeps
<1> QED
  BY <1>1, <1>2, <1>3 DEF CallEnds

LEMMA CallsKeepFlow ==
  ASSUME SocketTyped, ChannelTyped, PlaceInv, FlowInv, OwnAnswer, pc # "dead",
         CallEnds, UNCHANGED <<driver, request, device>>
  PROVE  FlowInv' /\ OwnAnswer'
<1> USE DEF object
<1>1. /\ UNCHANGED <<kind, asked, pc, data, fresh, answer, commands, given>>
      /\ call.op # "none" /\ call' = Idle /\ call # Idle
  BY CallsKeepObject, CallsLink DEF request, device, Accepts, Idle
<1>2. OwnAnswer'
  BY <1>1, AnswerSame
<1>3. UNCHANGED <<Current, Size>>
  BY <1>1 DEF Current, Size
<1>4. CASE pc = "out" \/ ~fresh
  BY <1>1, <1>2, <1>4 DEF FlowInv
<1>5. CASE pc # "out" /\ fresh /\ pc # "reading"
  <2>1. call.op \notin {"recv", "recvFrom"}
    BY <1>1, <1>5 DEF PlaceInv, CallIsOwn, Places, Orphans
  <2>2. inbox' = inbox
    BY <2>1, OthersReadNothing
  <2>3. (Datagrams => Datagrams') /\ (Streamed => Streamed')
    BY <1>1, <1>3, <2>2 DEF Datagrams, Streamed, Begun
  <2> QED
    BY <1>1, <1>2, <1>3, <1>5, <2>2, <2>3 DEF FlowInv, OwnFlow
<1>6. CASE pc # "out" /\ fresh /\ pc = "reading"
  <2>1. /\ owner # "connecting" /\ Current # 0 /\ CallIsOwn
        /\ kind = "dgram" => Datagrams
        /\ kind = "stream" => Streamed
    BY <1>1, <1>6 DEF PlaceInv, Places, ChannelTyped, FlowInv, OwnFlow
  <2>2. HasRead' /\ (kind = "dgram" => Datagrams')
    BY <1>1, <1>6, <2>1, ReadsOwn
  <2> QED
    BY <1>1, <1>2, <1>3, <1>6, <2>2 DEF FlowInv, OwnFlow
<1> QED
  BY <1>4, <1>5, <1>6

\* What the device sends of an answer of n cells, after x, to have sent m.
Piece(x, m, n) == SubSeq(Row(Current, n), Len(x) + 1, m)

\* It goes on where the device has stopped.
LEMMA PieceGoesOn ==
  ASSUME Current \in Stranger .. MaxRequests, NEW n \in Nat, NEW m \in Nat, m <= n,
         NEW x \in Seq(Cell), Begun(x), Len(x) < m
  PROVE  /\ Piece(x, m, n) \in Seq(Cell)
         /\ Begun(x \o Piece(x, m, n)) /\ Len(x \o Piece(x, m, n)) = m
         /\ x = <<>> => Begun(Piece(x, m, n)) /\ Len(Piece(x, m, n)) = m
<1> DEFINE y == Piece(x, m, n)
<1>0. y = SubSeq(Row(Current, n), Len(x) + 1, m)
  BY DEF Piece
<1> HIDE DEF y
<1>1. /\ Row(Current, n) \in Seq(Cell) /\ Len(Row(Current, n)) = n
      /\ \A i \in 1 .. n : Row(Current, n)[i] = <<Current, i - 1>>
  BY RowCells
<1>2. Len(x) \in Nat /\ Len(x) + 1 \in Nat \ {0}
  BY LenProperties
<1>3. /\ y \in Seq(Cell) /\ Len(y) = m - Len(x)
      /\ \A i \in 1 .. Len(y) : y[i] = Row(Current, n)[(Len(x) + 1) + i - 1]
  <2>1. /\ y \in Seq(Cell)
        /\ Len(y) = IF Len(x) + 1 <= m THEN m - (Len(x) + 1) + 1 ELSE 0
        /\ \A i \in 1 .. Len(y) : y[i] = Row(Current, n)[(Len(x) + 1) + i - 1]
    <3>1. ASSUME NEW row \in Seq(Cell), NEW first \in Nat \ {0}, m <= Len(row),
                 y = SubSeq(row, first, m)
          PROVE  /\ y \in Seq(Cell)
                 /\ Len(y) = IF first <= m THEN m - first + 1 ELSE 0
                 /\ \A i \in 1 .. Len(y) : y[i] = row[first + i - 1]
      <4>1. /\ SubSeq(row, first, m) \in Seq(Cell)
            /\ Len(SubSeq(row, first, m)) = IF first <= m THEN m - first + 1 ELSE 0
            /\ \A i \in 1 .. Len(SubSeq(row, first, m)) :
                 SubSeq(row, first, m)[i] = row[first + i - 1]
        BY <3>1, CutCells
      <4> QED
        BY Zenon, <3>1, <4>1
    <3> QED
      BY Zenon, <1>0, <1>1, <1>2, <3>1
  <2> QED
    BY <1>2, <2>1
<1>4. \A i \in 1 .. Len(y) : y[i] = <<Current, Len(x) + i - 1>>
  <2> SUFFICES ASSUME NEW i \in 1 .. Len(y) PROVE y[i] = <<Current, Len(x) + i - 1>>
    OBVIOUS
  <2>1. Len(x) + i \in 1 .. n /\ (Len(x) + 1) + i - 1 = Len(x) + i
    BY <1>2, <1>3
  <2>2. y[i] = Row(Current, n)[Len(x) + i]
    BY Zenon, <1>3, <2>1
  <2>3. Row(Current, n)[Len(x) + i] = <<Current, Len(x) + i - 1>>
    BY <1>1, <2>1
  <2> QED
    BY Zenon, <2>2, <2>3
<1>5. /\ Len(x \o y) = m
      /\ \A i \in 1 .. m : (x \o y)[i] = IF i <= Len(x) THEN x[i] ELSE y[i - Len(x)]
  BY <1>2, <1>3, ConcatProperties
<1>6. ASSUME NEW i \in 1 .. m PROVE (x \o y)[i] = <<Current, i - 1>>
  <2>1. CASE i <= Len(x)
    <3>1. i \in 1 .. Len(x)
      BY <1>2, <2>1
    <3> QED
      BY <1>5, <2>1, <3>1 DEF Begun
  <2>2. CASE ~(i <= Len(x))
    <3>1. i - Len(x) \in 1 .. Len(y) /\ Len(x) + (i - Len(x)) - 1 = i - 1
      BY <1>2, <1>3, <2>2
    <3>2. y[i - Len(x)] = <<Current, i - 1>>
      BY <1>4, <3>1
    <3> QED
      BY <1>5, <2>2, <3>2
  <2> QED
    BY <2>1, <2>2
<1>7. ASSUME x = <<>> PROVE Begun(y) /\ Len(y) = m
  <2>1. Len(x) = 0 /\ Len(y) = m
    BY <1>2, <1>3, <1>7
  <2> QED
    BY <1>4, <2>1 DEF Begun
<1> QED
  BY <1>3, <1>5, <1>6, <1>7 DEF Begun, y

\* The device and what it sends: whole answers as datagrams, an answer piece
\* by piece as a stream.
LEMMA AnswersKeepFlow ==
  ASSUME SocketTyped, ChannelTyped, FlowInv, OwnAnswer, Answers
  PROVE  FlowInv' /\ OwnAnswer'
<1> DEFINE r == Head(commands)
           n == asked[r]
<1>0. /\ commands # <<>>
      /\ UNCHANGED <<kind, call, result, asked, pc, data, fresh, answer>>
  BY DEF Answers, Arrives, object, request
<1>1. UNCHANGED <<Current, Size>>
  BY <1>0 DEF Current, Size
<1>2. OwnAnswer'
  BY <1>0, AnswerSame
<1>3. /\ r \in Stranger .. MaxRequests /\ n \in Nat
      /\ inbox \in Seq(Seq(Cell)) /\ kind \in {"stream", "dgram"} /\ given \in Nat
  BY <1>0, HeadIs DEF SocketTyped, ChannelTyped
<1>4. pc # "out" /\ fresh => commands = <<Current>> /\ r = Current /\ n = Size
  BY <1>0 DEF FlowInv, OwnFlow, Size
<1>5. HasRead => HasRead'
  BY <1>0, <1>1 DEF HasRead, Begun
<1>a. Tail(<<Current>>) = <<>>
  OBVIOUS
<1> HIDE DEF r, n
<1>6. CASE kind = "dgram"
  <2>1. /\ Arrives(Row(r, n))
        /\ commands' \in {commands, Tail(commands)} /\ UNCHANGED given
    BY <1>6 DEF Answers, r, n
  <2>2. inbox' = Append(inbox, Row(r, n))
    BY <1>6, <2>1 DEF Arrives
  <2>3. ASSUME pc # "out", fresh PROVE Datagrams'
    <3>1. Datagrams /\ r = Current /\ n = Size
      BY <1>4, <1>6, <2>3 DEF FlowInv, OwnFlow
    <3>2. Begun(Row(r, n)) /\ Len(Row(r, n)) \in {0, Size}
      BY <1>3, <3>1, RowCells DEF Begun
    <3>3. /\ Len(inbox) \in Nat /\ Len(inbox') = Len(inbox) + 1
          /\ \A i \in 1 .. Len(inbox) : inbox'[i] = inbox[i]
          /\ inbox'[Len(inbox) + 1] = Row(r, n)
      <4>1. Row(r, n) \in Seq(Cell)
        BY <1>3, RowCells
      <4> QED
        BY <1>3, <2>2, <4>1, AppendProperties, LenProperties
    <3>4. \A i \in 1 .. Len(inbox') : Begun(inbox'[i]) /\ Len(inbox'[i]) \in {0, Size}
      <4> SUFFICES ASSUME NEW i \in 1 .. Len(inbox')
                   PROVE  Begun(inbox'[i]) /\ Len(inbox'[i]) \in {0, Size}
        OBVIOUS
      <4>1. i \in 1 .. Len(inbox) \/ i = Len(inbox) + 1
        BY <3>3
      <4>2. CASE i \in 1 .. Len(inbox)
        BY Zenon, <3>1, <3>3, <4>2 DEF Datagrams
      <4>3. CASE i = Len(inbox) + 1
        BY Zenon, <3>2, <3>3, <4>3
      <4> QED
        BY <4>1, <4>2, <4>3
    <3> QED
      BY <1>1, <3>4 DEF Datagrams, Begun
  <2>4. ASSUME pc # "out", fresh PROVE commands' \in {<<>>, <<Current>>}
    BY Zenon, <1>4, <1>a, <2>1, <2>4
  <2> QED
    BY <1>0, <1>1, <1>2, <1>5, <1>6, <2>1, <2>3, <2>4 DEF FlowInv, OwnFlow
<1>7. CASE kind = "stream"
  <2>1. PICK m \in (given + 1) .. n :
          /\ Arrives(SubSeq(Row(r, n), given + 1, m))
          /\ IF m = n THEN commands' = Tail(commands) /\ given' = 0
                      ELSE given' = m /\ UNCHANGED commands
    BY <1>7 DEF Answers, r, n
  <2> DEFINE y == SubSeq(Row(r, n), given + 1, m)
  <2>2. m \in Nat /\ given + 1 <= m /\ m <= n
    BY <1>3, <2>1
  <2>3. commands' = <<>> => given' = 0
    BY <1>0, <2>1
  <2>4. ASSUME pc # "out", fresh, Streamed PROVE Streamed'
    <3>1. r = Current /\ n = Size /\ commands = <<Current>>
      BY <1>4, <2>4
    <3>a. Current \in Stranger .. MaxRequests
      BY Zenon, <1>3, <3>1
    <3>2. commands' = <<>> \/ given' = m
      BY Zenon, <1>a, <2>1, <3>1
    <3>3. CASE inbox = <<>> /\ given = 0
      <4>1. <<>> \in Seq(Cell) /\ Begun(<<>>) /\ Len(<<>>) = 0
        BY EmptySeq DEF Begun
      <4>2. y = Piece(<<>>, m, n) /\ Len(<<>>) < m
        BY <2>2, <3>1, <3>3, <4>1 DEF Piece
      <4> HIDE DEF y
      <4>3. y \in Seq(Cell) /\ Begun(y) /\ Len(y) = m
        BY Zenon, <1>3, <2>2, <3>a, <4>1, <4>2, PieceGoesOn
      <4>4. inbox' = <<y>>
        BY <2>1, <3>3 DEF Arrives, y
      <4>5. Len(inbox') = 1 /\ inbox'[1] = y
        BY Zenon, <4>3, <4>4, SingleSeq
      <4> QED
        BY <1>1, <3>2, <4>3, <4>5 DEF Streamed, Begun
    <3>4. CASE Len(inbox) = 1 /\ Begun(inbox[1]) /\ Len(inbox[1]) = given
      <4>1. inbox # <<>> /\ inbox[1] \in Seq(Cell)
        <5>1. Len(inbox) = 1
          BY <3>4
        <5>2. inbox # <<>> /\ 1 \in 1 .. Len(inbox)
          BY <5>1, EmptySeq
        <5> QED
          BY Zenon, <1>3, <5>2, ElementOfSeq
      <4>2. y = Piece(inbox[1], m, n) /\ Len(inbox[1]) < m
        BY <1>3, <2>2, <3>1, <3>4 DEF Piece
      <4> HIDE DEF y
      <4>3. y \in Seq(Cell) /\ Begun(inbox[1] \o y) /\ Len(inbox[1] \o y) = m
        BY Zenon, <1>3, <2>2, <3>4, <3>a, <4>1, <4>2, PieceGoesOn
      <4>4. inbox' = <<inbox[1] \o y>>
        BY <1>7, <2>1, <4>1 DEF Arrives, y
      <4>5. Len(inbox') = 1 /\ inbox'[1] = inbox[1] \o y
        <5>1. inbox[1] \o y \in Seq(Cell)
          BY <4>1, <4>3, ConcatProperties
        <5> QED
          BY Zenon, <4>4, <5>1, SingleSeq
      <4> QED
        BY <1>1, <3>2, <4>3, <4>5 DEF Streamed, Begun
    <3> QED
      BY <1>0, <2>4, <3>3, <3>4 DEF Streamed
  <2>5. ASSUME pc # "out", fresh PROVE commands' \in {<<>>, <<Current>>}
    BY Zenon, <1>4, <1>a, <2>1, <2>5
  <2> HIDE DEF y
  <2> QED
    BY <1>0, <1>1, <1>2, <1>5, <1>7, <2>3, <2>4, <2>5 DEF FlowInv, OwnFlow
<1> QED
  BY <1>3, <1>6, <1>7

\* What is lost and what strangers send.
LEMMA OutsideKeepsFlow ==
  ASSUME SocketTyped, ChannelTyped, PlaceInv, FlowInv, OwnAnswer, user = "channel",
         \/ Loses \/ (\E n \in Sizes : Sent(n)) \/ SentEmpty \/ OrphanReturns
         \/ PeerCloses /\ UNCHANGED <<driver, request, device>>
  PROVE  FlowInv' /\ OwnAnswer'
<1> USE DEF object, request
<1>1. CASE Loses
  <2>1. /\ commands # <<>> /\ given = 0 /\ given' = 0 /\ commands' = Tail(commands)
        /\ UNCHANGED <<kind, inbox, call, result, asked, pc, data, fresh, answer>>
    BY <1>1 DEF Loses, socket
  <2>2. UNCHANGED <<Current, Size>> /\ Tail(<<Current>>) = <<>>
    BY <2>1 DEF Current, Size
  <2>3. (Datagrams => Datagrams') /\ (HasRead => HasRead')
    BY <2>1, <2>2 DEF Datagrams, HasRead, Begun
  <2>4. commands' = <<>> /\ Streamed => Streamed'
    BY <2>1, <2>2 DEF Streamed, Begun
  <2>5. OwnAnswer'
    BY <2>1, AnswerSame
  <2>6. pc # "out" /\ fresh => commands' = <<>>
    BY <2>1, <2>2 DEF FlowInv, OwnFlow
  <2> QED
    BY <2>1, <2>2, <2>3, <2>4, <2>5, <2>6 DEF FlowInv, OwnFlow
<1>2. CASE \E n \in Sizes : Sent(n)
  <2>1. /\ fd # None /\ sock.link # "up"
        /\ UNCHANGED <<kind, asked, pc, data, fresh, answer, commands, given>>
    BY <1>2 DEF Sent, Arrives, device
  <2>2. pc = "out" \/ ~fresh
    BY <2>1 DEF PlaceInv, Places, PeerIsLinked
  <2>3. OwnAnswer'
    BY <2>1, AnswerSame
  <2> QED
    BY <2>1, <2>2, <2>3 DEF FlowInv
<1>3. CASE PeerCloses /\ UNCHANGED <<driver, request, device>>
  <2>1. UNCHANGED <<kind, inbox, commands, given, request, call, result>>
    BY <1>3 DEF PeerCloses, device
  <2> QED
    BY <2>1, FlowSame, AnswerSame
<1>4. CASE SentEmpty
  <2>1. /\ kind = "dgram" /\ inbox' = Append(inbox, <<>>)
        /\ UNCHANGED <<kind, call, result, asked, pc, data, fresh, answer, commands, given>>
    BY <1>4 DEF SentEmpty, Arrives, device
  <2>2. UNCHANGED <<Current, Size>>
    BY <2>1 DEF Current, Size
  <2>3. <<>> \in Seq(Cell) /\ Len(<<>>) = 0 /\ Begun(<<>>)
    BY EmptySeq DEF Begun
  <2>4. /\ Len(inbox) \in Nat /\ Len(inbox') = Len(inbox) + 1
        /\ \A i \in 1 .. Len(inbox) : inbox'[i] = inbox[i]
        /\ inbox'[Len(inbox) + 1] = <<>>
    BY <2>1, <2>3, AppendProperties, LenProperties DEF SocketTyped
  <2>5. ASSUME Datagrams PROVE Datagrams'
    <3>1. ASSUME NEW i \in 1 .. Len(inbox')
          PROVE  Begun(inbox'[i]) /\ Len(inbox'[i]) \in {0, Size}
      <4>1. i \in 1 .. Len(inbox) \/ i = Len(inbox) + 1
        BY <2>4
      <4>2. CASE i \in 1 .. Len(inbox)
        BY Zenon, <2>4, <2>5, <4>2 DEF Datagrams
      <4>3. CASE i = Len(inbox) + 1
        BY Zenon, <2>3, <2>4, <4>3
      <4> QED
        BY <4>1, <4>2, <4>3
    <3> QED
      BY <2>2, <3>1 DEF Datagrams, Begun
  <2>6. HasRead => HasRead'
    BY <2>1, <2>2 DEF HasRead, Begun
  <2>7. OwnAnswer'
    BY <2>1, AnswerSame
  <2> QED
    BY <2>1, <2>2, <2>5, <2>6, <2>7 DEF FlowInv, OwnFlow
<1>5. CASE OrphanReturns
  <2>1. /\ call.op \in Orphans
        /\ UNCHANGED <<kind, asked, pc, data, fresh, answer, commands, given>>
    BY <1>5 DEF OrphanReturns, device
  <2>2. ~fresh
    BY <2>1 DEF PlaceInv, CallIsOwn, Orphans, Idle
  <2>3. OwnAnswer'
    BY <2>1, AnswerSame
  <2> QED
    BY <2>1, <2>2, <2>3 DEF FlowInv
<1> QED
  BY <1>1, <1>2, <1>3, <1>4, <1>5

\* The users of the classes who are not the channel make no request.
LEMMA OthersAskNothing ==
  ASSUME OwnAnswer, [Next]_vars, user # "channel"
  PROVE  OwnAnswer'
<1> SUFFICES UNCHANGED <<kind, asked, fresh, answer, pc>>
  BY AnswerSame
<1> USE DEF object, request
<1>1. CASE NamerStep /\ UNCHANGED request
  BY <1>1, NamerKeepsObject
<1>2. CASE CallerStep /\ UNCHANGED request
  <2>1. CallerChanges => kind' = kind
    BY DEF CallerChanges, StreamCreate, DgramCreate, StreamDispose, DgramDispose,
           AcceptedDispose, Dispose
  <2> QED
    BY <1>2, <2>1, CallerKeepsObject
<1>3. CASE CallEnds /\ UNCHANGED request
  BY <1>3, CallsKeepObject DEF Accepts
<1>4. CASE PeerCloses /\ UNCHANGED request
  BY <1>4 DEF PeerCloses
<1>5. CASE SentEmpty \/ (\E n \in Sizes : Sent(n))
  BY <1>5 DEF SentEmpty, Sent, Arrives
<1>6. CASE UNCHANGED vars
  BY <1>6 DEF vars, socket
<1> QED
  BY <1>1, <1>2, <1>3, <1>4, <1>5, <1>6 DEF Next

LEMMA LiveNext ==
  ASSUME SocketTyped, ChannelTyped, Numbered, LiveInv, OwnAnswer, [Next]_vars
  PROVE  LiveInv' /\ OwnAnswer'
<1>0. UNCHANGED user
  BY DEF Next, vars
<1>1. CASE user # "channel"
  BY <1>0, <1>1, OthersAskNothing DEF LiveInv
<1>2. CASE pc' = "dead"
  BY <1>2 DEF LiveInv, OwnAnswer
<1>3. CASE UNCHANGED vars
  <2>1. UNCHANGED <<Current, Size>> /\ UNCHANGED <<kind, inbox, commands, given, request, call, result>>
    BY <1>3 DEF vars, socket, object, request, device, Current, Size
  <2>2. FlowInv /\ OwnAnswer => FlowInv' /\ OwnAnswer'
    BY <2>1, FlowSame, AnswerSame DEF request
  <2>3. PlaceInv => PlaceInv'
    BY <1>3, <2>1 DEF vars, socket, object, driver, request, PlaceInv, Places, CallIsOwn, PeerIsLinked
  <2>4. OwnAnswer'
    BY <2>1, AnswerSame DEF request
  <2> QED
    BY <1>0, <2>1, <2>2, <2>3, <2>4 DEF LiveInv, request
<1>4. ASSUME user = "channel", pc' # "dead", pc # "dead", Next
      PROVE  PlaceInv' /\ FlowInv' /\ OwnAnswer'
  <2>0. PlaceInv /\ FlowInv
    BY <1>4 DEF LiveInv
  <2>1. CASE NewChannel \/ ChannelBind \/ TcpClose \/ UdpClose \/ CloseCrashes \/ OwnerStep
    BY <1>4, <2>0, <2>1, OwnerKeepsPlaces, OwnerKeepsFlow
  <2>2. CASE SendRefused \/ (\E n \in Lengths : SendCommand(n)) \/ RequestStep
    BY <1>4, <2>0, <2>2, RequestKeepsPlaces, RequestKeepsFlow
  <2>3. CASE Answers
    BY <2>0, <2>3, KernelKeepsPlaces, AnswersKeepFlow
  <2>4. CASE CallEnds /\ UNCHANGED <<driver, request, device>>
    BY <1>4, <2>0, <2>4, KernelKeepsPlaces, CallsKeepFlow
  <2>5. CASE \/ Loses \/ SentEmpty \/ (\E n \in Sizes : Sent(n))
             \/ PeerCloses /\ UNCHANGED <<driver, request, device>>
    BY <1>4, <2>0, <2>5, KernelKeepsPlaces, OutsideKeepsFlow
  <2>6. CASE OrphanReturns
    BY <1>4, <2>0, <2>6, RequestKeepsPlaces, OutsideKeepsFlow
  <2> QED
    BY <1>4, <2>1, <2>2, <2>3, <2>4, <2>5, <2>6 DEF Next, ChannelStep
<1> QED
  BY <1>1, <1>2, <1>3, <1>4 DEF LiveInv, Next

\* OwnAnswer, for every length of answers, every cutting of a stream, every
\* loss of datagrams and every empty one: a request that begins when nothing is
\* under way, on an open channel that is not replaced meanwhile, does not get
\* cells of another, nor those of a stranger.
THEOREM AnswersBelong == Spec => []OwnAnswer
<1> DEFINE I == AccountInv /\ SocketTyped /\ ChannelTyped /\ LiveInv /\ OwnAnswer
<1>1. Init => I
  <2> SUFFICES ASSUME Init PROVE I
    OBVIOUS
  <2>1. AccountInv
    BY DEF Init, AccountInv, Numbered, SocketsAccounted, None
  <2>2. LiveInv /\ OwnAnswer
    BY DEF Init, LiveInv, PlaceInv, Places, CallIsOwn, PeerIsLinked, FlowInv, OwnAnswer
  <2> QED
    BY <2>1, <2>2, TypedInit
<1>2. I /\ [Next]_vars => I'
  BY AccountNext, TypedNext, LiveNext DEF AccountInv
<1> QED
  BY <1>1, <1>2, PTL DEF Spec
=============================================================================
