------------------------------- MODULE Socket -------------------------------
(***************************************************************************)
(* rp::net::StreamSocket and DGramSocket (hal/socket.h, implemented in     *)
(* arch/linux/net_socket.cpp), by one thread that calls their operations.  *)
(* The kernel's side of a socket is the record `sock`: whether it has a    *)
(* peer, its addresses, the limits of the time a call may block, and what  *)
(* is closed.  An operation that may block is a call under way until it    *)
(* completes, fails or comes to its limit; how long a limit is does not    *)
(* matter, only that 0 is none.  Any call to the system may fail.          *)
(***************************************************************************)
EXTENDS SocketAddress, Sequences, FiniteSets

CONSTANTS Sizes,    \* sizes of reads and of what comes in, in cells
          MaxMade,  \* bound: sockets made
          MaxInbox  \* bound: how long a queue may get until nothing more comes in

ASSUME SocketAssumption ==
  Sizes \subseteq Nat \ {0} /\ MaxMade \in Nat /\ MaxInbox \in Nat

VARIABLES kind,      \* "stream" or "dgram"
          fd,        \* _socket_fd of the object, or None
          files,     \* descriptors of sockets the process has open
          made,      \* number of sockets made so far
          accepted,  \* the object accept() has made, or None
          sock,      \* the kernel's side of the object's socket
          unlimited, \* history: directions without a limit, because the caller asked for
             \* none or the constructor could not set it
          inbox,     \* segments or datagrams that have come in
          call,      \* the blocking call under way
          result,    \* what the last call returned
          address    \* the SocketAddress the thread uses

object == <<kind, fd, files, made, accepted>>
socket == <<object, sock, unlimited, inbox, call, result, address>>

None == 0
DefaultTimeout == 10000
Idle == [op |-> "none", size |-> 0]

\* CreateSocket() before the constructor: no peer, no limit.
Bare(family) ==
  [family |-> family, link |-> "none", bound |-> FALSE, local |-> Blank, peer |-> Blank,
   rd |-> 0, wr |-> 0, shut |-> {}, eof |-> FALSE]

Limited(s, timeout, mask) ==
  [s EXCEPT !.rd = IF "rd" \in mask THEN timeout ELSE @,
            !.wr = IF "wr" \in mask THEN timeout ELSE @]
Both == {"rd", "wr"}

\* A slip for the properties to notice, like the others below; the
\* specification uses none of them.
BornUnlimited(family) == sock' = Bare(family) /\ unlimited' = {}

\* StreamSocketImpl(fd) and DGramSocketImpl(fd).  setTimeout() limits reading
\* first and gives up when it fails; nobody looks at what it returned.
Limits == {{}, {"rd"}, Both}
StreamBorn(family) ==
  \E done \in Limits :
    sock' = Limited(Bare(family), DefaultTimeout, done) /\ unlimited' = Both \ done
DgramBorn(family) ==
  \E done \in Limits :
    sock' = Limited(Bare(family), DefaultTimeout, done) /\ unlimited' = Both \ done

Returns(code) == result' = [code |-> code, data |-> <<>>]
Ready == fd # None /\ call = Idle
Unmoved == UNCHANGED <<object, unlimited, inbox, call, address>>
-----------------------------------------------------------------------------
\* CreateSocket(): a stream socket is never raw.
Newborn ==
  /\ made < MaxMade
  /\ made' = made + 1 /\ fd' = made' /\ files' = files \cup {fd'}
  /\ inbox' = <<>>
NoSocket ==
  /\ fd' = None /\ UNCHANGED <<files, made, sock, unlimited, inbox>>

StreamCreate(family) ==
  /\ kind = "stream" /\ fd = None /\ call = Idle
  /\ \/ NoSocket /\ Returns("NULL")
     \/ family # "raw" /\ Newborn /\ StreamBorn(family) /\ Returns("OK")
  /\ UNCHANGED <<kind, accepted, call, address>>

DgramCreate(family) ==
  /\ kind = "dgram" /\ fd = None /\ call = Idle
  /\ \/ NoSocket /\ Returns("NULL")
     \/ Newborn /\ DgramBorn(family) /\ Returns("OK")
  /\ UNCHANGED <<kind, accepted, call, address>>

DisposeKeeps ==
  /\ fd' = None
  /\ UNCHANGED <<kind, files, made, accepted, sock, unlimited, inbox, call, result, address>>

\* dispose(): the object goes and its destructor closes the descriptor.  A
\* call another thread is in keeps the kernel's socket until it returns.
Dispose ==
  /\ fd' = None /\ files' = files \ {fd}
  /\ UNCHANGED <<kind, made, accepted, sock, unlimited, inbox, call, result, address>>

StreamDispose == kind = "stream" /\ fd # None /\ Dispose
DgramDispose == kind = "dgram" /\ fd # None /\ Dispose

\* dispose() of the object accept() has made.
AcceptedDispose ==
  /\ accepted # None
  /\ files' = files \ {accepted} /\ accepted' = None
  /\ UNCHANGED <<kind, fd, made, sock, unlimited, inbox, call, result, address>>

\* bind(): a socket is bound once, to an address of its own family.
Bind ==
  /\ Ready
  /\ \/ /\ ~sock.bound /\ address.family = sock.family
        /\ sock' = [sock EXCEPT !.bound = TRUE, !.local = address]
        /\ Returns("OK")
     \/ UNCHANGED sock /\ Returns("FAIL")
  /\ Unmoved
StreamBind == kind = "stream" /\ Bind
DgramBind == kind = "dgram" /\ Bind

\* getLocalAddress(), getPeerAddress(): the caller's address is overwritten.
\* What the kernel chose for a socket nobody bound is not told from "any".
\* A raw socket has no address of the two families: an assertion.
GetLocalAddress ==
  /\ Ready /\ sock.family # "raw"
  /\ \/ Returns("OK") /\ address' = [sock.local EXCEPT !.family = AddressType(sock)]
     \/ Returns("FAIL") /\ UNCHANGED address
  /\ UNCHANGED <<object, sock, unlimited, inbox, call>>
StreamGetLocalAddress == kind = "stream" /\ GetLocalAddress
DgramGetLocalAddress == kind = "dgram" /\ GetLocalAddress

GetPeerAddress ==
  /\ kind = "stream" /\ Ready
  /\ \/ sock.link = "up" /\ Returns("OK") /\ address' = sock.peer
     \/ Returns("FAIL") /\ UNCHANGED address
  /\ UNCHANGED <<object, sock, unlimited, inbox, call>>

\* setTimeout(): if setsockopt() fails for one direction, the other may have
\* been set.
SetTimeout(timeout, mask) ==
  /\ Ready
  /\ \E done \in SUBSET mask :
       /\ done = {"wr"} => mask = {"wr"}
       /\ sock' = Limited(sock, timeout, done)
       /\ unlimited' = IF timeout = 0 THEN unlimited \cup done ELSE unlimited \ done
       /\ Returns(IF done = mask THEN "OK" ELSE "FAIL")
  /\ UNCHANGED <<object, inbox, call, address>>
StreamSetTimeout(timeout, mask) == kind = "stream" /\ SetTimeout(timeout, mask)
DgramSetTimeout(timeout, mask) == kind = "dgram" /\ SetTimeout(timeout, mask)

\* listen(), shutdown(), and enableKeepAlive() or enableNoDelay().
Listen ==
  /\ kind = "stream" /\ Ready
  /\ \/ /\ sock.link \in {"none", "listening"}
        /\ sock' = [sock EXCEPT !.link = "listening", !.bound = TRUE]
        /\ Returns("OK")
     \/ UNCHANGED sock /\ Returns("FAIL")
  /\ Unmoved

Shutdown(mask) ==
  /\ kind = "stream" /\ Ready
  /\ \/ sock.link = "up" /\ sock' = [sock EXCEPT !.shut = @ \cup mask] /\ Returns("OK")
     \/ UNCHANGED sock /\ Returns("FAIL")
  /\ Unmoved

EnableKeepAlive == kind = "stream" /\ Ready /\ (Returns("OK") \/ Returns("FAIL")) /\ Unmoved /\ UNCHANGED sock
EnableNoDelay == kind = "stream" /\ Ready /\ (Returns("OK") \/ Returns("FAIL")) /\ Unmoved /\ UNCHANGED sock

\* setPairAddress(): NULL takes the peer away.
SetPairAddress(to) ==
  /\ kind = "dgram" /\ Ready
  /\ \/ /\ to.family = sock.family
        /\ sock' = [sock EXCEPT !.link = "up", !.bound = TRUE, !.peer = to]
        /\ Returns("OK")
     \/ UNCHANGED sock /\ Returns("FAIL")
  /\ Unmoved
ForgetPair ==
  /\ kind = "dgram" /\ Ready
  /\ \/ sock' = [sock EXCEPT !.link = "none", !.peer = Blank] /\ Returns("OK")
     \/ UNCHANGED sock /\ Returns("FAIL")
  /\ Unmoved
-----------------------------------------------------------------------------
\* The calls that may block.
Begins(op, size) ==
  /\ Ready
  /\ call' = [op |-> op, size |-> size]
  /\ UNCHANGED <<object, sock, unlimited, inbox, result, address>>

StreamBegins(op, size) ==
  /\ kind = "stream" /\ op \in {"connect", "accept", "send", "recv", "waitSent", "waitData"}
  /\ Begins(op, size)
DgramBegins(op, size) ==
  /\ kind = "dgram" /\ op \in {"sendTo", "recvFrom", "waitSent", "waitData"}
  /\ Begins(op, size)

Ends == call' = Idle
CallKeeps == UNCHANGED <<object, unlimited, inbox, address>>

\* What the kernel refuses at once.
Refused ==
  \/ /\ call.op = "connect"
     /\ sock.link \notin {"none", "pending"} \/ address.family # sock.family
  \/ call.op \in {"send", "recv"} /\ sock.link # "up"
  \/ call.op = "send" /\ "wr" \in sock.shut
  \/ call.op = "accept" /\ sock.link # "listening"

\* connect(): a connection that is still being made keeps its peer.  At the
\* limit connect() fails with EINPROGRESS, and the connection goes on.
Linked(link) ==
  sock' = [sock EXCEPT !.link = link, !.bound = TRUE,
                       !.peer = IF sock.link = "none" THEN address ELSE @]
Connects ==
  /\ call.op = "connect" /\ ~Refused
  /\ Linked("up")
  /\ Ends /\ Returns("OK") /\ CallKeeps
ConnectTimesOut ==
  /\ call.op = "connect" /\ ~Refused /\ sock.wr # 0
  /\ Linked("pending")
  /\ Ends /\ Returns("FAIL") /\ CallKeeps
ConnectFails ==
  /\ call.op = "connect"
  /\ sock' = [sock EXCEPT !.link = IF @ = "pending" THEN "none" ELSE @]
  /\ Ends /\ \E code \in {"NOT_SUPPORT", "TIMEOUT", "FAIL"} : Returns(code)
  /\ CallKeeps

\* accept(): a new object, or NULL.
Accepts ==
  /\ call.op = "accept" /\ ~Refused
  /\ made < MaxMade /\ accepted = None
  /\ made' = made + 1 /\ files' = files \cup {made'} /\ accepted' = made'
  /\ Ends /\ Returns("OK")
  /\ UNCHANGED <<kind, fd, sock, unlimited, inbox, address>>
AcceptFails ==
  /\ call.op = "accept"
  /\ Ends /\ Returns("NULL") /\ CallKeeps /\ UNCHANGED sock

\* send(): all, or nothing or a part.  A part leaves errno as it was, so the
\* answer is either failure, at the limit as before it.
Sends ==
  /\ call.op = "send" /\ ~Refused
  /\ Ends /\ Returns("OK") /\ CallKeeps /\ UNCHANGED sock
SendFails ==
  /\ call.op = "send"
  /\ Ends /\ \E code \in {"TIMEOUT", "FAIL"} : Returns(code)
  /\ CallKeeps /\ UNCHANGED sock

\* sendTo() gives the socket a port of its own.
SendsTo ==
  /\ call.op = "sendTo"
  /\ \/ /\ address.family = sock.family
        /\ sock' = [sock EXCEPT !.bound = TRUE] /\ Returns("OK")
     \/ UNCHANGED sock /\ \E code \in {"TIMEOUT", "INVALID_DATA", "FAIL"} : Returns(code)
  /\ Ends /\ CallKeeps

Received(data) == result' = [code |-> "OK", data |-> data]
Least(m, n) == IF m < n THEN m ELSE n

\* recv(): what is queued of the stream, at most as much as asked for, and
\* nothing at its end.
Queued == IF inbox = <<>> THEN <<>> ELSE inbox[1]
Receives ==
  /\ call.op = "recv" /\ ~Refused
  /\ inbox # <<>> \/ sock.eof \/ "rd" \in sock.shut
  /\ LET n == Least(call.size, Len(Queued)) IN
       /\ Received(SubSeq(Queued, 1, n))
       /\ inbox' = IF n = Len(Queued) THEN <<>> ELSE <<SubSeq(Queued, n + 1, Len(Queued))>>
  /\ Ends /\ UNCHANGED <<object, sock, unlimited, address>>

\* recvFrom(): one datagram; what is longer than asked for is lost.
ReceivesFrom ==
  /\ call.op = "recvFrom" /\ inbox # <<>>
  /\ Received(SubSeq(inbox[1], 1, Least(call.size, Len(inbox[1]))))
  /\ inbox' = Tail(inbox)
  /\ Ends /\ UNCHANGED <<object, sock, unlimited, address>>

ReceiveTimesOut ==
  /\ call.op \in {"recv", "recvFrom"} /\ ~Refused /\ inbox = <<>> /\ sock.rd # 0
  /\ Ends /\ Returns("TIMEOUT") /\ CallKeeps /\ UNCHANGED sock
ReceiveFails ==
  /\ call.op \in {"recv", "recvFrom"}
  /\ Ends /\ Returns("FAIL") /\ CallKeeps /\ UNCHANGED sock

\* select() of one descriptor; its timeout always ends.  A damaged datagram
\* and a stream without a connection are readable too, with nothing to read.
StreamReadable ==
  inbox # <<>> \/ sock.eof \/ "rd" \in sock.shut \/ sock.link = "none"
Waited(code) == Ends /\ Returns(code) /\ CallKeeps /\ UNCHANGED sock
WaitsForSent(code) == call.op = "waitSent" /\ Waited(code)
StreamWaitsForSent(code) == kind = "stream" /\ WaitsForSent(code)
DgramWaitsForSent(code) == kind = "dgram" /\ WaitsForSent(code)
StreamWaitsForData(code) ==
  /\ kind = "stream" /\ call.op = "waitData"
  /\ StreamReadable => code # "TIMEOUT"
  /\ sock.link = "up" /\ ~StreamReadable => code # "OK"
  /\ Waited(code)
DgramWaitsForData(code) ==
  /\ kind = "dgram" /\ call.op = "waitData"
  /\ inbox # <<>> => code # "TIMEOUT"
  /\ Waited(code)

WaitEnds ==
  \E code \in {"OK", "TIMEOUT", "FAIL"} :
    \/ StreamWaitsForSent(code) \/ DgramWaitsForSent(code)
    \/ StreamWaitsForData(code) \/ DgramWaitsForData(code)
CallEnds ==
  \/ Connects \/ ConnectTimesOut \/ ConnectFails
  \/ Accepts \/ AcceptFails
  \/ Sends \/ SendFails \/ SendsTo
  \/ Receives \/ ReceivesFrom \/ ReceiveTimesOut \/ ReceiveFails
  \/ WaitEnds

\* What has to end a call: its limit, the kernel's refusal, or that there is
\* what recv() or recvFrom() wants.  No peer has to answer.
CallExpires ==
  \/ ConnectTimesOut
  \/ AcceptFails /\ (Refused \/ sock.rd # 0)
  \/ SendFails /\ (Refused \/ sock.wr # 0)
  \/ SendsTo /\ sock.wr # 0
  \/ Receives \/ ReceivesFrom \/ ReceiveTimesOut
  \/ Refused /\ (ConnectFails \/ ReceiveFails)
  \/ WaitEnds
-----------------------------------------------------------------------------
\* From outside: the peer sends a segment or a datagram, or closes the
\* stream; a datagram socket without a peer takes what anybody sends.
Arrives(data) ==
  /\ Len(IF kind = "stream" THEN Queued ELSE inbox) < MaxInbox
  /\ inbox' = IF kind = "stream" /\ inbox # <<>> THEN <<inbox[1] \o data>>
                                                 ELSE Append(inbox, data)
  /\ UNCHANGED <<object, sock, unlimited, call, result, address>>
PeerCloses ==
  /\ kind = "stream" /\ sock.link = "up"
  /\ sock' = [sock EXCEPT !.eof = TRUE]
  /\ UNCHANGED <<object, unlimited, inbox, call, result, address>>
=============================================================================
