--------------------------- MODULE SlamkitDriver ---------------------------
(***************************************************************************)
(* SlamtecSlamkitDriver (sl_slamkit_driver.cpp) over the receive side of   *)
(* the USB channel: requests, answers, and who gets which answer.          *)
(*                                                                         *)
(* Clients are threads that call getDeviceInfo(), getImuRawData() or       *)
(* set_motion_hit_and_get_imu_processed().  Each call takes the driver's   *)
(* lock twice: for _sendCommand() and for _waitResponse(); in between it   *)
(* is free.  The device answers every command it receives, in order, with  *)
(* one USB packet.  An answer is a row of cells, <<request, position>>;    *)
(* cell 0 holds the packet header with the sync byte.  The three kinds of  *)
(* answers are 31, 35 and 46 bytes long; in cells they keep that order,    *)
(* and like there two of them differ by less than the shortest.            *)
(*                                                                         *)
(* Faults says what may go wrong: "lost" (a command is not sent, which     *)
(* _sendCommand() does not notice, or not answered), "late" (a transfer's  *)
(* timeout may end before an answer that is on its way), "rxerr" (the      *)
(* device answers that it did not understand), "reconnect".                *)
(***************************************************************************)
EXTENDS RxBuffer, Sequences

CONSTANTS Clients,     \* threads that use the driver
          NoClient,    \* not one of them
          Kinds,       \* kinds of requests they make
          Faults,      \* what may go wrong
          MaxRequests, \* bound: requests in all
          MaxConnects  \* bound: how often the driver is connected

ASSUME DriverAssumption ==
  /\ NoClient \notin Clients
  /\ Kinds \subseteq {"raw", "info", "processed"}
  /\ Faults \subseteq {"lost", "late", "rxerr", "reconnect"}
  /\ MaxRequests \in Nat /\ MaxConnects \in Nat \ {0}

\* PKT_SIZE_EX_PAYLOAD + sizeof(response), in cells.
Lengths == [raw |-> 3, info |-> 4, processed |-> 5]
Size(kind) == Lengths[kind]
MaxSize == 5
Junk == <<0, 0>>

VARIABLES connected,  \* _isConnected
          connects,   \* bound: calls of connect() that succeeded
          lock,       \* the owner of _lock
          asked,      \* the requests so far: who asked for what
          commands,   \* requests on their way to the device
          endpoint,   \* answers the device has sent
          refused,    \* requests the device answers with ANS_RXERR
          buf,        \* _rx_buffer
          rxSize,     \* _rx_size
          pc,         \* "idle", "write", "sent", "first", "second", "ready"
          current,    \* the client's request
          ready,      \* ready_size in its waitForData()
          answer,     \* what its last call returned, and the data
          given       \* history: whose answer began the data it was last given

shared == <<connected, connects, lock>>
wire == <<commands, endpoint, refused>>
cache == <<buf, rxSize>>
caller == <<pc, current, ready, answer, given>>
vars == <<shared, asked, wire, cache, caller>>

Kind(r) == asked[r].kind
Answer(r) == [i \in Cells(Size(Kind(r))) |-> <<r, i>>]
NoData == [i \in Cells(0) |-> Junk]

\* No request is under way.
Quiet ==
  /\ lock = NoClient
  /\ asked = <<>> /\ commands = <<>> /\ endpoint = <<>> /\ refused = {}
  /\ buf = [i \in Cells(2 * MaxSize) |-> Junk] /\ rxSize = 0
  /\ pc = [c \in Clients |-> "idle"]
  /\ current = [c \in Clients |-> 0]
  /\ ready = [c \in Clients |-> 0]
  /\ answer = [c \in Clients |-> [result |-> "none", request |-> 0, data |-> NoData]]
  /\ given = [c \in Clients |-> 0]

\* The clients start with a driver that is connected; the node connects its
\* driver itself (module ImuNode).
Init == connected = TRUE /\ connects = 1 /\ Quiet
-----------------------------------------------------------------------------
\* A call ends: the client gets a result, and data only with "OK".
Return(c, result, data) ==
  /\ answer' = [answer EXCEPT ![c] = [result |-> result, request |-> current[c], data |-> data]]
  /\ given' = IF result = "OK" THEN [given EXCEPT ![c] = data[0][1]] ELSE given
  /\ pc' = [pc EXCEPT ![c] = "idle"]
  /\ UNCHANGED <<current, ready>>

\* _sendCommand() takes the lock, empties the read cache and calls write(),
\* which hands the command to libusb or fails to.
SendCommand(c, kind) ==
  /\ pc[c] = "idle" /\ lock = NoClient
  /\ connected
  /\ Len(asked) < MaxRequests
  /\ asked' = Append(asked, [client |-> c, kind |-> kind])
  /\ rxSize' = 0
  /\ \/ commands' = Append(commands, Len(asked'))
     \/ "lost" \in Faults /\ UNCHANGED commands
  /\ current' = [current EXCEPT ![c] = Len(asked')]
  /\ lock' = c
  /\ pc' = [pc EXCEPT ![c] = "write"]
  /\ UNCHANGED <<connected, connects, endpoint, refused, buf, ready, answer, given>>

\* write() waits without a deadline for the transfer to be reported; whatever
\* it returns, _sendCommand() does not look at it and gives up the lock.
WriteReturns(c) ==
  /\ pc[c] = "write"
  /\ lock' = NoClient
  /\ pc' = [pc EXCEPT ![c] = "sent"]
  /\ UNCHANGED <<connected, connects, asked, wire, cache, current, ready, answer, given>>

\* _sendCommand() of a driver that is not connected.
SendRefused(c) ==
  /\ pc[c] = "idle" /\ lock = NoClient
  /\ ~connected
  /\ answer' = [answer EXCEPT ![c] = [result |-> "FAIL", request |-> 0, data |-> NoData]]
  /\ UNCHANGED <<shared, asked, wire, cache, pc, current, ready, given>>

\* _waitResponse() takes the lock again and calls waitForData().
WaitResponse(c) ==
  /\ pc[c] = "sent" /\ lock = NoClient
  /\ connected
  /\ lock' = c
  /\ pc' = [pc EXCEPT ![c] = "first"]
  /\ UNCHANGED <<connected, connects, asked, wire, cache, current, ready, answer, given>>

WaitRefused(c) ==
  /\ pc[c] = "sent" /\ lock = NoClient
  /\ ~connected
  /\ Return(c, "FAIL", NoData)
  /\ UNCHANGED <<shared, asked, wire, cache>>
-----------------------------------------------------------------------------
\* A bulk transfer into `room` cells at position `at` takes the answer at the
\* endpoint.  An answer that is too long overflows it and is gone; libusb
\* reports all of the room as filled, or nothing (module UsbRx).
Transfers(room, n, ok) ==
  /\ endpoint # <<>>
  /\ LET length == Size(Kind(Head(endpoint))) IN
       IF length <= room THEN n = length /\ ok ELSE n \in {0, room} /\ ~ok
  /\ endpoint' = Tail(endpoint)
  /\ UNCHANGED <<commands, refused>>

\* Nothing has come when the timeout ends.  Without "late" it is chosen so
\* long that no answer can still be on its way.
TimesOut ==
  /\ endpoint = <<>>
  /\ commands = <<>> \/ "late" \in Faults
  /\ UNCHANGED wire

\* A slip for the properties to notice; the specification does not use it.
FirstWantsMore(c, n) ==
  /\ ready' = [ready EXCEPT ![c] = n]
  /\ pc' = [pc EXCEPT ![c] = "second"]
  /\ UNCHANGED <<rxSize, shared, asked, current, answer, given>>

\* The first transfer of waitForData(); an error of it is only printed.
FirstBrought(c, n) ==
  /\ ready' = [ready EXCEPT ![c] = n]
  /\ pc' = [pc EXCEPT ![c] = IF n = Size(Kind(current[c])) THEN "ready" ELSE "second"]
  /\ rxSize' = IF n = Size(Kind(current[c])) THEN SizeAfterFirst(n) ELSE rxSize
  /\ UNCHANGED <<shared, asked, current, answer, given>>

FirstTransfer(c) ==
  /\ pc[c] = "first"
  /\ \/ \E n \in 0 .. MaxSize, ok \in BOOLEAN :
          /\ Transfers(Size(Kind(current[c])), n, ok)
          /\ buf' = Store(buf, 0, n, Answer(Head(endpoint)))
          /\ FirstBrought(c, n)
     \/ TimesOut /\ UNCHANGED buf /\ FirstBrought(c, 0)

\* A slip for the properties to notice; the specification does not use it.
SecondCountsTheSize(c, n, ok) ==
  /\ rxSize' = 2 * Size(Kind(current[c])) + n
  /\ \/ ok /\ pc' = [pc EXCEPT ![c] = "ready"]
        /\ UNCHANGED <<lock, current, ready, answer, given>>
     \/ ~ok /\ Return(c, "TIMEOUT", NoData)
        /\ lock' = NoClient
  /\ UNCHANGED <<connected, connects, asked>>

\* The second one; without an error waitForData() returns true.
SecondBrought(c, n, ok) ==
  /\ rxSize' = SizeAfterSecond(Size(Kind(current[c])), ready[c], n)
  /\ \/ ok /\ pc' = [pc EXCEPT ![c] = "ready"]
        /\ UNCHANGED <<lock, current, ready, answer, given>>
     \/ ~ok /\ Return(c, "TIMEOUT", NoData)
        /\ lock' = NoClient
  /\ UNCHANGED <<connected, connects, asked>>

SecondOverlaps(c) ==
  /\ pc[c] = "second"
  /\ LET room == Rest(Size(Kind(current[c])), ready[c]) IN
       \/ \E n \in 0 .. MaxSize, ok \in BOOLEAN :
            /\ Transfers(room, n, ok)
            /\ buf' = Store(buf, room - 1, n, Answer(Head(endpoint)))
            /\ SecondBrought(c, n, ok)
       \/ TimesOut /\ UNCHANGED buf /\ SecondBrought(c, 0, FALSE)

SecondTransfer(c) ==
  /\ pc[c] = "second"
  /\ LET room == Rest(Size(Kind(current[c])), ready[c]) IN
       \/ \E n \in 0 .. MaxSize, ok \in BOOLEAN :
            /\ Transfers(room, n, ok)
            /\ buf' = Store(buf, room, n, Answer(Head(endpoint)))
            /\ SecondBrought(c, n, ok)
       \/ TimesOut /\ UNCHANGED buf /\ SecondBrought(c, 0, FALSE)

\* read() into the zeroed data_buffer, and the checks of the header.  A header
\* of uninitialised bytes may pass for anything.
Deliver(c) ==
  /\ pc[c] = "ready"
  /\ lock' = NoClient
  /\ rxSize' = SizeAfterRead(rxSize, Size(Kind(current[c])))
  /\ LET n == CopiedBytes(rxSize, Size(Kind(current[c])))
         data == [i \in Cells(Size(Kind(current[c]))) |-> IF i < n THEN buf[i] ELSE Junk]
         r == data[0][1]
     IN  \/ (data[0] = Junk \/ data[0][2] # 0) /\ Return(c, "INVALID", NoData)
         \/ (data[0] = Junk \/ r \in refused) /\ Return(c, "RXERR", NoData)
         \/ data[0][2] = 0 /\ r \notin refused /\ Return(c, "OK", data)
  /\ UNCHANGED <<connected, connects, asked, wire, buf>>
-----------------------------------------------------------------------------
\* The device answers the next command, or does not understand it, or does
\* not answer.
DeviceAnswers ==
  /\ commands # <<>>
  /\ commands' = Tail(commands)
  /\ endpoint' = Append(endpoint, Head(commands))
  /\ \/ UNCHANGED refused
     \/ "rxerr" \in Faults /\ refused' = refused \cup {Head(commands)}
  /\ UNCHANGED <<shared, asked, cache, caller>>

DeviceIgnores ==
  /\ "lost" \in Faults
  /\ commands # <<>>
  /\ commands' = Tail(commands)
  /\ UNCHANGED <<shared, asked, endpoint, refused, cache, caller>>

\* disconnect() takes no lock; here it comes between two halves of a request,
\* not in the middle of one.
Disconnect ==
  /\ "reconnect" \in Faults
  /\ connected /\ lock = NoClient
  /\ connected' = FALSE
  /\ UNCHANGED <<connects, lock, asked, wire, cache, caller>>

\* A slip for the properties to notice; the specification does not use it.
ConnectNewBuffer ==
  /\ ~connected /\ lock = NoClient
  /\ connects < MaxConnects
  /\ connected' = TRUE
  /\ connects' = connects + 1
  /\ endpoint' \in {endpoint, <<>>}
  /\ buf' = [i \in DOMAIN buf |-> Junk]
  /\ UNCHANGED <<lock, asked, commands, refused, rxSize, caller>>

\* connect() opens the channel again; flush() does nothing.  Whether an answer
\* that was never fetched survives the claiming of the interface is up to the
\* device.
Connect ==
  /\ ~connected /\ lock = NoClient
  /\ connects < MaxConnects
  /\ connected' = TRUE
  /\ connects' = connects + 1
  /\ endpoint' \in {endpoint, <<>>}
  /\ UNCHANGED <<lock, asked, commands, refused, cache, caller>>

Client(c) ==
  \/ \E kind \in Kinds : SendCommand(c, kind)
  \/ SendRefused(c)
  \/ WriteReturns(c)
  \/ WaitResponse(c)
  \/ WaitRefused(c)
  \/ FirstTransfer(c)
  \/ SecondTransfer(c)
  \/ Deliver(c)

Next ==
  \/ \E c \in Clients : Client(c)
  \/ DeviceAnswers
  \/ DeviceIgnores
  \/ Disconnect
  \/ Connect

Spec == Init /\ [][Next]_vars

-----------------------------------------------------------------------------
Requests == 1 .. MaxRequests
Bytes == ({0} \cup Requests) \X (0 .. MaxSize)
Results == {"none", "FAIL", "TIMEOUT", "INVALID", "RXERR", "OK"}

\* The variables range over the values above, the read cache stays within the
\* buffer, and who writes a command or waits for or reads an answer, and nobody
\* else, has the lock.
TypeOK ==
  /\ connected \in BOOLEAN /\ connects \in 0 .. MaxConnects
  /\ lock \in Clients \cup {NoClient}
  /\ asked \in Seq([client : Clients, kind : Kinds]) /\ Len(asked) <= MaxRequests
  /\ commands \in Seq(Requests) /\ endpoint \in Seq(Requests)
  /\ refused \subseteq Requests
  /\ buf \in [Cells(2 * MaxSize) -> Bytes] /\ rxSize \in 0 .. 2 * MaxSize
  /\ pc \in [Clients -> {"idle", "write", "sent", "first", "second", "ready"}]
  /\ current \in [Clients -> 0 .. MaxRequests]
  /\ ready \in [Clients -> 0 .. MaxSize]
  /\ given \in [Clients -> 0 .. MaxRequests]
  /\ \A c \in Clients :
       /\ answer[c].result \in Results /\ answer[c].request \in 0 .. MaxRequests
       /\ \A i \in DOMAIN answer[c].data : answer[c].data[i] \in Bytes
       /\ pc[c] \in {"write", "first", "second", "ready"} <=> lock = c

\* sl_slamkit_driver.h lines 231, 237 and 243: the data a call returns is the
\* answer to its own request, all of it, and it fails with the device's
\* refusal only if the device refused that request.  Nothing in an answer says
\* which request it answers: it holds for one caller whose timeout is longer
\* than any answer takes, lost commands and lost answers included.
AnswerIsOwn ==
  \A c \in Clients : LET a == answer[c] IN
     /\ a.result = "OK" => a.data = Answer(a.request) /\ a.request \notin refused
     /\ a.result = "RXERR" => a.request \in refused
     /\ a.result # "INVALID"

\* Callers that share the driver may get each other's answers, but as long as
\* they all make one kind of request they never see a mixture of two answers,
\* whatever is lost, late, refused or reconnected.
NoTornAnswer ==
  (\A r, s \in DOMAIN asked : Kind(r) = Kind(s)) =>
     \A c \in Clients : LET a == answer[c] IN
        a.result = "OK" => \A i \in DOMAIN a.data : a.data[i][1] = a.data[0][1]

\* Whatever goes wrong, and however many of its calls fail in between, a caller
\* is never given an answer older than the last one it was given: the start of
\* the buffer is written in the order of the answers.
NeverOlder == [][\A c \in Clients : given'[c] >= given[c]]_vars
-----------------------------------------------------------------------------
\* What became of a client's request: the number of the request it is in, what
\* the device made of it, and what it was told of the last one.
PendingOf(c) == IF pc[c] = "idle" THEN 0 ELSE current[c]

Served(c) ==
  /\ pc[c] # "idle"
  /\ pc[c] = "ready" \/ \E i \in DOMAIN endpoint : endpoint[i] = current[c]
ReplyOf(c) ==
  IF ~Served(c) THEN "none" ELSE IF current[c] \in refused THEN "refusal" ELSE "answer"

OutcomeOf(c) ==
  LET a == answer[c] IN
  [code |-> a.result,
   of |-> IF a.result = "OK" /\ a.data = Answer(a.request) THEN a.request ELSE 0]

Service == INSTANCE RequestSpec
             WITH Callers <- Clients, calls <- Len(asked),
                  pending <- [c \in Clients |-> PendingOf(c)],
                  reply <- [c \in Clients |-> ReplyOf(c)],
                  outcome <- [c \in Clients |-> OutcomeOf(c)]

\* For a caller that has the driver to itself a call is an exchange with the
\* device: what it returns is what became of its own request.  In particular
\* an answer that came in time is not dropped on the way, and no call times out
\* that was answered.  It is the first transfer that fetches such an answer: one
\* that only the second fetches lands behind the stale start of the buffer and
\* is lost (module UsbRx), but as long as nothing is "late" there is none.
ImplementsRequestSpec == Service!Spec
=============================================================================
