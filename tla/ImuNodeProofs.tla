--------------------------- MODULE ImuNodeProofs ---------------------------
(***************************************************************************)
(* What holds of ImuNode for every bound on the requests, when no answer   *)
(* outlasts the driver's timeout and nobody else reconnects the driver:    *)
(* commands and answers may be lost, and the device may refuse requests.   *)
(* That the node is the only client is part of ImuNode's assumption.       *)
(***************************************************************************)
EXTENDS ImuNode, SlamkitDriverProofs

Rows(k) == [Cells(Size(k)) -> Nat \X Nat]
Blank(k) == [i \in Cells(Size(k)) |-> Junk]

\* The variables of the node and of the device.
NodeTypes ==
  /\ phase \in {"start", "head", "ask", "publish", "done", "failed"}
  /\ topic \in Kinds
  /\ Len(asked) <= MaxRequests
  /\ clock \in Nat /\ sample \in [Requests -> Nat]
  /\ \A r \in Requests : sample[r] <= clock
  /\ DOMAIN held = Kinds /\ \A k \in Kinds : held[k] \in Rows(k)
  /\ stamp \in [Kinds -> Nat] /\ last \in [Kinds -> Nat]
  /\ DOMAIN published = Kinds
  /\ \A k \in Kinds : published[k] \in Seq([row : Rows(k), stamp : Nat])

\* Where main() is says what is under way in the driver: a request only while
\* it waits to publish, and then the newest one.
DriverPart ==
  /\ phase \in {"start", "failed"} => Quiet
  /\ phase \in {"head", "ask", "publish"} => Alone(Node)
  /\ phase # "publish" => pc[Node] = "idle" /\ commands = <<>> /\ endpoint = <<>>
  /\ phase = "publish" =>
       /\ asked # <<>> /\ current[Node] = Len(asked) /\ Kind(Len(asked)) = topic
       /\ pc[Node] = "idle" => answer[Node].request = Len(asked)

\* Requests the node is through with: their samples change no more.
Settled == 1 .. (IF phase = "publish" THEN Len(asked) - 1 ELSE Len(asked))
Sampled(k, row, time_) ==
  \E r \in Settled : Kind(r) = k /\ row = Answer(r) /\ time_ = sample[r]

\* What the node holds and has published of one kind of sample: the memory it
\* started with until the first call succeeds, and samples from then on, the
\* newest of them in the hold.
Log(k) ==
  /\ held[k] = Blank(k) \/ Sampled(k, held[k], stamp[k])
  /\ \A i \in DOMAIN published[k] :
       \/ published[k][i].row = Blank(k)
       \/ /\ Sampled(k, published[k][i].row, published[k][i].stamp)
          /\ held[k] # Blank(k) /\ published[k][i].stamp <= stamp[k]
  /\ \A i, j \in DOMAIN published[k] :
       i < j /\ published[k][i].row # Blank(k)
         => published[k][j].row # Blank(k) /\ published[k][i].stamp < published[k][j].stamp
  /\ last[k] = IF published[k] = <<>> THEN 0 ELSE published[k][Len(published[k])].stamp

Logs == \A k \in Kinds : Log(k)

\* The answer to the newest request has left the device, and it is not older
\* than what the node holds.
Arrived ==
  /\ phase = "publish"
  /\ endpoint # <<>> \/ pc[Node] = "ready" \/ (pc[Node] = "idle" /\ Fetched)
Fresh ==
  Arrived => \A k \in Kinds : held[k] # Blank(k) => stamp[k] <= sample[Len(asked)]

NodeInv ==
  /\ IInv /\ AnswerIsOwn
  /\ NodeTypes /\ DriverPart /\ Logs /\ Fresh /\ ReadIsPublished
-----------------------------------------------------------------------------
LEMMA OneClient ==
  /\ Node \in Clients /\ SoleCaller
  /\ \A c \in Clients : c = Node
  /\ Kinds = {"raw", "processed"}
  /\ \A k \in Kinds : 0 \in Cells(Size(k)) /\ StampCell(k) \in Cells(Size(k)) /\ StampCell(k) \in Nat
BY NodeAssumption DEF NodeAssumption, SoleCaller, Cells, Size, Lengths, StampCell

\* An answer is a row of its kind, it is not what was in memory, and it carries
\* the time of its sample.
LEMMA AnswerRow ==
  ASSUME IInv, NEW r \in Made
  PROVE  /\ Kind(r) \in Kinds /\ r \in Nat /\ r > 0
         /\ Answer(r) \in Rows(Kind(r)) /\ Answer(r) # Blank(Kind(r))
         /\ StampIn(Kind(r), Answer(r)) = sample[r]
<1>1. Kind(r) \in Kinds /\ r \in Nat /\ r > 0 /\ Len(asked) \in Nat
  BY Numbers DEF Made
<1> DEFINE k == Kind(r)
<1>2. 0 \in Cells(Size(k)) /\ StampCell(k) \in Cells(Size(k)) /\ StampCell(k) \in Nat
  BY <1>1, OneClient
<1>3. \A i \in Cells(Size(k)) : Answer(r)[i] = <<r, i>> /\ i \in Nat
  BY DEF Answer, Cells
<1>4. Answer(r) \in Rows(k)
  BY <1>1, <1>3 DEF Answer, Rows
<1>5. Answer(r) # Blank(k)
  BY <1>1, <1>2, <1>3 DEF Blank, Junk
<1>6. StampIn(k, Answer(r)) = sample[r]
  <2>1. Answer(r)[StampCell(k)] = <<r, StampCell(k)>>
    BY <1>2, <1>3
  <2>2. <<r, StampCell(k)>> # Junk
    BY <1>1, <1>2 DEF Junk
  <2> QED
    BY <2>1, <2>2 DEF StampIn
<1> QED
  BY <1>1, <1>4, <1>5, <1>6

\* What was said of one kind of sample stays true while the node does not touch
\* it and the requests it is through with stay what they are.
LEMMA LogKept ==
  ASSUME NEW k \in Kinds, Log(k),
         held'[k] = held[k], stamp'[k] = stamp[k], last'[k] = last[k],
         published'[k] = published[k],
         \A r \in Settled : /\ r \in Settled' /\ Kind(r)' = Kind(r)
                            /\ Answer(r)' = Answer(r) /\ sample'[r] = sample[r]
  PROVE  Log(k)'
<1>1. ASSUME NEW row, NEW time_, Sampled(k, row, time_)
      PROVE  Sampled(k, row, time_)'
  BY <1>1 DEF Sampled
<1>2. Blank(k)' = Blank(k)
  BY DEF Blank
<1> QED
  BY <1>1, <1>2 DEF Log
-----------------------------------------------------------------------------
LEMMA NodeInitial == NodeInit => NodeInv
<1> SUFFICES ASSUME NodeInit PROVE NodeInv
  OBVIOUS
<1>1. IInv
  BY QuietState DEF NodeInit
<1>2. Kinds = {"raw", "processed"} /\ Node \in Clients
  BY OneClient
<1>3. Len(asked) = 0 /\ Settled = {}
  BY DEF NodeInit, Quiet, Settled
<1>4. MaxRequests \in Nat
  BY DriverAssumption DEF DriverAssumption
<1>5. NodeTypes
  BY <1>2, <1>3, <1>4 DEF NodeInit, NodeTypes, Requests, Rows, Junk
<1>6. DriverPart
  BY <1>2 DEF NodeInit, Quiet, DriverPart
<1>7. Logs
  BY DEF NodeInit, Logs, Log, Blank
<1>8. AnswerIsOwn /\ Fresh /\ ReadIsPublished
  BY DEF NodeInit, Quiet, AnswerIsOwn, Fresh, Arrived, ReadIsPublished
<1> QED
  BY <1>1, <1>5, <1>6, <1>7, <1>8 DEF NodeInv

\* The driver stands still.
LEMMA DriverSame ==
  ASSUME IInv, AnswerIsOwn, UNCHANGED driver
  PROVE  /\ IInv' /\ AnswerIsOwn'
         /\ Quiet => Quiet'
         /\ Alone(Node) => Alone(Node)'
         /\ \A r \in Made : Kind(r)' = Kind(r) /\ Answer(r)' = Answer(r)
<1> USE DEF driver, shared, wire, cache, caller
<1>1. IInv'
  BY Unmoved
<1>2. \A r : Kind(r)' = Kind(r)
  BY DEF Kind
<1>3. \A r : Answer(r)' = Answer(r)
  BY <1>2 DEF Answer
<1>4. AnswerIsOwn'
  BY <1>3 DEF AnswerIsOwn
<1>5. Quiet => Quiet'
  BY DEF Quiet
<1>6. Alone(Node) => Alone(Node)'
  BY <1>2 DEF Alone
<1> QED
  BY <1>1, <1>2, <1>3, <1>4, <1>5, <1>6

\* Requests the node is through with have been made.
LEMMA SettledMade ==
  ASSUME IInv
  PROVE  /\ Settled \subseteq Made /\ Len(asked) \in Nat
         /\ phase = "publish" => \A r \in Settled : r < Len(asked)
         /\ phase # "publish" => Settled = Made
<1>1. Len(asked) \in Nat
  BY Numbers
<1> QED
  BY <1>1 DEF Settled, Made

\* main() goes on without touching the driver or the samples.
LEMMA PassiveSteps ==
  ASSUME NodeInv,
         \/ ChannelRefused \/ ConnectFails \/ Round \/ Interrupt
         \/ UNCHANGED nodeVars
  PROVE  NodeInv'
<1>1. /\ UNCHANGED driver /\ UNCHANGED <<time, held, stamp, last, published>>
      /\ \/ phase = "start" /\ phase' = "failed" /\ topic' = topic
         \/ phase = "head" /\ phase' = "ask" /\ topic' = "raw"
         \/ phase' = phase /\ topic' = topic
  BY DEF ChannelRefused, ConnectFails, Round, Interrupt, nodeVars, node
<1>2. /\ IInv' /\ AnswerIsOwn' /\ (Quiet => Quiet') /\ (Alone(Node) => Alone(Node)')
      /\ \A r \in Made : Kind(r)' = Kind(r) /\ Answer(r)' = Answer(r)
  BY <1>1, DriverSame DEF NodeInv
<1>3. /\ asked' = asked /\ pc' = pc /\ commands' = commands /\ endpoint' = endpoint
      /\ current' = current /\ answer' = answer /\ sample' = sample /\ clock' = clock
  BY <1>1 DEF driver, wire, caller, time
<1>4. NodeTypes'
  <2>1. topic' \in Kinds
    BY <1>1, OneClient DEF NodeInv, NodeTypes
  <2> QED
    BY <1>1, <1>3, <2>1 DEF NodeInv, NodeTypes, Rows
<1>5. DriverPart'
  <2>1. phase = "publish" => Kind(Len(asked))' = Kind(Len(asked))
    BY <1>3 DEF Kind
  <2> QED
    BY <1>1, <1>2, <1>3, <2>1 DEF NodeInv, DriverPart
<1>6. Logs'
  <2>1. Settled' = Settled /\ Settled \subseteq Made
    BY <1>1, <1>3, SettledMade DEF Settled, NodeInv
  <2> SUFFICES ASSUME NEW k \in Kinds
               PROVE  Log(k)'
    BY DEF Logs
  <2> QED
    BY <1>1, <1>2, <1>3, <2>1, LogKept DEF NodeInv, Logs
<1>7. Fresh'
  BY <1>1, <1>3 DEF NodeInv, Fresh, Arrived, Blank, Fetched
<1>8. ReadIsPublished'
  BY <1>1, <1>3 DEF NodeInv, ReadIsPublished, Kind, Fetched
<1> QED
  BY <1>2, <1>4, <1>5, <1>6, <1>7, <1>8 DEF NodeInv

\* disconnect() leaves everything but the connection as it is.
LEMMA StopStep ==
  ASSUME NodeInv, Stop
  PROVE  NodeInv'
<1>1. /\ UNCHANGED <<lock, asked, wire, cache, caller>>
      /\ UNCHANGED <<time, topic, held, stamp, last, published>>
      /\ phase = "head" /\ phase' = "done"
  BY DEF Stop
<1>2. /\ asked' = asked /\ pc' = pc /\ commands' = commands /\ endpoint' = endpoint
      /\ refused' = refused
      /\ current' = current /\ answer' = answer /\ sample' = sample /\ clock' = clock
  BY <1>1 DEF wire, caller, time
<1>3. IInv'
  BY <1>1, Unmoved DEF NodeInv
<1>4. \A r : Kind(r)' = Kind(r) /\ Answer(r)' = Answer(r)
  BY <1>2 DEF Kind, Answer
<1>5. AnswerIsOwn'
  BY <1>2, <1>4 DEF NodeInv, AnswerIsOwn
<1>6. NodeTypes'
  BY <1>1, <1>2 DEF NodeInv, NodeTypes, Rows
<1>7. DriverPart'
  BY <1>1, <1>2 DEF NodeInv, DriverPart
<1>8. Logs'
  <2>1. Settled' = Settled
    BY <1>1, <1>2 DEF Settled
  <2> SUFFICES ASSUME NEW k \in Kinds
               PROVE  Log(k)'
    BY DEF Logs
  <2> QED
    BY <1>1, <1>2, <1>4, <2>1, LogKept DEF NodeInv, Logs
<1> QED
  BY <1>1, <1>3, <1>5, <1>6, <1>7, <1>8 DEF NodeInv, Fresh, Arrived, ReadIsPublished

\* connect() finds the driver as it was made.
LEMMA ConnectStep ==
  ASSUME NodeInv, ConnectSucceeds
  PROVE  NodeInv'
<1>1. Quiet /\ Connect /\ phase = "start" /\ phase' = "head"
      /\ UNCHANGED <<time, topic, held, stamp, last, published>>
  BY DEF ConnectSucceeds, NodeInv, DriverPart
<1>2. /\ connected' = TRUE /\ asked' = asked /\ pc' = pc /\ commands' = commands
      /\ endpoint' = <<>> /\ refused' = refused /\ current' = current /\ answer' = answer
      /\ lock' = lock /\ buf' = buf /\ rxSize' = rxSize /\ ready' = ready /\ given' = given
      /\ sample' = sample /\ clock' = clock
  BY <1>1 DEF Connect, Quiet, cache, caller, time
<1>3. IInv'
  <2>1. Quiet'
    BY <1>1, <1>2 DEF Quiet
  <2>2. Quiet' => IInv'
    BY QuietState, PTL
  <2> QED
    BY <2>1, <2>2
<1>4. Node \in Clients
  BY OneClient
<1>5. Alone(Node)' /\ AnswerIsOwn'
  BY <1>1, <1>2, <1>4 DEF Quiet, Alone, AnswerIsOwn
<1>6. NodeTypes'
  BY <1>1, <1>2 DEF NodeInv, NodeTypes, Rows
<1>7. DriverPart'
  BY <1>1, <1>2, <1>4, <1>5 DEF DriverPart, Quiet
<1>8. Logs'
  <2>1. Settled' = Settled /\ \A r : Kind(r)' = Kind(r) /\ Answer(r)' = Answer(r)
    BY <1>1, <1>2 DEF Settled, Kind, Answer
  <2> SUFFICES ASSUME NEW k \in Kinds
               PROVE  Log(k)'
    BY DEF Logs
  <2> QED
    BY <1>1, <1>2, <2>1, LogKept DEF NodeInv, Logs
<1>9. Fresh' /\ ReadIsPublished'
  BY <1>1, <1>2 DEF Fresh, Arrived, ReadIsPublished, Quiet
<1> QED
  BY <1>3, <1>5, <1>6, <1>7, <1>8, <1>9 DEF NodeInv
-----------------------------------------------------------------------------
\* Whatever the driver and the device do while the node is connected.
LEMMA DriverMoves ==
  ASSUME NodeInv, Prompt, Alone(Node), [Next]_vars
  PROVE  IInv' /\ AnswerIsOwn' /\ Alone(Node)'
<1>1. AloneInv
  BY OneClient DEF NodeInv, AloneInv
<1>2. AloneInv'
  BY <1>1, AloneStep, OneClient
<1> QED
  BY <1>2, OneClient DEF AloneInv

LEMMA AskStep ==
  ASSUME NodeInv, Prompt, Ask
  PROVE  NodeInv'
<1>1. /\ phase = "ask" /\ phase' = "publish" /\ SendCommand(Node, topic)
      /\ UNCHANGED <<time, topic, held, stamp, last, published>>
  BY DEF Ask
<1>2. Node \in Clients /\ topic \in Kinds /\ Alone(Node) /\ endpoint = <<>>
  BY <1>1, OneClient DEF NodeInv, NodeTypes, DriverPart
<1>3. Next
  BY <1>1, <1>2 DEF Next, Client
<1>4. IInv' /\ AnswerIsOwn' /\ Alone(Node)'
  BY <1>2, <1>3, DriverMoves
<1>5. /\ asked' = Append(asked, [client |-> Node, kind |-> topic]) /\ Len(asked) < MaxRequests
      /\ endpoint' = <<>> /\ pc'[Node] = "write" /\ current'[Node] = Len(asked')
      /\ sample' = sample /\ clock' = clock
  BY <1>1, <1>2 DEF SendCommand, NodeInv, IInv, Types, time
<1>6. /\ Len(asked') = Len(asked) + 1 /\ Len(asked) \in Nat
      /\ asked'[Len(asked')].kind = topic
      /\ \A r \in Made : Kind(r)' = Kind(r)
  <2>1. asked \in Seq([client : Clients, kind : Kinds])
    BY DEF NodeInv, IInv, Types
  <2> QED
    BY <1>2, <1>5, <2>1, OneMore, AppendProperties DEF NodeInv, IInv
<1>7. NodeTypes'
  <2>1. Len(asked') <= MaxRequests
    BY <1>5, <1>6, DriverAssumption DEF DriverAssumption
  <2> QED
    BY <1>1, <1>5, <2>1 DEF NodeInv, NodeTypes, Rows
<1>8. DriverPart'
  <2>1. Kind(Len(asked))' = topic'
    BY <1>1, <1>6 DEF Kind
  <2>2. (asked # <<>>)'
    BY <1>6
  <2> QED
    BY <1>1, <1>4, <1>5, <2>1, <2>2 DEF DriverPart
<1>9. Logs'
  <2>1. Settled' = Settled /\ Settled \subseteq Made
    BY <1>1, <1>6 DEF Settled, Made
  <2>2. \A r \in Settled : Answer(r)' = Answer(r)
    BY <1>6, <2>1 DEF Answer
  <2> SUFFICES ASSUME NEW k \in Kinds
               PROVE  Log(k)'
    BY DEF Logs
  <2> QED
    BY <1>1, <1>5, <1>6, <2>1, <2>2, LogKept DEF NodeInv, Logs
<1>10. Fresh' /\ ReadIsPublished'
  BY <1>1, <1>5 DEF Fresh, Arrived, ReadIsPublished
<1> QED
  BY <1>4, <1>7, <1>8, <1>9, <1>10 DEF NodeInv

\* The call ends with an answer only if the answer had come, and with the
\* number of the request it was about.
LEMMA WaitEnds ==
  ASSUME NodeInv, Prompt, Alone(Node),
         \/ WriteReturns(Node) \/ WaitResponse(Node)
         \/ FirstTransfer(Node) \/ SecondTransfer(Node) \/ Deliver(Node)
  PROVE  /\ pc'[Node] = "idle" => answer'[Node].request = current[Node]
         /\ pc'[Node] = "ready" \/ (pc'[Node] = "idle" /\ Fetched') =>
              endpoint # <<>> \/ pc[Node] = "ready"
         /\ endpoint' # <<>> => endpoint # <<>>
         /\ asked' = asked /\ current' = current /\ pc[Node] # "idle"
<1>1. Node \in Clients /\ DOMAIN answer = Clients /\ IInv /\ SoleCaller /\ AloneInv
  BY OneClient DEF NodeInv, AloneInv, IInv, Types
<1>2. /\ pc \in [Clients -> {"idle", "write", "sent", "first", "second", "ready"}]
      /\ pc[Node] # "idle" => current[Node] \in Made
  BY <1>1 DEF IInv, Types, Calls
<1>3. CASE WriteReturns(Node) \/ WaitResponse(Node)
  BY <1>1, <1>2, <1>3 DEF WriteReturns, WaitResponse, wire
<1>4. CASE FirstTransfer(Node)
  <2>1. PICK n \in 0 .. MaxSize :
          /\ FirstBrought(Node, n)
          /\ (endpoint' = endpoint /\ n = 0) \/ endpoint # <<>>
    BY <1>4 DEF FirstTransfer, TimesOut, Transfers, wire, MaxSize
  <2>2. pc[Node] = "first" /\ Size(Kind(current[Node])) # 0
    BY <1>1, <1>2, <1>4, Numbers DEF FirstTransfer
  <2>3. /\ pc'[Node] \in {"ready", "second"} /\ (pc'[Node] = "ready" => n # 0)
        /\ asked' = asked /\ current' = current
    BY <1>1, <1>2, <2>1, <2>2 DEF FirstBrought
  <2> QED
    BY <2>1, <2>2, <2>3
<1>5. CASE SecondTransfer(Node)
  <2>1. pc[Node] = "second" /\ endpoint = <<>>
    BY <1>5 DEF SecondTransfer, Alone
  <2>2. TimesOut /\ SecondBrought(Node, 0, FALSE)
    BY <1>5, <2>1 DEF SecondTransfer, Transfers
  <2>3. Return(Node, "TIMEOUT", NoData) /\ asked' = asked /\ endpoint' = endpoint
    BY <2>2 DEF SecondBrought, TimesOut, wire
  <2>4. /\ answer'[Node] = [result |-> "TIMEOUT", request |-> current[Node], data |-> NoData]
        /\ current' = current /\ pc'[Node] = "idle"
    BY <1>1, <1>2, <2>3 DEF Return
  <2> QED
    BY <2>1, <2>3, <2>4 DEF Fetched
<1>6. CASE Deliver(Node)
  <2>1. pc[Node] = "ready" /\ asked' = asked /\ endpoint' = endpoint
        /\ \E result, data : Return(Node, result, data)
    BY <1>6 DEF Deliver, wire
  <2>2. answer'[Node].request = current[Node] /\ current' = current
    BY <1>1, <2>1 DEF Return
  <2> QED
    BY <2>1, <2>2
<1> QED
  BY <1>3, <1>4, <1>5, <1>6

LEMMA WaitStep ==
  ASSUME NodeInv, Prompt, Written \/ Wait
  PROVE  NodeInv'
<1>1. /\ \/ WriteReturns(Node) \/ WaitResponse(Node)
         \/ FirstTransfer(Node) \/ SecondTransfer(Node) \/ Deliver(Node)
      /\ UNCHANGED <<time, phase, topic, held, stamp, last, published>>
  BY DEF Written, Wait, node
<1>2. pc[Node] # "idle"
  BY <1>1 DEF WriteReturns, WaitResponse, FirstTransfer, SecondTransfer, Deliver
<1>3. phase = "publish" /\ Alone(Node) /\ Node \in Clients
  BY <1>2, OneClient DEF NodeInv, DriverPart
<1>4. Next
  BY <1>1, <1>3 DEF Next, Client
<1>5. IInv' /\ AnswerIsOwn' /\ Alone(Node)'
  BY <1>3, <1>4, DriverMoves
<1>6. /\ pc'[Node] = "idle" => answer'[Node].request = current[Node]
      /\ pc'[Node] = "ready" \/ (pc'[Node] = "idle" /\ Fetched') =>
           endpoint # <<>> \/ pc[Node] = "ready"
      /\ endpoint' # <<>> => endpoint # <<>>
      /\ asked' = asked /\ current' = current
  BY <1>1, <1>3, WaitEnds
<1>7. sample' = sample /\ clock' = clock /\ \A r : Kind(r)' = Kind(r) /\ Answer(r)' = Answer(r)
  BY <1>1, <1>6 DEF time, Kind, Answer
<1>8. NodeTypes'
  BY <1>1, <1>6, <1>7 DEF NodeInv, NodeTypes, Rows
<1>9. DriverPart'
  BY <1>1, <1>3, <1>5, <1>6, <1>7 DEF NodeInv, DriverPart, Kind
<1>10. Logs'
  <2>1. Settled' = Settled
    BY <1>1, <1>6 DEF Settled
  <2> SUFFICES ASSUME NEW k \in Kinds
               PROVE  Log(k)'
    BY DEF Logs
  <2> QED
    BY <1>1, <1>7, <2>1, LogKept DEF NodeInv, Logs
<1>11. Fresh'
  <2>1. Arrived' => Arrived
    BY <1>3, <1>6 DEF Arrived
  <2> QED
    BY <1>1, <1>6, <1>7, <2>1 DEF NodeInv, Fresh, Blank
<1>12. ReadIsPublished'
  BY <1>1, <1>3 DEF ReadIsPublished
<1> QED
  BY <1>5, <1>8, <1>9, <1>10, <1>11, <1>12 DEF NodeInv

\* The device takes the newest request, or drops it.
LEMMA NodeDeviceStep ==
  ASSUME NodeInv, Prompt, DeviceSamples \/ DeviceIsSilent
  PROVE  NodeInv'
<1>1. /\ DeviceAnswers \/ DeviceIgnores
      /\ \/ endpoint' = endpoint /\ UNCHANGED time
         \/ clock' \in {clock, clock + 1} /\ sample' = [sample EXCEPT ![Head(commands)] = clock']
      /\ UNCHANGED <<phase, topic, held, stamp, last, published>>
      /\ commands # <<>>
  BY DEF DeviceSamples, DeviceIsSilent, DeviceAnswers, DeviceIgnores, node
<1>2. /\ phase = "publish" /\ Alone(Node) /\ Node \in Clients
      /\ pc[Node] \in {"write", "sent", "first"} /\ commands = <<Len(asked)>> /\ endpoint = <<>>
  <2>1. phase = "publish" /\ Alone(Node) /\ current[Node] = Len(asked)
    BY <1>1 DEF NodeInv, DriverPart, NodeTypes
  <2> QED
    BY <1>1, <2>1, OneClient DEF Alone
<1>3. Next
  BY <1>1 DEF Next
<1>4. IInv' /\ AnswerIsOwn' /\ Alone(Node)'
  BY <1>2, <1>3, DriverMoves
<1>5. asked' = asked /\ pc' = pc /\ current' = current /\ answer' = answer
  BY <1>1 DEF DeviceAnswers, DeviceIgnores, caller
<1>6. /\ \A r : Kind(r)' = Kind(r) /\ Answer(r)' = Answer(r)
      /\ Settled' = Settled
  BY <1>1, <1>5 DEF Kind, Answer, Settled
<1>7. /\ Len(asked) \in Nat /\ Len(asked) \in Requests /\ Settled \subseteq Requests
      /\ \A r \in Settled : r # Len(asked)
  <2>1. Len(asked) \in Nat /\ Len(asked) # 0 /\ Len(asked) <= MaxRequests /\ MaxRequests \in Nat
    BY <1>2, Numbers, DriverAssumption, EmptySeq
       DEF NodeInv, IInv, Types, DriverPart, NodeTypes, DriverAssumption
  <2> QED
    BY <1>2, <2>1 DEF Requests, Settled
<1>8. /\ clock' \in Nat /\ clock <= clock' /\ clock \in Nat
      /\ sample' \in [Requests -> Nat]
      /\ \A r \in Settled : sample'[r] = sample[r]
      /\ \A r \in Requests : sample'[r] <= clock'
      /\ endpoint' = <<>> \/ sample'[Len(asked)] = clock'
  <2>1. CASE endpoint' = endpoint /\ UNCHANGED time
    BY <1>2, <2>1 DEF NodeInv, NodeTypes, time
  <2>2. CASE clock' \in {clock, clock + 1} /\ sample' = [sample EXCEPT ![Len(asked)] = clock']
    BY <1>7, <2>2 DEF NodeInv, NodeTypes
  <2> QED
    BY <1>1, <1>2, <2>1, <2>2
<1>9. NodeTypes'
  BY <1>1, <1>5, <1>8 DEF NodeInv, NodeTypes, Rows, Requests
<1>10. DriverPart'
  BY <1>1, <1>2, <1>4, <1>5, <1>6 DEF NodeInv, DriverPart, Kind
<1>11. Logs'
  <2> SUFFICES ASSUME NEW k \in Kinds
               PROVE  Log(k)'
    BY DEF Logs
  <2> QED
    BY <1>1, <1>6, <1>8, LogKept DEF NodeInv, Logs
<1>12. Fresh'
  <2>1. Arrived' => endpoint' # <<>>
    BY <1>2, <1>5 DEF Arrived
  <2> SUFFICES ASSUME Arrived', NEW k \in Kinds, held[k] # Blank(k)
               PROVE  stamp[k] <= sample'[Len(asked)]
    BY <1>1, <1>5 DEF Fresh, Blank
  <2>2. PICK r \in Settled : stamp[k] = sample[r]
    BY DEF NodeInv, Logs, Log, Sampled
  <2>3. stamp[k] <= clock /\ stamp[k] \in Nat
    BY <1>7, <2>2 DEF NodeInv, NodeTypes
  <2> QED
    BY <1>8, <2>1, <2>3
<1>13. ReadIsPublished'
  BY <1>1, <1>2 DEF ReadIsPublished
<1> QED
  BY <1>4, <1>9, <1>10, <1>11, <1>12, <1>13 DEF NodeInv
-----------------------------------------------------------------------------
\* After a call the node holds what the call brought, or what it held before;
\* if that is a sample, it is not older than the one before.
LEMMA HeldAfterCall ==
  ASSUME NodeInv, Publish, NEW t, topic = t
  PROVE  /\ t \in Kinds /\ phase' # "publish" /\ asked' = asked /\ sample' = sample
         /\ held'[t] \in Rows(t) /\ stamp'[t] \in Nat
         /\ held'[t] = Blank(t) \/ Sampled(t, held[t], stamp[t])'
         /\ held[t] # Blank(t) => held'[t] # Blank(t) /\ stamp[t] <= stamp'[t]
         /\ Fetched => /\ answer[Node].request = Len(asked) /\ Kind(Len(asked)) = t
                       /\ stamp'[t] = sample[Len(asked)]
         /\ DOMAIN held' = Kinds /\ stamp' \in [Kinds -> Nat]
         /\ \A k \in Kinds : k # t => held'[k] = held[k] /\ stamp'[k] = stamp[k]
<1>1. /\ phase = "publish" /\ pc[Node] = "idle" /\ TakeAnswer
      /\ UNCHANGED <<driver, time>> /\ phase' # "publish"
  BY DEF Publish, NextTopic
<1>2. asked' = asked /\ sample' = sample /\ \A r : Kind(r)' = Kind(r) /\ Answer(r)' = Answer(r)
  BY <1>1 DEF driver, time, Kind, Answer
<1>3. /\ t \in Kinds /\ held[t] \in Rows(t) /\ stamp \in [Kinds -> Nat]
      /\ DOMAIN held = Kinds
      /\ Len(asked) # 0 /\ Len(asked) \in Nat /\ Kind(Len(asked)) = t
      /\ answer[Node].request = Len(asked)
  BY <1>1, Numbers, EmptySeq DEF NodeInv, IInv, Types, NodeTypes, DriverPart
<1>4. CASE ~Fetched
  <2>1. held' = held /\ stamp' = stamp
    BY <1>1, <1>4 DEF TakeAnswer
  <2>2. Settled \subseteq Settled'
    BY <1>1, <1>2, <1>3 DEF Settled
  <2>3. Sampled(t, held[t], stamp[t]) => Sampled(t, held[t], stamp[t])'
    BY <1>2, <2>1, <2>2 DEF Sampled
  <2>4. held[t] = Blank(t) \/ Sampled(t, held[t], stamp[t])
    BY <1>3 DEF NodeInv, Logs, Log
  <2>5. stamp[t] \in Nat
    BY <1>3
  <2> QED
    BY <1>1, <1>2, <1>3, <1>4, <2>1, <2>3, <2>4, <2>5
<1>5. CASE Fetched
  <2>1. answer[Node].data = Answer(Len(asked))
    BY <1>3, <1>5, OneClient DEF Fetched, NodeInv, AnswerIsOwn
  <2>2. Len(asked) \in Made /\ Len(asked) \in Settled'
    BY <1>1, <1>2, <1>3 DEF Made, Settled
  <2>3. /\ Answer(Len(asked)) \in Rows(t) /\ Answer(Len(asked)) # Blank(t)
        /\ StampIn(t, Answer(Len(asked))) = sample[Len(asked)]
    BY <1>3, <2>2, AnswerRow DEF NodeInv
  <2>4. /\ held' = [held EXCEPT ![t] = Answer(Len(asked))]
        /\ stamp' = [stamp EXCEPT ![t] = sample[Len(asked)]]
    BY <1>1, <1>5, <2>1, <2>3 DEF TakeAnswer
  <2>5. sample[Len(asked)] \in Nat
    <3>1. Len(asked) \in Requests
      BY <1>3, DriverAssumption DEF NodeInv, NodeTypes, Requests, DriverAssumption
    <3> QED
      BY <3>1 DEF NodeInv, NodeTypes
  <2>6. held[t] # Blank(t) => stamp[t] <= sample[Len(asked)]
    BY <1>1, <1>3, <1>5 DEF NodeInv, Fresh, Arrived
  <2>7. held'[t] = Answer(Len(asked)) /\ stamp'[t] = sample[Len(asked)]
    BY <1>3, <2>4
  <2>8. Sampled(t, held[t], stamp[t])'
    BY <1>2, <1>3, <2>2, <2>7 DEF Sampled
  <2>9. DOMAIN held' = Kinds /\ stamp' \in [Kinds -> Nat]
        /\ \A k \in Kinds : k # t => held'[k] = held[k] /\ stamp'[k] = stamp[k]
    BY <1>3, <2>4, <2>5
  <2> QED
    BY <1>1, <1>2, <1>3, <1>5, <2>3, <2>5, <2>6, <2>7, <2>8, <2>9
<1> QED
  BY <1>4, <1>5

\* What the node holds is published unless its timestamp is the last one; then
\* the log of the topic ends with that timestamp, or nothing was published and
\* the timestamp is the 0 that last_ts_ms starts with.
LEMMA LogPublished ==
  ASSUME NodeInv, Publish, NEW t, topic = t
  PROVE  /\ Log(t)'
         /\ published'[t] \in Seq([row : Rows(t), stamp : Nat])
         /\ DOMAIN published' = Kinds /\ last' \in [Kinds -> Nat]
         /\ \A k \in Kinds : k # t => published'[k] = published[k] /\ last'[k] = last[k]
         /\ \/ stamp'[t] = 0
            \/ published'[t] # <<>> /\ published'[t][Len(published'[t])].stamp = stamp'[t]
<1> DEFINE log == published[t]
           e == [row |-> held'[t], stamp |-> stamp'[t]]
           Entry == [row : Rows(t), stamp : Nat]
           Later(row, time_) ==
             \E r \in Settled' : Kind(r)' = t /\ row = Answer(r)' /\ time_ = sample'[r]
           Good(x) == Later(x.row, x.stamp) /\ held'[t] # Blank(t) /\ x.stamp <= stamp'[t]
<1>1. /\ t \in Kinds /\ phase' # "publish" /\ asked' = asked /\ sample' = sample
      /\ held'[t] \in Rows(t) /\ stamp'[t] \in Nat
      /\ held'[t] = Blank(t) \/ Later(held'[t], stamp'[t])
      /\ held[t] # Blank(t) => held'[t] # Blank(t) /\ stamp[t] <= stamp'[t]
  BY HeldAfterCall DEF Sampled
<1>2. Emit
  BY DEF Publish
<1>3. /\ log \in Seq(Entry) /\ Len(log) \in Nat /\ DOMAIN log = 1 .. Len(log)
      /\ DOMAIN published = Kinds /\ last \in [Kinds -> Nat]
      /\ stamp[t] \in Nat /\ Log(t)
  BY <1>1 DEF NodeInv, NodeTypes, Logs
<1>4. \A row, time_ : Sampled(t, row, time_) => Later(row, time_)
  <2>1. Settled \subseteq Settled' /\ \A r : Kind(r)' = Kind(r) /\ Answer(r)' = Answer(r)
    BY <1>1, Numbers DEF Settled, Kind, Answer, NodeInv
  <2> QED
    BY <1>1, <2>1 DEF Sampled
<1>5. Blank(t)' = Blank(t)
  BY DEF Blank
<1>6. \A i \in DOMAIN log : log[i].stamp \in Nat /\ i \in 1 .. Len(log)
  <2>1. \A i \in DOMAIN log : log[i] \in Entry /\ i \in 1 .. Len(log)
    <3> HIDE DEF log, Entry
    <3> QED
      BY <1>3
  <2> QED
    BY <2>1
<1> HIDE DEF Later
\* The entries that are there already.
<1>7. \A i \in DOMAIN log : log[i].row = Blank(t) \/ Good(log[i])
  <2> SUFFICES ASSUME NEW i \in DOMAIN log, log[i].row # Blank(t)
               PROVE  Good(log[i])
    OBVIOUS
  <2>1. /\ Sampled(t, log[i].row, log[i].stamp)
        /\ held[t] # Blank(t) /\ log[i].stamp <= stamp[t]
    BY <1>3 DEF Log
  <2>2. Later(log[i].row, log[i].stamp)
    BY <1>4, <2>1
  <2>3. log[i].stamp <= stamp'[t]
    BY <1>1, <1>3, <1>6, <2>1
  <2> QED
    BY <1>1, <2>1, <2>2, <2>3
<1>8. \A i, j \in DOMAIN log :
        i < j /\ log[i].row # Blank(t) => log[j].row # Blank(t) /\ log[i].stamp < log[j].stamp
  BY <1>3 DEF Log
<1>9. last[t] = IF log = <<>> THEN 0 ELSE log[Len(log)].stamp
  BY <1>3 DEF Log
<1>10. CASE stamp'[t] = last[t]
  <2>1. published' = published /\ last' = last
    BY <1>2, <1>10 DEF Emit
  <2>2. Log(t)'
    <3>1. held'[t] = Blank(t)' \/ Sampled(t, held[t], stamp[t])'
      BY <1>1, <1>5 DEF Later, Sampled
    <3>2. \A i \in DOMAIN log :
            \/ log[i].row = Blank(t)
            \/ Sampled(t, published[t][i].row, published[t][i].stamp)' /\ held'[t] # Blank(t)
               /\ log[i].stamp <= stamp'[t]
      BY <1>7, <2>1 DEF Later, Sampled
    <3> QED
      BY <1>5, <1>8, <1>9, <2>1, <3>1, <3>2 DEF Log
  <2> QED
    BY <1>3, <1>9, <1>10, <2>1, <2>2
<1>11. CASE stamp'[t] # last[t]
  <2>1. published' = [published EXCEPT ![t] = Append(log, e)] /\ last' = [last EXCEPT ![t] = stamp'[t]]
    BY <1>2, <1>11 DEF Emit
  <2>2. published'[t] = Append(log, e) /\ last'[t] = stamp'[t] /\ e \in Entry
    BY <1>1, <1>3, <2>1
  <2> DEFINE new == Append(log, e)
  <2>3. /\ new \in Seq(Entry) /\ Len(new) = Len(log) + 1 /\ DOMAIN new = 1 .. Len(log) + 1
        /\ new[Len(log) + 1] = e /\ \A i \in 1 .. Len(log) : new[i] = log[i]
    BY <1>3, <2>2, AppendProperties
  <2> HIDE DEF new
  <2>4. e.row = held'[t] /\ e.stamp = stamp'[t]
    OBVIOUS
  <2>5. e.row = Blank(t) \/ Good(e)
    BY <1>1, <2>4
  <2> HIDE DEF e, log, Entry
  <2>6. \A i \in DOMAIN new : new[i].row = Blank(t) \/ Good(new[i])
    <3> HIDE DEF Good
    <3> QED
      BY <1>3, <1>7, <2>3, <2>5
  \* The last entry is the newest of the samples, so the new one is newer.
  <2>7. ASSUME NEW i \in 1 .. Len(log), log[i].row # Blank(t)
        PROVE  held'[t] # Blank(t) /\ log[i].stamp < stamp'[t]
    <3>1. Good(log[i]) /\ log # <<>> /\ last[t] = log[Len(log)].stamp
      BY <1>3, <1>7, <1>9, <2>7
    <3>2. log[Len(log)].row # Blank(t) /\ log[i].stamp <= log[Len(log)].stamp
      BY <1>3, <1>6, <1>8, <2>7
    <3>3. Good(log[Len(log)])
      BY <1>3, <1>7, <2>7, <3>2
    <3> QED
      BY <1>1, <1>6, <1>3, <1>11, <2>7, <3>1, <3>2, <3>3
  <2>8. ASSUME NEW i \in DOMAIN new, NEW j \in DOMAIN new, i < j, new[i].row # Blank(t)
        PROVE  new[j].row # Blank(t) /\ new[i].stamp < new[j].stamp
    <3>1. i \in 1 .. Len(log) /\ new[i] = log[i]
      BY <1>3, <2>3, <2>8
    <3>2. CASE j = Len(log) + 1
      BY <2>3, <2>4, <2>7, <2>8, <3>1, <3>2
    <3>3. CASE j \in 1 .. Len(log)
      BY <1>3, <1>8, <2>3, <2>8, <3>1, <3>3
    <3> QED
      BY <1>3, <2>3, <3>2, <3>3
  <2>9. Log(t)'
    <3>1. held'[t] = Blank(t)' \/ Sampled(t, held[t], stamp[t])'
      BY <1>1, <1>5 DEF Later, Sampled
    <3>2. published'[t] = new
      BY <2>2 DEF new
    <3>3. \A i \in DOMAIN new :
            \/ new[i].row = Blank(t)
            \/ Sampled(t, published[t][i].row, published[t][i].stamp)' /\ held'[t] # Blank(t)
               /\ new[i].stamp <= stamp'[t]
      BY <2>6, <3>2 DEF Later, Sampled
    <3>4. last'[t] = IF new = <<>> THEN 0 ELSE new[Len(new)].stamp
      BY <1>3, <2>2, <2>3, <2>4
    <3> QED
      BY <1>5, <2>8, <3>1, <3>2, <3>3, <3>4 DEF Log
  <2>10. published'[t] # <<>> /\ published'[t][Len(published'[t])].stamp = stamp'[t]
    <3>1. published'[t] = new /\ new # <<>> /\ Len(new) \in DOMAIN new
      BY <1>3, <2>2, <2>3 DEF new
    <3> QED
      BY <2>3, <2>4, <3>1
  <2>11. published'[t] \in Seq(Entry)
    BY <2>2, <2>3 DEF new
  <2>12. /\ DOMAIN published' = Kinds /\ last' \in [Kinds -> Nat]
         /\ \A k \in Kinds : k # t => published'[k] = published[k] /\ last'[k] = last[k]
    BY <1>1, <1>3, <2>1
  <2> QED
    BY <2>9, <2>10, <2>11, <2>12 DEF Entry
<1> QED
  BY <1>10, <1>11

\* imu_publish() and imu_processed_publish(), however the call before ended.
LEMMA PublishStep ==
  ASSUME NodeInv, Publish
  PROVE  NodeInv'
<1>1. /\ phase = "publish" /\ pc[Node] = "idle" /\ UNCHANGED <<driver, time>>
      /\ phase' \in {"ask", "head"} /\ topic' \in Kinds
  BY OneClient DEF Publish, NextTopic, NodeInv, NodeTypes
<1>2. PICK t \in Kinds : t = topic
  BY DEF NodeInv, NodeTypes
<1>3. /\ held'[t] \in Rows(t) /\ DOMAIN held' = Kinds /\ stamp' \in [Kinds -> Nat]
      /\ \A k \in Kinds : k # t => held'[k] = held[k] /\ stamp'[k] = stamp[k]
      /\ Fetched => /\ answer[Node].request = Len(asked) /\ Kind(Len(asked)) = t
                    /\ stamp'[t] = sample[Len(asked)]
  BY <1>2, HeldAfterCall
<1>4. /\ Log(t)' /\ published'[t] \in Seq([row : Rows(t), stamp : Nat])
      /\ DOMAIN published' = Kinds /\ last' \in [Kinds -> Nat]
      /\ \A k \in Kinds : k # t => published'[k] = published[k] /\ last'[k] = last[k]
      /\ \/ stamp'[t] = 0
         \/ published'[t] # <<>> /\ published'[t][Len(published'[t])].stamp = stamp'[t]
  BY <1>2, LogPublished
<1>5. /\ IInv' /\ AnswerIsOwn' /\ (Alone(Node) => Alone(Node)')
      /\ \A r \in Made : Kind(r)' = Kind(r) /\ Answer(r)' = Answer(r)
  BY <1>1, DriverSame DEF NodeInv
<1>6. /\ asked' = asked /\ pc' = pc /\ commands' = commands /\ endpoint' = endpoint
      /\ answer' = answer /\ sample' = sample /\ clock' = clock
  BY <1>1 DEF driver, wire, caller, time
<1>7. NodeTypes'
  <2>1. \A k \in Kinds : held'[k] \in Rows(k)
    BY <1>3 DEF NodeInv, NodeTypes
  <2>2. \A k \in Kinds : published'[k] \in Seq([row : Rows(k), stamp : Nat])
    BY <1>4 DEF NodeInv, NodeTypes
  <2>3. \A k : Rows(k)' = Rows(k)
    BY DEF Rows
  <2> QED
    BY <1>1, <1>3, <1>4, <1>6, <2>1, <2>2, <2>3 DEF NodeInv, NodeTypes
<1>8. DriverPart'
  BY <1>1, <1>5, <1>6, OneClient DEF NodeInv, DriverPart, Alone
<1>9. Logs'
  <2> SUFFICES ASSUME NEW k \in Kinds
               PROVE  Log(k)'
    BY DEF Logs
  <2>1. CASE k = t
    BY <1>4, <2>1
  <2>2. CASE k # t
    <3>1. \A r \in Settled : r \in Settled' /\ r \in Made
      BY <1>1, <1>6, Numbers DEF Settled, Made, NodeInv
    <3> QED
      BY <1>3, <1>4, <1>5, <1>6, <2>2, <3>1, LogKept DEF NodeInv, Logs
  <2> QED
    BY <2>1, <2>2
<1>10. Fresh'
  BY <1>1 DEF Fresh, Arrived
<1>11. ReadIsPublished'
  <2>1. /\ answer'[Node] = answer[Node] /\ Kind(answer[Node].request)' = Kind(answer[Node].request)
        /\ Fetched' = Fetched
    BY <1>6 DEF Kind, Fetched
  <2> QED
    BY <1>3, <1>4, <1>6, <2>1 DEF ReadIsPublished, Kind, Fetched
<1> QED
  BY <1>5, <1>7, <1>8, <1>9, <1>10, <1>11 DEF NodeInv

LEMMA NodeStep ==
  ASSUME NodeInv, Prompt, [NodeNext]_nodeVars
  PROVE  NodeInv'
BY PassiveSteps, StopStep, ConnectStep, AskStep, WaitStep, NodeDeviceStep, PublishStep
   DEF NodeNext

\* The node's loop keeps the driver to itself, publishes only samples once it
\* has read one, and in the order the device took them.
LEMMA NodeInvariant ==
  ASSUME Prompt PROVE NodeSpec => []NodeInv
<1>1. NodeInv /\ [NodeNext]_nodeVars => NodeInv'
  BY NodeStep
<1> QED
  BY <1>1, NodeInitial, PTL DEF NodeSpec

\* What an entry of the log is.
LEMMA EntryIs ==
  ASSUME NodeInv, NEW k \in Kinds, NEW i \in DOMAIN published[k]
  PROVE  IsSample(k, published[k][i]) <=> published[k][i].row # Blank(k)
<1>1. ASSUME IsSample(k, published[k][i])
      PROVE  published[k][i].row # Blank(k)
  <2>1. PICK r \in DOMAIN asked : Kind(r) = k /\ published[k][i].row = Answer(r)
    BY <1>1 DEF IsSample
  <2>2. r \in Made
    BY <2>1 DEF NodeInv, IInv, Types, Made
  <2> QED
    BY <2>1, <2>2, AnswerRow DEF NodeInv
<1>2. ASSUME published[k][i].row # Blank(k)
      PROVE  IsSample(k, published[k][i])
  <2>1. Sampled(k, published[k][i].row, published[k][i].stamp)
    BY <1>2 DEF NodeInv, Logs, Log
  <2>2. Settled \subseteq DOMAIN asked
    BY SettledMade DEF NodeInv, IInv, Types, Made
  <2> QED
    BY <2>1, <2>2 DEF Sampled, IsSample
<1> QED
  BY <1>1, <1>2
-----------------------------------------------------------------------------
\* As long as no answer outlasts the driver's timeout, the node is the caller
\* SoleCallerGetsItsAnswers speaks of, from connect() to disconnect(): every
\* sample it reads is the answer to its own request.
THEOREM NodeGetsItsAnswers ==
  ASSUME Prompt PROVE NodeSpec => []AnswerIsOwn
<1>1. NodeInv => AnswerIsOwn
  BY DEF NodeInv
<1> QED
  BY <1>1, NodeInvariant, PTL

\* Once a sample was published on a topic, calls that fail because a command or
\* an answer was lost or the device refused publish nothing on it that is not a
\* sample.  No answer may outlast the driver's timeout: one that comes late is
\* taken for the answer to the next request if its sync byte is right, also for
\* a request of the other kind, and what is published then is no sample.
THEOREM NodePublishesSamples ==
  ASSUME Prompt PROVE NodeSpec => []SamplesFollowSamples
<1>1. NodeInv => SamplesFollowSamples
  BY EntryIs DEF NodeInv, Logs, Log, SamplesFollowSamples
<1> QED
  BY <1>1, NodeInvariant, PTL

\* As long as no answer outlasts the timeout, no sample is published twice, and
\* none after a newer one.
THEOREM NodePublishesNewer ==
  ASSUME Prompt PROVE NodeSpec => []StrictlyNewer
<1>1. NodeInv => StrictlyNewer
  BY EntryIs DEF NodeInv, Logs, Log, StrictlyNewer
<1> QED
  BY <1>1, NodeInvariant, PTL

\* As long as no answer outlasts the timeout, what was read last is what its
\* topic carries last, but for a first sample with the timestamp 0.
THEOREM NodePublishesWhatItReads ==
  ASSUME Prompt PROVE NodeSpec => []ReadIsPublished
<1>1. NodeInv => ReadIsPublished
  BY DEF NodeInv
<1> QED
  BY <1>1, NodeInvariant, PTL
-----------------------------------------------------------------------------
\* The driver the node uses: while a request is under way the node has it for
\* itself, and nobody looks while it is being connected or disconnected.
LEMMA NodeServiceStep ==
  ASSUME NodeInv, NodeInv', Prompt, [NodeNext]_nodeVars
  PROVE  Service!Next \/ UNCHANGED Service!vars
<1>1. CASE UNCHANGED driver
  BY <1>1, ServiceRests DEF driver, wire, caller
<1>2. CASE ConnectSucceeds \/ Stop
  <2>1. phase \in {"start", "head"} /\ UNCHANGED <<asked, pc, current, answer>>
    BY <1>2 DEF ConnectSucceeds, Connect, Stop, caller
  <2>2. \A c \in Clients : pc[c] = "idle"
    BY <2>1, OneClient DEF NodeInv, DriverPart
  <2> QED
    BY <2>1, <2>2, ServiceRests
<1>3. CASE Ask \/ Written \/ Wait \/ DeviceSamples \/ DeviceIsSilent
  <2>1. /\ Next /\ phase \in {"ask", "publish"} /\ phase' = "publish"
    <3>1. CASE Ask
      BY <3>1, OneClient DEF Ask, Next, Client, NodeInv, NodeTypes
    <3>2. CASE Written \/ Wait
      BY <3>2, OneClient
         DEF Written, Wait, Next, Client, node, NodeInv, DriverPart,
             WriteReturns, WaitResponse, FirstTransfer, SecondTransfer, Deliver
    <3>3. CASE DeviceSamples \/ DeviceIsSilent
      BY <3>3
         DEF DeviceSamples, DeviceIsSilent, DeviceAnswers, DeviceIgnores, Next, node,
             NodeInv, DriverPart, NodeTypes
    <3> QED
      BY <1>3, <3>1, <3>2, <3>3
  <2>2. AloneInv /\ AloneInv'
    BY <2>1, OneClient DEF NodeInv, DriverPart, AloneInv
  <2> QED
    BY <2>1, <2>2, OneClient, ServiceStep
<1> QED
  BY <1>1, <1>2, <1>3
     DEF NodeNext, nodeVars, ChannelRefused, ConnectFails, Round, Publish, Interrupt

\* As long as no answer outlasts the timeout, every call of the node is an
\* exchange with the device: it returns the answer to the node's own request if
\* that came, the refusal if the device refused it, and times out only if neither
\* had come when the first transfer's timeout ended.
THEOREM NodeIsServed ==
  ASSUME Prompt PROVE NodeSpec => ImplementsRequestSpec
<1>1. NodeInit => Service!Init
  BY ServiceBegins DEF NodeInit
<1>2. NodeInv /\ NodeInv' /\ [NodeNext]_nodeVars => [Service!Next]_(Service!vars)
  BY NodeServiceStep
<1> QED
  BY <1>1, <1>2, NodeInvariant, PTL DEF NodeSpec, ImplementsRequestSpec, Service!Spec
=============================================================================
