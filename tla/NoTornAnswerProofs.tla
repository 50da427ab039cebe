------------------------- MODULE NoTornAnswerProofs -------------------------
(***************************************************************************)
(* Callers that all make one kind of request never see parts of two answers *)
(* in one, for every number of callers and every choice of faults.         *)
(***************************************************************************)
EXTENDS SlamkitDriverProofs

\* All requests so far are of one kind.
Uniform == \A r, s \in Made : Kind(r) = Kind(s)

\* A transfer into an answer's room then brings an answer or nothing, so the
\* start of the buffer is one answer, a second transfer follows only an empty
\* first one, and the read cache has an answer's length when it is read.
Whole(size) == \A i \in Cells(size) : buf[i][1] = Head0
ClientWhole(c, size) ==
  /\ pc[c] = "second" => ready[c] = 0
  /\ pc[c] = "ready" => rxSize >= size
AnswerWhole(c) ==
  answer[c].result = "OK" => \A i \in DOMAIN answer[c].data : answer[c].data[i][1] = answer[c].data[0][1]

Untorn ==
  /\ \A c \in Clients : AnswerWhole(c)
  /\ \A r \in Made : Whole(Size(Kind(r)))
  /\ \A r \in Made, c \in Clients : ClientWhole(c, Size(Kind(r)))

TornInv == IInv /\ (Uniform => Untorn)

\* A step that adds no request keeps kinds and sizes.
LEMMA KindsKept ==
  ASSUME asked' = asked
  PROVE  Made' = Made /\ (Uniform' <=> Uniform) /\ \A r \in Made : Kind(r)' = Kind(r)
BY DEF Made, Uniform, Kind

\* The first request finds an empty buffer, any other one a request of its kind.
LEMMA UntornSend ==
  ASSUME TornInv, NEW c \in Clients, NEW kind \in Kinds, SendCommand(c, kind), Uniform'
  PROVE  Untorn'
<1>1. /\ Len(asked') = Len(asked) + 1 /\ Len(asked) \in Nat
      /\ \A r \in Made : Kind(r)' = Kind(r)
      /\ Made \subseteq Made' /\ Len(asked') \in Made'
  BY OneMore DEF TornInv, IInv, SendCommand
<1>2. /\ buf' = buf /\ ready' = ready /\ answer' = answer /\ lock = NoClient
      /\ pc' = [pc EXCEPT ![c] = "write"]
  BY DEF SendCommand
<1>3. \A r \in Made : \A s \in Made' : Kind(s)' = Kind(r)
  BY <1>1 DEF Uniform
<1>4. Uniform
  BY <1>1, <1>3 DEF Uniform
<1>5. \A d \in Clients : AnswerWhole(d)'
  BY <1>2, <1>4 DEF TornInv, Untorn, AnswerWhole
<1>6. ASSUME NEW s \in Made'
      PROVE  Whole(Size(Kind(s)))'
  <2>1. CASE Made = {}
    <3>1. Len(asked) = 0
      BY <1>1, <2>1 DEF Made
    <3>2. IInv' /\ Size(Kind(s)') <= MaxSize /\ Size(Kind(s)') \in Nat
      <4>1. IInv'
        BY SendStep DEF TornInv
      <4>2. Kind(s)' \in Kinds
        <5>1. asked'[s] \in [client : Clients, kind : Kinds]
          BY <4>1, ElementOfSeq DEF IInv, Types, Made
        <5> QED
          BY <5>1 DEF Kind
      <4> QED
        BY <4>1, <4>2, SizeFacts DEF MaxSize
    <3>3. \A i \in Cells(Size(Kind(s)')) : i \in Cells(2 * MaxSize) /\ 0 \in Cells(2 * MaxSize)
      BY <3>2 DEF Cells, MaxSize
    <3>4. \A i \in Cells(2 * MaxSize) : buf[i][1] = 0
      BY <3>1 DEF TornInv, IInv, Types
    <3> QED
      BY <1>2, <3>3, <3>4 DEF Whole, Head0, Size
  <2>2. ASSUME NEW r \in Made
        PROVE  Whole(Size(Kind(s)))'
    <3>1. Kind(s)' = Kind(r) /\ Whole(Size(Kind(r)))
      BY <1>3, <1>4 DEF TornInv, Untorn
    <3> QED
      BY <1>2, <3>1 DEF Whole, Head0, Size
  <2> QED
    BY <2>1, <2>2
<1>7. ASSUME NEW s \in Made', NEW d \in Clients
      PROVE  ClientWhole(d, Size(Kind(s)))'
  <2>1. pc'[d] \notin {"first", "second", "ready"}
    <3>1. NoClient \notin Clients
      BY DriverAssumption DEF DriverAssumption
    <3> QED
      BY <1>2, <3>1 DEF TornInv, IInv, Types, Calls
  <2> QED
    BY <2>1 DEF ClientWhole
<1> QED
  BY <1>5, <1>6, <1>7 DEF Untorn

\* A transfer stores an answer as a whole, at the start or behind it.
LEMMA StoredWhole ==
  ASSUME TornInv, NEW h \in Made, NEW at \in Nat, NEW n \in Nat,
         n = Size(Kind(h)), at = 0 \/ at >= n, Whole(n),
         buf' = Store(buf, at, n, Answer(h))
  PROVE  Whole(n)'
<1>1. n >= 3 /\ n <= MaxSize /\ MaxSize \in Nat
  BY Numbers DEF TornInv, MaxSize
<1>2. DOMAIN buf = Cells(2 * MaxSize) /\ 0 \in Cells(2 * MaxSize) /\ 0 \in Cells(n)
      /\ \A i \in Cells(n) : i \in Cells(2 * MaxSize)
  <2>1. DOMAIN buf = Cells(2 * MaxSize)
    BY DEF TornInv, IInv, Types
  <2>2. /\ 0 \in Cells(2 * MaxSize) /\ 0 \in Cells(n)
        /\ \A i \in Cells(n) : i \in Cells(2 * MaxSize)
    BY <1>1 DEF Cells
  <2> QED
    BY <2>1, <2>2
<1>3. CASE at = 0
  <2>1. ASSUME NEW i \in Cells(n)
        PROVE  buf'[i][1] = h
    <3>1. i \in 0 .. 0 + n - 1 /\ i - 0 = i
      BY <1>1 DEF Cells
    <3>2. buf'[i] = Answer(h)[i]
      BY <1>2, <1>3, <3>1 DEF Store
    <3> QED
      BY <3>2 DEF Answer
  <2> QED
    BY <1>2, <2>1 DEF Whole, Head0
<1>4. CASE at >= n
  <2>1. ASSUME NEW i \in Cells(n)
        PROVE  buf'[i] = buf[i]
    <3>1. i \notin at .. at + n - 1
      BY <1>1, <1>4 DEF Cells
    <3> QED
      BY <1>2, <3>1 DEF Store
  <2> QED
    BY <1>2, <2>1 DEF Whole, Head0
<1> QED
  BY <1>3, <1>4

\* What the transfers of a call with the lock leave of Untorn to be shown.
LEMMA Locked ==
  ASSUME TornInv, Uniform, NEW c \in Clients, lock = c, asked' = asked, current' = current,
         \A d \in Clients : d # c => pc'[d] = pc[d],
         \A d \in Clients : AnswerWhole(d)',
         Whole(Size(Kind(current[c])))',
         current[c] \in Made,
         ClientWhole(c, Size(Kind(current[c])))'
  PROVE  Untorn'
<1>1. Made' = Made /\ \A r \in Made : Kind(r)' = Kind(current[c]) /\ Kind(current[c])' = Kind(current[c])
  BY KindsKept DEF Uniform
<1>2. \A d \in Clients : d # c => pc'[d] \notin {"first", "second", "ready"}
  BY DEF TornInv, IInv, Calls
<1>3. ASSUME NEW r \in Made
      PROVE  Whole(Size(Kind(r)))'
  BY <1>1 DEF Whole, Size
<1>4. ASSUME NEW r \in Made, NEW d \in Clients
      PROVE  ClientWhole(d, Size(Kind(r)))'
  BY <1>1, <1>2 DEF ClientWhole, Size
<1> QED
  BY <1>1, <1>3, <1>4 DEF Untorn

\* Steps that leave the buffer alone and bring nobody to a second transfer or
\* to reading.
LEMMA UntornQuiet ==
  ASSUME TornInv, Uniform, asked' = asked, buf' = buf,
         \A d \in Clients : pc'[d] \in {"second", "ready"} =>
            pc'[d] = pc[d] /\ ready'[d] = ready[d] /\ rxSize' = rxSize,
         \A d \in Clients : AnswerWhole(d)'
  PROVE  Untorn'
<1>1. Made' = Made /\ \A r \in Made : Kind(r)' = Kind(r)
  BY KindsKept
<1>2. ASSUME NEW r \in Made
      PROVE  Whole(Size(Kind(r)))'
  BY <1>1 DEF TornInv, Untorn, Whole, Head0, Size
<1>3. ASSUME NEW r \in Made, NEW d \in Clients
      PROVE  ClientWhole(d, Size(Kind(r)))'
  BY <1>1 DEF TornInv, Untorn, ClientWhole, Size
<1> QED
  BY <1>1, <1>2, <1>3 DEF Untorn

\* Answers that do not change, and calls that fail.
LEMMA OthersWhole ==
  ASSUME TornInv, Uniform,
         \A d \in Clients : answer'[d] = answer[d] \/ answer'[d].result # "OK"
  PROVE  \A d \in Clients : AnswerWhole(d)'
BY DEF TornInv, Untorn, AnswerWhole

LEMMA UntornFirst ==
  ASSUME TornInv, Uniform, NEW c \in Clients, FirstTransfer(c)
  PROVE  Untorn'
<1> DEFINE size == Size(Kind(current[c]))
<1>1. current[c] \in Made /\ lock = c /\ pc[c] = "first"
  BY DEF TornInv, IInv, Calls, FirstTransfer
<1>2. size \in Nat /\ size >= 3 /\ Whole(size)
  BY <1>1, Numbers DEF TornInv, Untorn
<1>3. CASE TimesOut /\ UNCHANGED buf /\ FirstBrought(c, 0)
  <2>1. /\ asked' = asked /\ current' = current /\ answer' = answer /\ buf' = buf
        /\ pc' = [pc EXCEPT ![c] = "second"] /\ ready' = [ready EXCEPT ![c] = 0]
    <3>1. 0 # Size(Kind(current[c]))
      BY <1>2
    <3> QED
      BY <1>3, <3>1 DEF FirstBrought
  <2>2. \A d \in Clients : AnswerWhole(d)'
    BY <2>1, OthersWhole
  <2>3. \A d \in Clients : d # c => pc'[d] = pc[d]
    BY <2>1 DEF TornInv, IInv, Types
  <2>4. pc'[c] = "second" /\ ready'[c] = 0
    BY <2>1 DEF TornInv, IInv, Types
  <2>5. Whole(Size(Kind(current[c])))'
    BY <1>2, <2>1 DEF Whole, Head0, Size, Kind
  <2>6. ClientWhole(c, Size(Kind(current[c])))'
    BY <2>4 DEF ClientWhole
  <2> QED
    BY <1>1, <2>1, <2>2, <2>3, <2>5, <2>6, Locked
<1>4. CASE \E n \in 0 .. MaxSize, done \in BOOLEAN :
          /\ Transfers(size, n, done)
          /\ buf' = Store(buf, 0, n, Answer(Head(endpoint)))
          /\ FirstBrought(c, n)
  <2>1. PICK n \in 0 .. MaxSize, done \in BOOLEAN :
          /\ Transfers(size, n, done)
          /\ buf' = Store(buf, 0, n, Answer(Head(endpoint)))
          /\ FirstBrought(c, n)
    BY <1>4
  <2>2. n \in Nat /\ Head(endpoint) \in Made
    <3>1. n \in Nat
      BY DEF MaxSize
    <3> HIDE DEF size
    <3> QED
      BY <1>2, <2>1, <3>1, Taken DEF TornInv
  <2>3. Size(Kind(Head(endpoint))) = size
    BY <1>1, <2>2 DEF Uniform
  <2>4. n = size
    BY <1>2, <2>1, <2>3 DEF Transfers
  <2>5. /\ asked' = asked /\ current' = current /\ answer' = answer
        /\ pc' = [pc EXCEPT ![c] = "ready"] /\ rxSize' = size
    BY <2>1, <2>4 DEF FirstBrought, SizeAfterFirst
  <2>6. \A d \in Clients : AnswerWhole(d)'
    BY <2>5, OthersWhole
  <2>7. \A d \in Clients : d # c => pc'[d] = pc[d]
    BY <2>5 DEF TornInv, IInv, Types
  <2>8. pc'[c] = "ready" /\ rxSize' >= size
    BY <1>2, <2>5 DEF TornInv, IInv, Types
  <2>9. Whole(size)'
    <3> HIDE DEF size
    <3>1. Whole(n)'
      BY <1>2, <2>1, <2>2, <2>3, <2>4, StoredWhole
    <3>2. size' = size
      BY <2>5 DEF size, Size, Kind
    <3> QED
      BY <2>4, <3>1, <3>2 DEF Whole
  <2>10. ClientWhole(c, size)'
    BY <2>5, <2>8 DEF ClientWhole, Size, Kind
  <2> QED
    BY <1>1, <2>5, <2>6, <2>7, <2>9, <2>10, Locked
<1> QED
  BY <1>3, <1>4 DEF FirstTransfer

LEMMA UntornSecond ==
  ASSUME TornInv, Uniform, NEW c \in Clients, SecondTransfer(c)
  PROVE  Untorn'
<1> DEFINE size == Size(Kind(current[c]))
<1>1. current[c] \in Made /\ lock = c /\ pc[c] = "second"
  BY DEF TornInv, IInv, Calls, SecondTransfer
<1>2. size \in Nat /\ size >= 3 /\ Whole(size) /\ ready[c] = 0
  BY <1>1, Numbers DEF TornInv, Untorn, ClientWhole
<1>3. Rest(size, ready[c]) = size
  BY <1>2 DEF Rest
<1>4. CASE TimesOut /\ UNCHANGED buf /\ SecondBrought(c, 0, FALSE)
  <2>1. asked' = asked /\ buf' = buf /\ Return(c, "TIMEOUT", NoData)
    BY <1>4 DEF SecondBrought
  <2>2. /\ \A d \in Clients : answer'[d] = answer[d] \/ answer'[d].result # "OK"
        /\ pc' = [pc EXCEPT ![c] = "idle"]
    <3>1. /\ answer'[c].result = "TIMEOUT"
          /\ \A d \in Clients : d # c => answer'[d] = answer[d]
          /\ pc' = [pc EXCEPT ![c] = "idle"]
      BY <2>1, Returned DEF TornInv, IInv
    <3> QED
      BY <3>1
  <2>3. \A d \in Clients : pc'[d] \notin {"second", "ready"}
    BY <1>1, <2>2 DEF TornInv, IInv, Types, Calls
  <2>4. \A d \in Clients : AnswerWhole(d)'
    BY <2>2, OthersWhole
  <2> QED
    BY <2>1, <2>3, <2>4, UntornQuiet
<1>5. CASE \E n \in 0 .. MaxSize, done \in BOOLEAN :
          /\ Transfers(size, n, done)
          /\ buf' = Store(buf, size, n, Answer(Head(endpoint)))
          /\ SecondBrought(c, n, done)
  <2>1. PICK n \in 0 .. MaxSize, done \in BOOLEAN :
          /\ Transfers(size, n, done)
          /\ buf' = Store(buf, size, n, Answer(Head(endpoint)))
          /\ SecondBrought(c, n, done)
    BY <1>5
  <2>2. n \in Nat /\ Head(endpoint) \in Made
    <3>1. n \in Nat
      BY DEF MaxSize
    <3> HIDE DEF size
    <3> QED
      BY <1>2, <2>1, <3>1, Taken DEF TornInv
  <2>3. Size(Kind(Head(endpoint))) = size
    BY <1>1, <2>2 DEF Uniform
  <2>4. n = size /\ done
    BY <1>2, <2>1, <2>3 DEF Transfers
  <2>5. /\ asked' = asked /\ current' = current /\ answer' = answer
        /\ pc' = [pc EXCEPT ![c] = "ready"] /\ rxSize' = size + size
    BY <1>3, <2>1, <2>4 DEF SecondBrought, SizeAfterSecond
  <2>6. \A d \in Clients : AnswerWhole(d)'
    BY <2>5, OthersWhole
  <2>7. \A d \in Clients : d # c => pc'[d] = pc[d]
    BY <2>5 DEF TornInv, IInv, Types
  <2>8. pc'[c] = "ready" /\ rxSize' >= size
    BY <1>2, <2>5 DEF TornInv, IInv, Types
  <2>9. Whole(size)'
    <3> HIDE DEF size
    <3>1. Whole(n)'
      BY <1>2, <2>1, <2>2, <2>3, <2>4, StoredWhole
    <3>2. size' = size
      BY <2>5 DEF size, Size, Kind
    <3> QED
      BY <2>4, <3>1, <3>2 DEF Whole
  <2>10. ClientWhole(c, size)'
    BY <2>5, <2>8 DEF ClientWhole, Size, Kind
  <2> QED
    BY <1>1, <2>5, <2>6, <2>7, <2>9, <2>10, Locked
<1> QED
  BY <1>3, <1>4, <1>5 DEF SecondTransfer

\* The answer is read from the start of the buffer, all of it.
LEMMA UntornDeliver ==
  ASSUME TornInv, Uniform, NEW c \in Clients, Deliver(c)
  PROVE  Untorn'
<1> DEFINE size == Size(Kind(current[c]))
           n == CopiedBytes(rxSize, size)
           data == [i \in Cells(size) |-> IF i < n THEN buf[i] ELSE Junk]
<1>1. current[c] \in Made /\ lock = c /\ pc[c] = "ready" /\ rxSize \in Nat
  BY DEF TornInv, IInv, Types, Calls, Deliver
<1>2. size \in Nat /\ size >= 3 /\ Whole(size) /\ rxSize >= size
  BY <1>1, Numbers DEF TornInv, Untorn, ClientWhole
<1>3. n = size /\ \A i \in Cells(size) : i < size /\ 0 \in Cells(size)
  BY <1>1, <1>2 DEF CopiedBytes, Cells
<1>4. \A i \in Cells(size) : data[i][1] = data[0][1]
  BY <1>2, <1>3 DEF Whole
<1>5. asked' = asked /\ buf' = buf
  BY DEF Deliver
<1>6. PICK result :
        \/ Return(c, result, NoData) /\ result # "OK"
        \/ Return(c, "OK", data)
  <2> HIDE DEF data
  <2>1. \/ Return(c, "INVALID", NoData)
        \/ Return(c, "RXERR", NoData)
        \/ Return(c, "OK", data)
    BY Zenon DEF Deliver, data, n, size
  <2> QED
    BY <2>1
<1>7. /\ \A d \in Clients : d # c => answer'[d] = answer[d]
      /\ answer'[c].result = "OK" => answer'[c].data = data
      /\ pc' = [pc EXCEPT ![c] = "idle"]
  <2> HIDE DEF data
  <2> QED
    BY <1>6, Returned DEF TornInv, IInv
<1>8. \A d \in Clients : pc'[d] \notin {"second", "ready"}
  BY <1>1, <1>7 DEF TornInv, IInv, Types, Calls
<1>9. \A d \in Clients : AnswerWhole(d)'
  <2>1. DOMAIN data = Cells(size)
    OBVIOUS
  <2> HIDE DEF data, size
  <2>2. AnswerWhole(c)'
    BY <1>4, <1>7, <2>1 DEF AnswerWhole
  <2>3. \A d \in Clients : d # c => AnswerWhole(d)'
    BY <1>7 DEF TornInv, Untorn, AnswerWhole
  <2> QED
    BY <2>2, <2>3
<1> QED
  BY <1>5, <1>8, <1>9, UntornQuiet

\* All other steps.
LEMMA UntornSmall ==
  ASSUME TornInv, Uniform, NEW c \in Clients,
         SendRefused(c) \/ WriteReturns(c) \/ WaitResponse(c) \/ WaitRefused(c)
  PROVE  Untorn'
<1>1. /\ asked' = asked /\ buf' = buf /\ rxSize' = rxSize /\ ready' = ready
      /\ \A d \in Clients : pc'[d] = pc[d] \/ pc'[d] \in {"idle", "sent", "first"}
      /\ \A d \in Clients : answer'[d] = answer[d] \/ answer'[d].result # "OK"
  <2>1. CASE SendRefused(c)
    BY <2>1 DEF SendRefused, cache, TornInv, IInv, Types
  <2>2. CASE WaitResponse(c)
    BY <2>2 DEF WaitResponse, cache, TornInv, IInv, Types
  <2>3. CASE WaitRefused(c)
    <3>1. asked' = asked /\ buf' = buf /\ rxSize' = rxSize /\ Return(c, "FAIL", NoData)
      BY <2>3 DEF WaitRefused, cache
    <3>2. /\ answer'[c].result = "FAIL" /\ ready' = ready
          /\ \A d \in Clients : d # c => answer'[d] = answer[d]
          /\ pc' = [pc EXCEPT ![c] = "idle"]
      BY <3>1, Returned DEF TornInv, IInv
    <3> QED
      BY <3>1, <3>2 DEF TornInv, IInv, Types
  <2>4. CASE WriteReturns(c)
    BY <2>4 DEF WriteReturns, cache, TornInv, IInv, Types
  <2> QED
    BY <2>1, <2>2, <2>3, <2>4
<1>2. \A d \in Clients : AnswerWhole(d)'
  BY <1>1, OthersWhole
<1> QED
  BY <1>1, <1>2, UntornQuiet

LEMMA UntornElsewhere ==
  ASSUME TornInv, Uniform,
         DeviceAnswers \/ DeviceIgnores \/ Disconnect \/ Connect \/ UNCHANGED vars
  PROVE  Untorn'
<1>1. /\ asked' = asked /\ buf' = buf /\ rxSize' = rxSize /\ ready' = ready
      /\ pc' = pc /\ answer' = answer
  BY DEF DeviceAnswers, DeviceIgnores, Disconnect, Connect, vars, cache, caller
<1>2. \A d \in Clients : AnswerWhole(d)'
  BY <1>1, OthersWhole
<1> QED
  BY <1>1, <1>2, UntornQuiet

LEMMA TornStep ==
  ASSUME TornInv, [Next]_vars
  PROVE  TornInv'
<1>1. IInv'
  BY OneStep DEF TornInv
<1> SUFFICES ASSUME Uniform' PROVE Untorn'
  BY <1>1 DEF TornInv
<1>2. CASE \E c \in Clients, kind \in Kinds : SendCommand(c, kind)
  BY <1>2, UntornSend
<1>3. CASE ~ \E c \in Clients, kind \in Kinds : SendCommand(c, kind)
  <2>1. asked' = asked
    BY <1>3 DEF Next, Client, SendRefused, WriteReturns, WaitResponse, WaitRefused,
                FirstTransfer, FirstBrought,
                SecondTransfer, SecondBrought, Deliver, DeviceAnswers, DeviceIgnores,
                Disconnect, Connect, vars
  <2>2. Uniform
    BY <2>1, KindsKept
  <2> QED
    BY <1>3, <2>2, UntornSmall, UntornFirst, UntornSecond, UntornDeliver, UntornElsewhere
       DEF Next, Client
<1> QED
  BY <1>2, <1>3

\* As long as all callers make one kind of request, none of them is given a
\* mixture of two answers, whatever is lost, late, refused or reconnected.
THEOREM OneKindNeverTears == Spec => []NoTornAnswer
<1>1. Init => TornInv
  <2> SUFFICES ASSUME Init PROVE Untorn
    BY InitialState DEF TornInv
  <2>1. Made = {} /\ \A c \in Clients : AnswerWhole(c)
    BY DEF Init, Quiet, Made, AnswerWhole
  <2> QED
    BY <2>1 DEF Untorn
<1>2. TornInv /\ [Next]_vars => TornInv'
  BY TornStep
<1>3. TornInv => NoTornAnswer
  <2> SUFFICES ASSUME TornInv, \A r, s \in DOMAIN asked : Kind(r) = Kind(s)
               PROVE  \A c \in Clients : AnswerWhole(c)
    BY DEF NoTornAnswer, AnswerWhole
  <2>1. DOMAIN asked = Made
    BY DEF TornInv, IInv, Types, Made
  <2> QED
    BY <2>1 DEF TornInv, Uniform, Untorn
<1> QED
  BY <1>1, <1>2, <1>3, PTL DEF Spec
=============================================================================
