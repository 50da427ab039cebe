------------------------ MODULE SlamkitDriverProofs ------------------------
(***************************************************************************)
(* What holds of SlamkitDriver for every number of clients, every choice of *)
(* faults and every bound.                                                 *)
(***************************************************************************)
EXTENDS SlamkitDriver, SequenceTheorems, TLAPS

\* Requests that are somewhere in a queue have been made.
Made == 1 .. Len(asked)

\* The variables as far as the proofs need them; a call that is under way has
\* made its request.
Types ==
  /\ asked \in Seq([client : Clients, kind : Kinds])
  /\ commands \in Seq(Made) /\ endpoint \in Seq(Made)
  /\ buf \in [Cells(2 * MaxSize) -> (0 .. Len(asked)) \X Nat]
  /\ rxSize \in Nat
  /\ pc \in [Clients -> {"idle", "write", "sent", "first", "second", "ready"}]
  /\ current \in [Clients -> 0 .. Len(asked)]
  /\ ready \in [Clients -> Nat]
  /\ DOMAIN answer = Clients
  /\ given \in [Clients -> Nat]

\* Who writes or waits has the lock, has made its request, goes to the second transfer
\* only with less than it wants and reads only from a cache with something in.
Calls ==
  \A c \in Clients :
    /\ pc[c] # "idle" => current[c] \in Made
    /\ pc[c] \in {"write", "first", "second", "ready"} => lock = c
    /\ pc[c] = "second" => ready[c] < Size(Kind(current[c]))
    /\ pc[c] = "ready" => rxSize > 0

\* The device answers in the order of the requests, so the request whose
\* answer starts the buffer is older than all that are still under way, and
\* not older than any whose answer was given to a caller.
Increasing(s) == \A i, j \in DOMAIN s : i < j => s[i] < s[j]
Head0 == buf[0][1]

Order ==
  /\ Increasing(commands) /\ Increasing(endpoint)
  /\ \A i \in DOMAIN endpoint, j \in DOMAIN commands : endpoint[i] < commands[j]
  /\ \A i \in DOMAIN endpoint : Head0 < endpoint[i]
  /\ \A j \in DOMAIN commands : Head0 < commands[j]
  /\ \A c \in Clients : given[c] <= Head0

IInv == Types /\ Calls /\ Order

LEMMA SizeFacts ==
  ASSUME NEW k \in Kinds
  PROVE  Size(k) \in 3 .. MaxSize
<1>1. k \in {"raw", "info", "processed"}
  BY DriverAssumption DEF DriverAssumption
<1> QED
  BY <1>1 DEF Size, Lengths, MaxSize

\* A queue of some of the requests.
LEMMA SeqPart ==
  ASSUME NEW S, NEW T, S \subseteq T, NEW s \in Seq(S)
  PROVE  s \in Seq(T)
<1>1. /\ Len(s) \in Nat /\ s = [i \in 1 .. Len(s) |-> s[i]]
      /\ \A i \in 1 .. Len(s) : s[i] \in T
  OBVIOUS
<1> QED
  BY <1>1

\* What is left of a queue is a part of it.
LEMMA TailPart ==
  ASSUME NEW S, NEW s \in Seq(S), s # <<>>
  PROVE  /\ Head(s) = s[1] /\ 1 \in DOMAIN s /\ s[1] \in S
         /\ Tail(s) \in Seq(S)
         /\ \A i \in DOMAIN Tail(s) :
              i + 1 \in DOMAIN s /\ Tail(s)[i] = s[i + 1] /\ i \in Nat /\ 1 < i + 1
<1>1. Len(s) \in Nat /\ Len(s) >= 1 /\ Head(s) = s[1]
  BY HeadTailProperties, EmptySeq
<1>2. Tail(s) \in Seq(S) /\ Len(Tail(s)) = Len(s) - 1 /\ \A i \in 1 .. Len(Tail(s)) : Tail(s)[i] = s[i + 1]
  BY HeadTailProperties
<1> QED BY <1>1, <1>2

\* A queue in increasing order stays so without its head, which is the least.
LEMMA TailIncreasing ==
  ASSUME NEW s \in Seq(Nat), s # <<>>, Increasing(s)
  PROVE  /\ Increasing(Tail(s))
         /\ \A i \in DOMAIN Tail(s) : Head(s) < Tail(s)[i]
<1>1. \A i \in DOMAIN Tail(s) : i + 1 \in DOMAIN s /\ Tail(s)[i] = s[i + 1] /\ i \in Nat
  BY TailPart
<1>2. Head(s) = s[1] /\ 1 \in DOMAIN s
  BY TailPart
<1> QED
  BY <1>1, <1>2 DEF Increasing

\* One more request, and the queue with it at its end.
LEMMA AppendIncreasing ==
  ASSUME NEW s \in Seq(Nat), Increasing(s), NEW r \in Nat, \A i \in DOMAIN s : s[i] < r
  PROVE  /\ Increasing(Append(s, r))
         /\ \A i \in DOMAIN Append(s, r) :
              Append(s, r)[i] = r \/ (i \in DOMAIN s /\ Append(s, r)[i] = s[i])
<1>1. Len(s) \in Nat /\ DOMAIN s = 1 .. Len(s) /\ DOMAIN Append(s, r) = 1 .. Len(s) + 1
  BY AppendProperties
<1>2. Append(s, r)[Len(s) + 1] = r /\ \A i \in 1 .. Len(s) : Append(s, r)[i] = s[i]
  BY AppendProperties
<1>3. \A i \in DOMAIN s : s[i] \in Nat
  OBVIOUS
<1>4. ASSUME NEW i \in DOMAIN Append(s, r), NEW j \in DOMAIN Append(s, r), i < j
      PROVE  Append(s, r)[i] < Append(s, r)[j]
  <2>1. i \in DOMAIN s
    BY <1>1, <1>4
  <2>2. CASE j \in DOMAIN s
    BY <1>1, <1>2, <1>4, <2>1, <2>2 DEF Increasing
  <2>3. CASE j = Len(s) + 1
    BY <1>1, <1>2, <2>1, <2>3
  <2> QED
    BY <1>1, <2>2, <2>3
<1> QED
  BY <1>1, <1>2, <1>4 DEF Increasing

\* What a transfer of n bytes of an answer does to the buffer and to its start.
LEMMA Stored ==
  ASSUME Types, NEW h \in Made, NEW at \in Nat, NEW n \in Nat, n <= Size(Kind(h)),
         Size(Kind(h)) \in Nat, buf' = Store(buf, at, n, Answer(h))
  PROVE  /\ buf' \in [Cells(2 * MaxSize) -> (0 .. Len(asked)) \X Nat]
         /\ at > 0 \/ n = 0 => buf'[0] = buf[0]
         /\ at = 0 /\ n > 0 => buf'[0][1] = h
<1>1. DOMAIN buf = Cells(2 * MaxSize) /\ 0 \in Cells(2 * MaxSize)
  BY DEF Types, Cells, MaxSize
<1>2. \A j \in Cells(Size(Kind(h))) : Answer(h)[j] = <<h, j>> /\ j \in Nat
  BY DEF Answer, Cells
<1>3. Len(asked) \in Nat /\ h \in 0 .. Len(asked)
  BY DEF Types, Made
<1>4. ASSUME NEW i \in Cells(2 * MaxSize)
      PROVE  (IF i \in at .. at + n - 1 THEN Answer(h)[i - at] ELSE buf[i])
               \in (0 .. Len(asked)) \X Nat
  <2>1. CASE i \in at .. at + n - 1
    <3>1. i - at \in Cells(Size(Kind(h)))
      BY <2>1, <1>4 DEF Cells
    <3>2. Answer(h)[i - at] = <<h, i - at>> /\ i - at \in Nat
      BY <3>1, <1>2
    <3>3. <<h, i - at>> \in (0 .. Len(asked)) \X Nat
      BY <3>2, <1>3
    <3> QED
      BY <2>1, <3>2, <3>3
  <2>2. CASE i \notin at .. at + n - 1
    BY <2>2 DEF Types
  <2> QED
    BY <2>1, <2>2
<1>5. buf' = [i \in Cells(2 * MaxSize) |->
                IF i \in at .. at + n - 1 THEN Answer(h)[i - at] ELSE buf[i]]
  BY <1>1 DEF Store
<1>6. buf' \in [Cells(2 * MaxSize) -> (0 .. Len(asked)) \X Nat]
  BY <1>4, <1>5
<1>7. ASSUME at > 0 \/ n = 0
      PROVE  buf'[0] = buf[0]
  <2>1. 0 \notin at .. at + n - 1
    BY <1>7
  <2> QED
    BY <1>1, <1>5, <2>1
<1>8. ASSUME at = 0, n > 0
      PROVE  buf'[0][1] = h
  <2>1. 0 \in at .. at + n - 1 /\ 0 - at = 0 /\ 0 \in Cells(Size(Kind(h)))
    BY <1>8 DEF Cells
  <2>2. buf'[0] = Answer(h)[0]
    BY <1>1, <1>5, <2>1
  <2>3. Answer(h)[0] = <<h, 0>>
    BY <1>2, <2>1
  <2> QED
    BY <2>2, <2>3
<1> QED
  BY <1>6, <1>7, <1>8
-----------------------------------------------------------------------------
\* What NeverOlder says of one step.
NewerStep ==
  \A c \in Clients : given'[c] >= given[c]

\* The order of the queues, with the numbers spelled out.
LEMMA Numbers ==
  ASSUME IInv
  PROVE  /\ Len(asked) \in Nat /\ Made \subseteq Nat
         /\ commands \in Seq(Nat) /\ endpoint \in Seq(Nat)
         /\ \A i \in DOMAIN endpoint : endpoint[i] \in Made
         /\ \A i \in DOMAIN commands : commands[i] \in Made
         /\ Head0 \in 0 .. Len(asked)
         /\ \A r \in Made : Kind(r) \in Kinds /\ Size(Kind(r)) \in Nat
                            /\ Size(Kind(r)) >= 3 /\ Size(Kind(r)) <= MaxSize
<1>1. Len(asked) \in Nat /\ Made \subseteq Nat
  BY DEF IInv, Types, Made
<1>2. 0 \in Cells(2 * MaxSize)
  BY DEF Cells, MaxSize
<1>3. Head0 \in 0 .. Len(asked)
  BY <1>2 DEF IInv, Types, Head0
<1>4. ASSUME NEW r \in Made
      PROVE  Kind(r) \in Kinds
  <2>1. asked[r] \in [client : Clients, kind : Kinds]
    BY ElementOfSeq DEF IInv, Types, Made
  <2> QED
    BY <2>1 DEF Kind
<1>5. \A r \in Made : Size(Kind(r)) \in 3 .. MaxSize /\ MaxSize \in Nat
  BY <1>4, SizeFacts DEF MaxSize
<1>6. commands \in Seq(Made) /\ endpoint \in Seq(Made)
  BY DEF IInv, Types
<1>7. /\ \A i \in DOMAIN endpoint : endpoint[i] \in Made
      /\ \A i \in DOMAIN commands : commands[i] \in Made
  BY <1>6
<1>8. commands \in Seq(Nat) /\ endpoint \in Seq(Nat)
  BY <1>1, <1>6, SeqPart
<1> QED
  BY <1>1, <1>3, <1>4, <1>5, <1>7, <1>8

\* Requests that were made keep their kind when another one is made.
LEMMA OneMore ==
  ASSUME Types, NEW c \in Clients, NEW kind \in Kinds,
         asked' = Append(asked, [client |-> c, kind |-> kind])
  PROVE  /\ Len(asked') = Len(asked) + 1 /\ Len(asked) \in Nat
         /\ asked' \in Seq([client : Clients, kind : Kinds])
         /\ \A r \in Made : Kind(r)' = Kind(r)
         /\ Made \subseteq Made' /\ Len(asked') \in Made'
<1>1. /\ Len(asked') = Len(asked) + 1 /\ asked' \in Seq([client : Clients, kind : Kinds])
      /\ \A r \in 1 .. Len(asked) : asked'[r] = asked[r]
  BY AppendProperties DEF Types
<1> QED
  BY <1>1 DEF Types, Made, Kind

LEMMA SendStep ==
  ASSUME IInv, NEW c \in Clients, NEW kind \in Kinds, SendCommand(c, kind)
  PROVE  IInv' /\ NewerStep
<1>1. /\ Len(asked') = Len(asked) + 1 /\ Len(asked) \in Nat
      /\ asked' \in Seq([client : Clients, kind : Kinds])
      /\ \A r \in Made : Kind(r)' = Kind(r)
      /\ Made \subseteq Made' /\ Len(asked') \in Made'
  BY OneMore DEF IInv, SendCommand
<1>2. /\ lock = NoClient /\ lock' = c /\ rxSize' = 0 /\ ready' = ready /\ answer' = answer
      /\ buf' = buf /\ endpoint' = endpoint /\ given' = given
      /\ current' = [current EXCEPT ![c] = Len(asked')] /\ pc' = [pc EXCEPT ![c] = "write"]
      /\ commands' = Append(commands, Len(asked')) \/ commands' = commands
  BY DEF SendCommand
<1>3. Types'
  <2>1. Len(asked') \in Nat /\ 0 .. Len(asked) \subseteq 0 .. Len(asked')
    BY <1>1
  <2>2. commands' \in Seq(Made') /\ endpoint' \in Seq(Made')
    <3>1. commands \in Seq(Made') /\ endpoint \in Seq(Made')
      <4>1. commands \in Seq(Made) /\ endpoint \in Seq(Made) /\ Made \subseteq Made'
        BY <1>1 DEF IInv, Types
      <4> HIDE DEF Made
      <4> QED
        BY <4>1, SeqPart
    <3>2. Append(commands, Len(asked')) \in Seq(Made')
      BY <1>1, <3>1, AppendProperties
    <3> QED
      BY <1>2, <3>1, <3>2
  <2>3. buf' \in [Cells(2 * MaxSize) -> (0 .. Len(asked')) \X Nat]
    <3>1. (0 .. Len(asked)) \X Nat \subseteq (0 .. Len(asked')) \X Nat
      BY <2>1
    <3> QED
      BY <1>2, <3>1 DEF IInv, Types
  <2>4. current' \in [Clients -> 0 .. Len(asked')]
    BY <1>2, <2>1 DEF IInv, Types
  <2> QED
    BY <1>1, <1>2, <2>2, <2>3, <2>4 DEF IInv, Types
<1>4. Calls'
  <2>1. NoClient \notin Clients
    BY DriverAssumption DEF DriverAssumption
  <2> SUFFICES ASSUME NEW d \in Clients
               PROVE  /\ pc'[d] # "idle" => current'[d] \in Made'
                      /\ pc'[d] \notin {"first", "second", "ready"}
                      /\ pc'[d] = "write" => d = c
    BY <1>2 DEF Calls
  <2>2. CASE d = c
    BY <1>1, <1>2, <2>2 DEF IInv, Types
  <2>3. CASE d # c
    BY <1>1, <1>2, <2>1, <2>3 DEF IInv, Types, Calls
  <2> QED
    BY <2>2, <2>3
<1>5. Order'
  <2> DEFINE r == Len(asked')
  <2>1. /\ r \in Nat /\ Head0 < r /\ Head0' = Head0
        /\ \A i \in DOMAIN endpoint : endpoint[i] < r
        /\ \A i \in DOMAIN commands : commands[i] < r
    BY <1>1, <1>2, Numbers DEF Made, Head0
  <2>2. commands \in Seq(Nat) /\ Increasing(commands)
    BY Numbers DEF IInv, Order
  <2>3. CASE commands' = commands
    BY <1>2, <2>1, <2>3 DEF IInv, Order
  <2>4. CASE commands' = Append(commands, r)
    <3> HIDE DEF r
    <3>1. /\ Increasing(commands')
          /\ \A i \in DOMAIN commands' :
               commands'[i] = r \/ (i \in DOMAIN commands /\ commands'[i] = commands[i])
      BY <2>1, <2>2, <2>4, AppendIncreasing
    <3> QED
      BY <1>2, <2>1, <3>1 DEF IInv, Order
  <2> QED
    BY <1>2, <2>3, <2>4
<1>6. NewerStep
  BY <1>2 DEF IInv, Types, NewerStep
<1> QED
  BY <1>3, <1>4, <1>5, <1>6 DEF IInv

\* Steps that neither touch the queues nor the buffer and give nobody an answer.
LEMMA QuietStep ==
  ASSUME IInv, NEW c \in Clients,
         UNCHANGED <<asked, commands, endpoint, buf, given>>,
         Types', Calls'
  PROVE  IInv' /\ NewerStep
<1>1. Order'
  BY DEF IInv, Order, Head0, Increasing
<1>2. NewerStep
  BY DEF IInv, Types, NewerStep
<1> QED
  BY <1>1, <1>2 DEF IInv

\* A call that fails.
LEMMA Returned ==
  ASSUME Types, NEW c \in Clients, NEW result, NEW data, Return(c, result, data)
  PROVE  /\ DOMAIN answer' = Clients
         /\ answer'[c].result = result /\ answer'[c].data = data
         /\ \A d \in Clients : d # c => answer'[d] = answer[d]
         /\ given' = IF result = "OK" THEN [given EXCEPT ![c] = data[0][1]] ELSE given
         /\ pc' = [pc EXCEPT ![c] = "idle"] /\ current' = current /\ ready' = ready
  BY DEF Types, Return

LEMMA SmallSteps ==
  ASSUME IInv, NEW c \in Clients,
         SendRefused(c) \/ WriteReturns(c) \/ WaitResponse(c) \/ WaitRefused(c)
  PROVE  IInv' /\ NewerStep
<1> USE DEF shared, wire, cache
<1>1. CASE SendRefused(c)
  <2>1. Types' /\ Calls'
    BY <1>1 DEF IInv, Types, Calls, SendRefused, Made, Kind
  <2> QED
    BY <1>1, <2>1, QuietStep DEF SendRefused
<1>2. CASE WaitResponse(c)
  <2>1. Types'
    BY <1>2 DEF IInv, Types, WaitResponse, Made
  <2>2. NoClient \notin Clients
    BY DriverAssumption DEF DriverAssumption
  <2>3. Calls'
    BY <1>2, <2>2 DEF IInv, Types, Calls, WaitResponse, Made, Kind
  <2> QED
    BY <1>2, <2>1, <2>3, QuietStep DEF WaitResponse
<1>3. CASE WaitRefused(c)
  <2>1. /\ DOMAIN answer' = Clients /\ given' = given
        /\ \A d \in Clients : d # c => answer'[d] = answer[d]
        /\ pc' = [pc EXCEPT ![c] = "idle"] /\ current' = current /\ ready' = ready
    BY <1>3, Returned DEF IInv, WaitRefused
  <2>2. Types' /\ Calls'
    BY <1>3, <2>1 DEF IInv, Types, Calls, WaitRefused, Made, Kind
  <2> QED
    BY <1>3, <2>1, <2>2, QuietStep DEF WaitRefused
<1>4. CASE WriteReturns(c)
  <2>1. Types'
    BY <1>4 DEF IInv, Types, WriteReturns, Made
  <2>2. NoClient \notin Clients
    BY DriverAssumption DEF DriverAssumption
  <2>3. Calls'
    BY <1>4, <2>2 DEF IInv, Types, Calls, WriteReturns, Made, Kind
  <2> QED
    BY <1>4, <2>1, <2>3, QuietStep DEF WriteReturns
<1> QED
  BY <1>1, <1>2, <1>3, <1>4

\* A transfer takes the oldest answer.
LEMMA Taken ==
  ASSUME IInv, NEW room \in Nat, NEW n \in Nat, NEW done \in BOOLEAN,
         Transfers(room, n, done)
  PROVE  /\ endpoint # <<>> /\ endpoint' = Tail(endpoint) /\ commands' = commands
         /\ Head(endpoint) \in Made /\ n <= Size(Kind(Head(endpoint))) /\ n <= room
         /\ done => n >= 3
         /\ endpoint' \in Seq(Made) /\ Increasing(endpoint')
         /\ Head0 < Head(endpoint)
         /\ \A i \in DOMAIN endpoint' :
              /\ Head(endpoint) < endpoint'[i] /\ Head0 < endpoint'[i]
              /\ \A j \in DOMAIN commands : endpoint'[i] < commands[j]
         /\ \A j \in DOMAIN commands : Head(endpoint) < commands[j]
<1>1. endpoint # <<>> /\ endpoint' = Tail(endpoint) /\ commands' = commands
  BY DEF Transfers
<1>2. endpoint \in Seq(Made) /\ endpoint \in Seq(Nat)
  BY Numbers DEF IInv, Types
<1>3. /\ Head(endpoint) = endpoint[1] /\ 1 \in DOMAIN endpoint /\ endpoint[1] \in Made
      /\ Tail(endpoint) \in Seq(Made)
      /\ \A i \in DOMAIN Tail(endpoint) :
           i + 1 \in DOMAIN endpoint /\ Tail(endpoint)[i] = endpoint[i + 1]
  BY <1>1, <1>2, TailPart
<1>4. Increasing(Tail(endpoint)) /\ \A i \in DOMAIN Tail(endpoint) : Head(endpoint) < Tail(endpoint)[i]
  BY <1>1, <1>2, TailIncreasing DEF IInv, Order
<1>5. Size(Kind(Head(endpoint))) \in Nat /\ Size(Kind(Head(endpoint))) >= 3
  BY <1>3, Numbers
<1>6. n <= Size(Kind(Head(endpoint))) /\ n <= room /\ (done => n >= 3)
  BY <1>5 DEF Transfers
<1>7. /\ \A i \in DOMAIN endpoint : Head0 < endpoint[i]
      /\ \A i \in DOMAIN endpoint, j \in DOMAIN commands : endpoint[i] < commands[j]
  BY DEF IInv, Order
<1> QED
  BY <1>1, <1>3, <1>4, <1>6, <1>7

\* Wherever the answer goes in the buffer, the order stays.
LEMMA TakenInOrder ==
  ASSUME IInv, NEW room \in Nat, NEW n \in Nat, NEW done \in BOOLEAN,
         Transfers(room, n, done), NEW at \in Nat,
         buf' = Store(buf, at, n, Answer(Head(endpoint))), asked' = asked, given' = given
  PROVE  /\ buf' \in [Cells(2 * MaxSize) -> (0 .. Len(asked)) \X Nat]
         /\ endpoint' \in Seq(Made) /\ commands' = commands
         /\ Order' /\ NewerStep
<1> DEFINE h == Head(endpoint)
<1>1. /\ h \in Made /\ n <= Size(Kind(h)) /\ commands' = commands
      /\ endpoint' \in Seq(Made) /\ Increasing(endpoint') /\ Head0 < h
      /\ \A i \in DOMAIN endpoint' :
              /\ h < endpoint'[i] /\ Head0 < endpoint'[i]
              /\ \A j \in DOMAIN commands : endpoint'[i] < commands[j]
      /\ \A j \in DOMAIN commands : h < commands[j]
  BY Taken
<1>2. Size(Kind(h)) \in Nat /\ h \in Nat /\ Head0 \in Nat
  BY <1>1, Numbers
<1> HIDE DEF h
<1>3. /\ buf' \in [Cells(2 * MaxSize) -> (0 .. Len(asked)) \X Nat]
      /\ Head0' = Head0 \/ Head0' = h
  <2>1. buf' = Store(buf, at, n, Answer(h)) /\ Types
    BY DEF h, IInv
  <2>2. /\ buf' \in [Cells(2 * MaxSize) -> (0 .. Len(asked)) \X Nat]
        /\ at > 0 \/ n = 0 => buf'[0] = buf[0]
        /\ at = 0 /\ n > 0 => buf'[0][1] = h
    BY <1>1, <1>2, <2>1, Stored
  <2> QED
    BY <2>2 DEF Head0
<1>4. \A i \in DOMAIN endpoint' : Head0' < endpoint'[i]
  BY <1>1, <1>3
<1>5. \A j \in DOMAIN commands' : Head0' < commands'[j]
  BY <1>1, <1>3 DEF IInv, Order
<1>6. \A d \in Clients : given'[d] <= Head0' /\ given[d] \in Nat
  BY <1>1, <1>2, <1>3 DEF IInv, Order, Types
<1>7. Order'
  BY <1>1, <1>4, <1>5, <1>6 DEF IInv, Order
<1>8. NewerStep
  BY <1>6 DEF NewerStep
<1> QED
  BY <1>1, <1>3, <1>7, <1>8

LEMMA FirstStep ==
  ASSUME IInv, NEW c \in Clients, FirstTransfer(c)
  PROVE  IInv' /\ NewerStep
<1> DEFINE size == Size(Kind(current[c]))
<1>1. current[c] \in Made /\ lock = c /\ pc[c] = "first"
  BY DEF IInv, Calls, FirstTransfer
<1>2. size \in Nat /\ size >= 3 /\ MaxSize \in Nat /\ size <= MaxSize
  BY <1>1, Numbers DEF MaxSize
<1>3. PICK n \in 0 .. MaxSize :
        /\ FirstBrought(c, n) /\ n <= size
        /\ \/ \E done \in BOOLEAN :
                Transfers(size, n, done) /\ buf' = Store(buf, 0, n, Answer(Head(endpoint)))
           \/ UNCHANGED <<wire, buf>>
  <2>1. CASE TimesOut /\ UNCHANGED buf /\ FirstBrought(c, 0)
    BY <1>2, <2>1 DEF TimesOut
  <2>2. CASE \E n \in 0 .. MaxSize, done \in BOOLEAN :
          /\ Transfers(size, n, done)
          /\ buf' = Store(buf, 0, n, Answer(Head(endpoint)))
          /\ FirstBrought(c, n)
    BY <1>2, <2>2, Taken
  <2> QED
    BY <2>1, <2>2 DEF FirstTransfer
<1>4. n \in Nat
  BY <1>2
<1>5. /\ asked' = asked /\ answer' = answer /\ lock' = lock /\ current' = current /\ given' = given
      /\ ready' = [ready EXCEPT ![c] = n]
      /\ n = size => rxSize' = n /\ pc' = [pc EXCEPT ![c] = "ready"]
      /\ n # size => rxSize' = rxSize /\ pc' = [pc EXCEPT ![c] = "second"]
  BY <1>3 DEF FirstBrought, SizeAfterFirst, shared
<1>6. /\ buf' \in [Cells(2 * MaxSize) -> (0 .. Len(asked)) \X Nat]
      /\ endpoint' \in Seq(Made) /\ commands' = commands
      /\ Order' /\ NewerStep
  <2>1. CASE UNCHANGED <<wire, buf>>
    <3>1. Order'
      BY <1>5, <2>1 DEF IInv, Order, Head0, Increasing, wire
    <3>2. NewerStep
      BY <1>5 DEF IInv, Types, NewerStep
    <3> QED
      BY <2>1, <3>1, <3>2 DEF IInv, Types, wire
  <2>2. CASE \E done \in BOOLEAN :
             Transfers(size, n, done) /\ buf' = Store(buf, 0, n, Answer(Head(endpoint)))
    <3> HIDE DEF size
    <3> QED
      BY <1>2, <1>4, <1>5, <2>2, TakenInOrder
  <2> QED
    BY <1>3, <2>1, <2>2
<1>7. Types'
  <2>1. rxSize' \in Nat /\ pc' \in [Clients -> {"idle", "write", "sent", "first", "second", "ready"}]
    BY <1>2, <1>4, <1>5 DEF IInv, Types
  <2> QED
    BY <1>4, <1>5, <1>6, <2>1 DEF IInv, Types, Made
<1>8. Calls'
  <2> SUFFICES ASSUME NEW d \in Clients
               PROVE  /\ pc'[d] # "idle" => current[d] \in Made
                      /\ pc'[d] \in {"write", "first", "second", "ready"} => lock = d
                      /\ pc'[d] = "second" => ready'[d] < Size(Kind(current[d]))
                      /\ pc'[d] = "ready" => rxSize' > 0
    BY <1>5 DEF Calls, Made, Kind
  <2>1. CASE d # c
    BY <1>1, <1>5, <2>1 DEF IInv, Calls, Types
  <2>2. CASE d = c
    <3>1. pc'[c] = IF n = size THEN "ready" ELSE "second"
      BY <1>5 DEF IInv, Types
    <3>2. n # size => ready'[c] < size
      BY <1>2, <1>3, <1>4, <1>5 DEF IInv, Types
    <3>3. n = size => rxSize' > 0
      BY <1>2, <1>5
    <3> QED
      BY <1>1, <2>2, <3>1, <3>2, <3>3
  <2> QED
    BY <2>1, <2>2
<1> QED
  BY <1>6, <1>7, <1>8 DEF IInv

LEMMA SecondStep ==
  ASSUME IInv, NEW c \in Clients, SecondTransfer(c)
  PROVE  IInv' /\ NewerStep
<1> DEFINE room == Rest(Size(Kind(current[c])), ready[c])
<1>1. current[c] \in Made /\ lock = c /\ pc[c] = "second"
  BY DEF IInv, Calls, SecondTransfer
<1>2. room \in Nat /\ room > 0
  <2>1. Size(Kind(current[c])) \in Nat /\ ready[c] \in Nat /\ ready[c] < Size(Kind(current[c]))
    BY <1>1, Numbers DEF IInv, Types, Calls
  <2> QED
    BY <2>1 DEF Rest
<1>3. PICK n \in 0 .. MaxSize, done \in BOOLEAN :
        /\ SecondBrought(c, n, done)
        /\ \/ /\ Transfers(room, n, done) /\ (done => n >= 3)
              /\ buf' = Store(buf, room, n, Answer(Head(endpoint)))
           \/ UNCHANGED <<wire, buf>> /\ ~done
  <2>1. CASE TimesOut /\ UNCHANGED buf /\ SecondBrought(c, 0, FALSE)
    <3>1. 0 \in 0 .. MaxSize /\ UNCHANGED <<wire, buf>>
      BY <2>1 DEF TimesOut, MaxSize
    <3> QED
      BY <2>1, <3>1, Zenon
  <2>2. CASE \E n \in 0 .. MaxSize, done \in BOOLEAN :
          /\ Transfers(room, n, done)
          /\ buf' = Store(buf, room, n, Answer(Head(endpoint)))
          /\ SecondBrought(c, n, done)
    <3>1. PICK n \in 0 .. MaxSize, done \in BOOLEAN :
            /\ Transfers(room, n, done)
            /\ buf' = Store(buf, room, n, Answer(Head(endpoint)))
            /\ SecondBrought(c, n, done)
      BY <2>2
    <3>2. n \in Nat
      BY DEF MaxSize
    <3> HIDE DEF room
    <3>3. done => n >= 3
      BY <1>2, <3>1, <3>2, Taken
    <3> QED
      BY <3>1, <3>3
  <2> QED
    BY <2>1, <2>2 DEF SecondTransfer
<1>4. n \in Nat
  BY DEF MaxSize
<1>5. /\ asked' = asked /\ current' = current /\ ready' = ready /\ rxSize' = room + n
      /\ DOMAIN answer' = Clients /\ given' = given
      /\ done => pc' = [pc EXCEPT ![c] = "ready"] /\ lock' = lock
      /\ ~done => pc' = [pc EXCEPT ![c] = "idle"] /\ lock' = NoClient
  <2>1. asked' = asked /\ rxSize' = room + n
    BY <1>3 DEF SecondBrought, SizeAfterSecond
  <2>2. CASE done /\ pc' = [pc EXCEPT ![c] = "ready"] /\ UNCHANGED <<lock, current, ready, answer, given>>
    BY <2>1, <2>2 DEF IInv, Types
  <2>3. CASE ~done /\ Return(c, "TIMEOUT", NoData) /\ lock' = NoClient
    <3>1. /\ DOMAIN answer' = Clients /\ given' = given
          /\ \A d \in Clients : d # c => answer'[d] = answer[d]
          /\ pc' = [pc EXCEPT ![c] = "idle"] /\ current' = current /\ ready' = ready
      BY <2>3, Returned DEF IInv
    <3> QED
      BY <2>1, <2>3, <3>1
  <2> QED
    BY <1>3, <2>2, <2>3 DEF SecondBrought
<1>6. /\ buf' \in [Cells(2 * MaxSize) -> (0 .. Len(asked)) \X Nat]
      /\ endpoint' \in Seq(Made) /\ commands' = commands
      /\ Order' /\ NewerStep
  <2>1. CASE UNCHANGED <<wire, buf>>
    <3>1. Order'
      BY <1>5, <2>1 DEF IInv, Order, Head0, Increasing, wire
    <3>2. NewerStep
      BY <1>5 DEF IInv, Types, NewerStep
    <3> QED
      BY <2>1, <3>1, <3>2 DEF IInv, Types, wire
  <2>2. CASE Transfers(room, n, done) /\ buf' = Store(buf, room, n, Answer(Head(endpoint)))
    <3> HIDE DEF room
    <3> QED
      BY <1>2, <1>4, <1>5, <2>2, TakenInOrder
  <2> QED
    BY <1>3, <2>1, <2>2
<1>7. Types'
  <2>1. rxSize' \in Nat
    BY <1>2, <1>4, <1>5
  <2>2. pc' \in [Clients -> {"idle", "write", "sent", "first", "second", "ready"}]
    <3>1. CASE done
      BY <1>5, <3>1 DEF IInv, Types
    <3>2. CASE ~done
      BY <1>5, <3>2 DEF IInv, Types
    <3> QED
      BY <3>1, <3>2
  <2> QED
    BY <1>5, <1>6, <2>1, <2>2 DEF IInv, Types, Made
<1>8. Calls'
  <2> SUFFICES ASSUME NEW d \in Clients
               PROVE  /\ pc'[d] # "idle" => current[d] \in Made
                      /\ pc'[d] \in {"write", "first", "second", "ready"} => lock' = d
                      /\ pc'[d] = "second" => ready[d] < Size(Kind(current[d]))
                      /\ pc'[d] = "ready" => rxSize' > 0
    BY <1>5 DEF Calls, Made, Kind
  <2>1. CASE d # c
    BY <1>1, <1>5, <2>1 DEF IInv, Calls, Types
  <2>2. CASE d = c
    <3>1. pc'[c] = IF done THEN "ready" ELSE "idle"
      BY <1>5 DEF IInv, Types
    <3>2. rxSize' > 0
      BY <1>2, <1>4, <1>5
    <3> QED
      BY <1>1, <1>5, <2>2, <3>1, <3>2
  <2> QED
    BY <2>1, <2>2
<1> QED
  BY <1>6, <1>7, <1>8 DEF IInv

\* The answer that is returned is the one at the start of the buffer.
LEMMA DeliverStep ==
  ASSUME IInv, NEW c \in Clients, Deliver(c)
  PROVE  IInv' /\ NewerStep
<1> DEFINE size == Size(Kind(current[c]))
           n == CopiedBytes(rxSize, size)
           data == [i \in Cells(size) |-> IF i < n THEN buf[i] ELSE Junk]
<1>1. current[c] \in Made /\ lock = c /\ pc[c] = "ready" /\ rxSize > 0 /\ rxSize \in Nat
  BY DEF IInv, Types, Calls, Deliver
<1>2. size \in Nat /\ size >= 3
  BY <1>1, Numbers
<1>3. data[0] = buf[0]
  <2>1. 0 < n /\ 0 \in Cells(size)
    BY <1>1, <1>2 DEF CopiedBytes, Cells
  <2> QED
    BY <2>1
<1>4. PICK result :
        \/ Return(c, result, NoData) /\ result # "OK"
        \/ Return(c, "OK", data)
  <2> HIDE DEF data
  <2>1. \/ Return(c, "INVALID", NoData)
        \/ Return(c, "RXERR", NoData)
        \/ Return(c, "OK", data)
    BY Zenon DEF Deliver, data, n, size
  <2> QED
    BY <2>1
<1>5. /\ DOMAIN answer' = Clients
      /\ \A d \in Clients : d # c => answer'[d] = answer[d]
      /\ given' = given \/ given' = [given EXCEPT ![c] = data[0][1]]
      /\ pc' = [pc EXCEPT ![c] = "idle"] /\ current' = current /\ ready' = ready
  <2> HIDE DEF data
  <2> QED
    BY <1>4, Returned DEF IInv
<1>6. /\ asked' = asked /\ commands' = commands /\ endpoint' = endpoint /\ buf' = buf
      /\ lock' = NoClient /\ rxSize' = SizeAfterRead(rxSize, size)
  BY DEF Deliver, wire
<1>7. rxSize' \in Nat
  BY <1>1, <1>2, <1>6 DEF SizeAfterRead
<1>8. Types'
  <2>1. given' \in [Clients -> Nat]
    BY <1>3, <1>5, Numbers DEF IInv, Types, Head0
  <2> QED
    BY <1>5, <1>6, <1>7, <2>1 DEF IInv, Types, Made
<1>9. Calls'
  BY <1>1, <1>5, <1>6 DEF IInv, Types, Calls, Made, Kind
<1>10. Head0' = Head0 /\ Head0 \in Nat
  BY <1>6, Numbers DEF Head0
<1>11. \A d \in Clients : given'[d] \in {given[d], Head0}
  BY <1>3, <1>5 DEF Head0, IInv, Types
<1>12. Order'
  BY <1>6, <1>10, <1>11 DEF IInv, Order, Increasing
<1>13. NewerStep
  <2> SUFFICES ASSUME NEW d \in Clients
               PROVE  given'[d] >= given[d]
    BY DEF NewerStep
  <2>1. given[d] \in Nat /\ given[d] <= Head0
    BY DEF IInv, Types, Order
  <2> QED
    BY <1>10, <1>11, <2>1
<1> QED
  BY <1>8, <1>9, <1>12, <1>13 DEF IInv

LEMMA DeviceStep ==
  ASSUME IInv, DeviceAnswers \/ DeviceIgnores
  PROVE  IInv' /\ NewerStep
<1> DEFINE h == Head(commands)
<1>1. /\ commands # <<>> /\ commands' = Tail(commands)
      /\ asked' = asked /\ buf' = buf /\ rxSize' = rxSize /\ lock' = lock
      /\ pc' = pc /\ current' = current /\ ready' = ready /\ answer' = answer
      /\ given' = given /\ (endpoint' = endpoint \/ endpoint' = Append(endpoint, h))
  BY DEF DeviceAnswers, DeviceIgnores, shared, cache, caller
<1>2. /\ commands \in Seq(Made) /\ commands \in Seq(Nat) /\ Increasing(commands)
      /\ endpoint \in Seq(Made) /\ endpoint \in Seq(Nat) /\ Increasing(endpoint)
  BY Numbers DEF IInv, Types, Order
<1>3. /\ h = commands[1] /\ 1 \in DOMAIN commands /\ h \in Made
      /\ commands' \in Seq(Made)
      /\ \A i \in DOMAIN commands' :
           i + 1 \in DOMAIN commands /\ commands'[i] = commands[i + 1]
  BY <1>1, <1>2, TailPart
<1>4. Increasing(commands') /\ \A i \in DOMAIN commands' : h < commands'[i]
  BY <1>1, <1>2, TailIncreasing
<1> HIDE DEF h
<1>5. /\ h \in Nat /\ Head0 < h
      /\ \A i \in DOMAIN endpoint : endpoint[i] < h /\ Head0 < endpoint[i]
      /\ \A i \in DOMAIN endpoint, j \in DOMAIN commands' : endpoint[i] < commands'[j]
      /\ \A j \in DOMAIN commands' : Head0 < commands'[j]
  BY <1>3, Numbers DEF IInv, Order
<1>6. /\ endpoint' \in Seq(Made) /\ Increasing(endpoint')
      /\ \A i \in DOMAIN endpoint' : endpoint'[i] = h \/ (i \in DOMAIN endpoint /\ endpoint'[i] = endpoint[i])
  <2>1. CASE endpoint' = endpoint
    BY <1>2, <2>1
  <2>2. CASE endpoint' = Append(endpoint, h)
    <3>1. endpoint' \in Seq(Made)
      BY <1>2, <1>3, <2>2, AppendProperties
    <3> QED
      BY <1>2, <1>5, <2>2, <3>1, AppendIncreasing
  <2> QED
    BY <1>1, <2>1, <2>2
<1>7. Types'
  BY <1>1, <1>3, <1>6 DEF IInv, Types, Made
<1>8. Calls'
  BY <1>1 DEF IInv, Calls, Made, Kind
<1>9. Order'
  <2>1. Head0' = Head0 /\ given' = given
    BY <1>1 DEF Head0
  <2>2. \A i \in DOMAIN endpoint' :
          /\ Head0 < endpoint'[i]
          /\ \A j \in DOMAIN commands' : endpoint'[i] < commands'[j]
    BY <1>4, <1>5, <1>6
  <2> QED
    BY <1>4, <1>5, <1>6, <2>1, <2>2 DEF IInv, Order
<1>10. NewerStep
  BY <1>1 DEF IInv, Types, NewerStep
<1> QED
  BY <1>7, <1>8, <1>9, <1>10 DEF IInv

LEMMA ConnectionStep ==
  ASSUME IInv, Disconnect \/ Connect
  PROVE  IInv' /\ NewerStep
<1>1. /\ asked' = asked /\ buf' = buf /\ rxSize' = rxSize /\ lock' = lock
      /\ commands' = commands
      /\ endpoint' = endpoint \/ endpoint' = <<>>
      /\ pc' = pc /\ current' = current /\ ready' = ready /\ answer' = answer /\ given' = given
  BY DEF Disconnect, Connect, wire, cache, caller
<1>2. endpoint' \in Seq(Made) /\ (endpoint' = endpoint \/ DOMAIN endpoint' = {})
  <2>1. CASE endpoint' = endpoint
    BY <2>1 DEF IInv, Types
  <2>2. CASE endpoint' = <<>>
    BY <2>2
  <2> QED
    BY <1>1, <2>1, <2>2
<1>3. Types'
  BY <1>1, <1>2 DEF IInv, Types, Made
<1>4. Calls'
  BY <1>1 DEF IInv, Calls, Made, Kind
<1>5. Order'
  BY <1>1, <1>2 DEF IInv, Order, Head0, Increasing
<1>6. NewerStep
  BY <1>1 DEF IInv, Types, NewerStep
<1> QED
  BY <1>3, <1>4, <1>5, <1>6 DEF IInv
-----------------------------------------------------------------------------
LEMMA QuietState == Quiet => IInv
<1> SUFFICES ASSUME Quiet PROVE IInv
  OBVIOUS
<1>1. Len(asked) = 0 /\ asked \in Seq([client : Clients, kind : Kinds])
  BY DEF Quiet
<1>2. Types
  BY <1>1 DEF Quiet, Types, Made, Junk, Cells, MaxSize
<1>3. Calls
  BY DEF Quiet, Calls
<1>4. Order
  <2>1. Head0 = 0
    BY DEF Quiet, Head0, Junk, Cells, MaxSize
  <2> QED
    BY <2>1 DEF Quiet, Order, Increasing
<1> QED
  BY <1>2, <1>3, <1>4 DEF IInv

LEMMA InitialState == Init => IInv
BY QuietState DEF Init

\* Nothing of the invariant is about the connection.
LEMMA Unmoved ==
  ASSUME IInv, UNCHANGED <<lock, asked, wire, cache, caller>>
  PROVE  IInv'
BY DEF IInv, Types, Calls, Order, Head0, Increasing, Made, Kind, wire, cache, caller

LEMMA OneStep ==
  ASSUME IInv, [Next]_vars
  PROVE  IInv' /\ NewerStep
<1>1. CASE UNCHANGED vars
  <2>1. IInv'
    BY <1>1 DEF IInv, Types, Calls, Order, Head0, Increasing, Made, Kind,
                vars, shared, wire, cache, caller
  <2>2. NewerStep
    BY <1>1 DEF IInv, Types, NewerStep, vars, caller
  <2> QED
    BY <2>1, <2>2
<1>2. CASE \E c \in Clients : Client(c)
  BY <1>2, SendStep, SmallSteps, FirstStep, SecondStep, DeliverStep DEF Client
<1>3. CASE DeviceAnswers \/ DeviceIgnores \/ Disconnect \/ Connect
  BY <1>3, DeviceStep, ConnectionStep
<1> QED
  BY <1>1, <1>2, <1>3 DEF Next

\* The order of the answers is kept by every behaviour.
LEMMA DriverInvariant == Spec => []IInv
<1>1. IInv /\ [Next]_vars => IInv'
  BY OneStep
<1> QED
  BY <1>1, InitialState, PTL DEF Spec

\* Whatever is lost, late, refused or reconnected, however many callers share
\* the driver and however many of their calls fail in between: none of them is
\* given an answer older than the last one it was given.
THEOREM AnswersNeverGetOlder == Spec => NeverOlder
<1>1. IInv /\ [Next]_vars => [NewerStep]_vars
  BY OneStep
<1>2. [][NewerStep]_vars => NeverOlder
  BY DEF NewerStep, NeverOlder
<1> QED
  BY <1>1, <1>2, DriverInvariant, PTL DEF Spec
-----------------------------------------------------------------------------
\* What IInv leaves open of TypeOK: the bounds, what the calls returned, and
\* that the lock is held by nobody else.
Bounds ==
  /\ connected \in BOOLEAN /\ connects \in 0 .. MaxConnects
  /\ lock \in Clients \cup {NoClient}
  /\ Len(asked) <= MaxRequests
  /\ refused \subseteq Requests
  /\ \A i \in Cells(2 * MaxSize) : buf[i] \in Bytes
  /\ rxSize <= 2 * MaxSize
  /\ \A c \in Clients : ready[c] <= MaxSize
  /\ \A c \in Clients :
       /\ answer[c].result \in Results /\ answer[c].request \in 0 .. MaxRequests
       /\ \A i \in DOMAIN answer[c].data : answer[c].data[i] \in Bytes
  /\ \A c \in Clients : lock = c => pc[c] \in {"write", "first", "second", "ready"}

LEMMA BoundsMakeTypes ==
  ASSUME IInv, Bounds PROVE TypeOK
<1>1. Len(asked) \in Nat /\ Made \subseteq Requests /\ 0 .. Len(asked) \subseteq 0 .. MaxRequests
  BY Numbers, DriverAssumption DEF Made, Requests, Bounds, DriverAssumption
<1>2. commands \in Seq(Requests) /\ endpoint \in Seq(Requests)
  <2>1. commands \in Seq(Made) /\ endpoint \in Seq(Made)
    BY DEF IInv, Types
  <2> HIDE DEF Made
  <2> QED
    BY <1>1, <2>1, SeqPart
<1>3. MaxSize \in Nat
  BY DEF MaxSize
<1>4. given \in [Clients -> 0 .. MaxRequests]
  <2>1. \A c \in Clients : given[c] \in 0 .. MaxRequests
    BY <1>1, Numbers DEF IInv, Types, Order
  <2> QED
    BY <2>1 DEF IInv, Types
<1> QED
  BY <1>1, <1>2, <1>3, <1>4 DEF IInv, Types, Calls, Bounds, TypeOK

\* A transfer brings the buffer bytes of an answer.
LEMMA BytesStored ==
  ASSUME IInv, Bounds, NEW h \in Made, NEW at \in Nat, NEW n \in Nat, n <= Size(Kind(h)),
         buf' = Store(buf, at, n, Answer(h))
  PROVE  \A i \in Cells(2 * MaxSize) : buf'[i] \in Bytes
<1>1. /\ h \in 1 .. MaxRequests /\ Size(Kind(h)) \in Nat /\ Size(Kind(h)) <= MaxSize
      /\ MaxSize \in Nat
  BY Numbers, DriverAssumption DEF Made, Bounds, MaxSize, DriverAssumption
<1> SUFFICES ASSUME NEW i \in Cells(2 * MaxSize)
             PROVE  buf'[i] \in Bytes
  OBVIOUS
<1>2. DOMAIN buf = Cells(2 * MaxSize) /\ i \in Nat
  BY DEF IInv, Types, Cells
<1>3. CASE i \in at .. at + n - 1
  <2>1. i - at \in Cells(Size(Kind(h))) /\ i - at \in 0 .. MaxSize
    BY <1>1, <1>2, <1>3 DEF Cells
  <2>2. Answer(h)[i - at] = <<h, i - at>>
    BY <2>1 DEF Answer
  <2>3. buf'[i] = <<h, i - at>>
    BY <1>2, <1>3, <2>2 DEF Store
  <2> QED
    BY <1>1, <2>1, <2>3 DEF Bytes, Requests
<1>4. CASE i \notin at .. at + n - 1
  BY <1>2, <1>4 DEF Store, Bounds
<1> QED
  BY <1>3, <1>4

\* A call that ends gives the lock back.
LEMMA BoundsReturn ==
  ASSUME IInv, Bounds, NEW c \in Clients, NEW result \in Results, NEW data,
         \A i \in DOMAIN data : data[i] \in Bytes,
         Return(c, result, data), lock' = NoClient
  PROVE  /\ \A d \in Clients :
              /\ answer'[d].result \in Results /\ answer'[d].request \in 0 .. MaxRequests
              /\ \A i \in DOMAIN answer'[d].data : answer'[d].data[i] \in Bytes
         /\ \A d \in Clients : lock' # d
         /\ lock' \in Clients \cup {NoClient}
         /\ ready' = ready
<1>1. current[c] \in 0 .. MaxRequests
  BY Numbers, DriverAssumption DEF IInv, Types, Bounds, DriverAssumption
<1>2. answer' = [answer EXCEPT ![c] = [result |-> result, request |-> current[c], data |-> data]]
      /\ ready' = ready /\ DOMAIN answer = Clients
  BY DEF Return, IInv, Types
<1>3. \A d \in Clients : d # c => answer'[d] = answer[d]
  BY <1>2
<1>4. answer'[c].result = result /\ answer'[c].request = current[c] /\ answer'[c].data = data
  BY <1>2
<1>5. NoClient \notin Clients
  BY DriverAssumption DEF DriverAssumption
<1> QED
  BY <1>1, <1>2, <1>3, <1>4, <1>5 DEF Bounds

LEMMA BoundsSmall ==
  ASSUME IInv, Bounds, NEW c \in Clients,
         \/ \E kind \in Kinds : SendCommand(c, kind)
         \/ SendRefused(c) \/ WriteReturns(c) \/ WaitResponse(c) \/ WaitRefused(c)
  PROVE  Bounds'
<1>0. /\ Len(asked) \in Nat /\ MaxRequests \in Nat /\ NoClient \notin Clients
      /\ 0 <= 2 * MaxSize /\ DOMAIN NoData = {}
  BY Numbers, DriverAssumption DEF DriverAssumption, MaxSize, NoData, Cells
<1>1. ASSUME NEW kind \in Kinds, SendCommand(c, kind) PROVE Bounds'
  <2>1. Len(asked') = Len(asked) + 1
    BY <1>1, OneMore DEF SendCommand, IInv
  <2>2. Len(asked') <= MaxRequests
    BY <1>0, <1>1, <2>1 DEF SendCommand
  <2>3. /\ UNCHANGED <<connected, connects, refused, buf, ready, answer>>
        /\ rxSize' = 0 /\ lock' = c /\ pc'[c] = "write"
    BY <1>1 DEF SendCommand, IInv, Types
  <2> QED
    BY <1>0, <2>2, <2>3 DEF Bounds, Bytes, Requests
<1>2. CASE SendRefused(c)
  <2>1. UNCHANGED <<connected, connects, lock, asked, refused, buf, rxSize, pc, ready>>
    BY <1>2 DEF SendRefused, shared, wire, cache
  <2>2. \A d \in Clients :
           \/ answer'[d] = answer[d]
           \/ answer'[d] = [result |-> "FAIL", request |-> 0, data |-> NoData]
    BY <1>2 DEF SendRefused, IInv, Types
  <2> QED
    BY <1>0, <2>1, <2>2 DEF Bounds, Bytes, Requests, Results
<1>3. CASE WaitResponse(c)
  <2>1. /\ UNCHANGED <<connected, connects, asked, refused, buf, rxSize, ready, answer>>
        /\ lock' = c /\ pc'[c] = "first"
    BY <1>3 DEF WaitResponse, wire, cache, IInv, Types
  <2> QED
    BY <2>1 DEF Bounds, Bytes, Requests
<1>4. CASE WaitRefused(c)
  <2>1. /\ UNCHANGED <<connected, connects, lock, asked, refused, buf, rxSize>>
        /\ lock' = NoClient /\ Return(c, "FAIL", NoData)
    BY <1>4 DEF WaitRefused, shared, wire, cache
  <2> QED
    BY <1>0, <2>1, BoundsReturn DEF Bounds, Bytes, Requests, Results
<1>5. CASE WriteReturns(c)
  <2>1. /\ UNCHANGED <<connected, connects, asked, refused, buf, rxSize, ready, answer>>
        /\ lock' = NoClient
    BY <1>5 DEF WriteReturns, wire, cache
  <2> QED
    BY <1>0, <2>1 DEF Bounds, Bytes, Requests
<1> QED
  BY <1>1, <1>2, <1>3, <1>4, <1>5

LEMMA BoundsFirst ==
  ASSUME IInv, Bounds, NEW c \in Clients, FirstTransfer(c)
  PROVE  Bounds'
<1> DEFINE size == Size(Kind(current[c]))
<1>1. current[c] \in Made /\ lock = c /\ pc[c] = "first"
  BY DEF IInv, Calls, FirstTransfer
<1>2. size \in Nat /\ size <= MaxSize /\ MaxSize \in Nat
  BY <1>1, Numbers DEF MaxSize
<1>3. PICK n \in 0 .. MaxSize :
        /\ FirstBrought(c, n) /\ refused' = refused
        /\ \A i \in Cells(2 * MaxSize) : buf'[i] \in Bytes
  <2>1. CASE TimesOut /\ UNCHANGED buf /\ FirstBrought(c, 0)
    BY <1>2, <2>1 DEF TimesOut, wire, Bounds
  <2>2. CASE \E n \in 0 .. MaxSize, done \in BOOLEAN :
          /\ Transfers(size, n, done)
          /\ buf' = Store(buf, 0, n, Answer(Head(endpoint)))
          /\ FirstBrought(c, n)
    <3>1. PICK n \in 0 .. MaxSize, done \in BOOLEAN :
            /\ Transfers(size, n, done)
            /\ buf' = Store(buf, 0, n, Answer(Head(endpoint)))
            /\ FirstBrought(c, n)
      BY <2>2
    <3> HIDE DEF size
    <3>2. Head(endpoint) \in Made /\ n <= Size(Kind(Head(endpoint))) /\ n \in Nat
      BY <1>2, <3>1, Taken
    <3>3. \A i \in Cells(2 * MaxSize) : buf'[i] \in Bytes
      BY <3>1, <3>2, BytesStored
    <3> QED
      BY <3>1, <3>3 DEF Transfers
  <2> QED
    BY <2>1, <2>2 DEF FirstTransfer
<1>4. /\ UNCHANGED <<connected, connects, lock, asked, answer>>
      /\ ready' = [ready EXCEPT ![c] = n]
      /\ rxSize' = n \/ rxSize' = rxSize
      /\ pc'[c] \in {"second", "ready"}
  BY <1>3 DEF FirstBrought, SizeAfterFirst, shared, IInv, Types
<1>5. /\ rxSize' <= 2 * MaxSize
      /\ \A d \in Clients : ready'[d] <= MaxSize
  BY <1>2, <1>4 DEF Bounds, IInv, Types
<1>6. \A d \in Clients : lock' = d => pc'[d] \in {"write", "first", "second", "ready"}
  BY <1>1, <1>4
<1> QED
  BY <1>3, <1>4, <1>5, <1>6 DEF Bounds, Bytes, Requests, Results

LEMMA BoundsSecond ==
  ASSUME IInv, Bounds, NEW c \in Clients, SecondTransfer(c)
  PROVE  Bounds'
<1> DEFINE room == Rest(Size(Kind(current[c])), ready[c])
<1>1. current[c] \in Made /\ lock = c /\ pc[c] = "second"
  BY DEF IInv, Calls, SecondTransfer
<1>2. room \in Nat /\ room <= MaxSize /\ MaxSize \in Nat
  <2>1. /\ Size(Kind(current[c])) \in Nat /\ Size(Kind(current[c])) <= MaxSize
        /\ ready[c] \in Nat /\ ready[c] < Size(Kind(current[c])) /\ MaxSize \in Nat
    BY <1>1, Numbers DEF IInv, Types, Calls, MaxSize
  <2> QED
    BY <2>1 DEF Rest
<1>3. PICK n \in Nat :
        /\ n <= room /\ (SecondBrought(c, n, TRUE) \/ SecondBrought(c, n, FALSE))
        /\ refused' = refused
        /\ \A i \in Cells(2 * MaxSize) : buf'[i] \in Bytes
  <2>1. CASE TimesOut /\ UNCHANGED buf /\ SecondBrought(c, 0, FALSE)
    <3>1. 0 \in Nat /\ 0 <= room /\ refused' = refused /\ buf' = buf
      BY <1>2, <2>1 DEF TimesOut, wire
    <3>2. \A i \in Cells(2 * MaxSize) : buf'[i] \in Bytes
      BY <3>1 DEF Bounds
    <3> HIDE DEF room
    <3> QED
      BY <2>1, <3>1, <3>2, Zenon
  <2>2. CASE \E n \in 0 .. MaxSize, done \in BOOLEAN :
          /\ Transfers(room, n, done)
          /\ buf' = Store(buf, room, n, Answer(Head(endpoint)))
          /\ SecondBrought(c, n, done)
    <3>1. PICK n \in 0 .. MaxSize, done \in BOOLEAN :
            /\ Transfers(room, n, done)
            /\ buf' = Store(buf, room, n, Answer(Head(endpoint)))
            /\ SecondBrought(c, n, done)
      BY <2>2
    <3> HIDE DEF room
    <3>2. Head(endpoint) \in Made /\ n <= Size(Kind(Head(endpoint))) /\ n \in Nat /\ n <= room
      BY <1>2, <3>1, Taken
    <3>3. \A i \in Cells(2 * MaxSize) : buf'[i] \in Bytes
      BY <1>2, <3>1, <3>2, BytesStored
    <3>4. SecondBrought(c, n, TRUE) \/ SecondBrought(c, n, FALSE)
      BY <3>1
    <3>5. refused' = refused
      BY <3>1 DEF Transfers
    <3> QED
      BY <3>2, <3>3, <3>4, <3>5
  <2> QED
    BY <2>1, <2>2 DEF SecondTransfer
<1>4. rxSize' = room + n /\ UNCHANGED <<connected, connects, asked>>
  BY <1>3 DEF SecondBrought, SizeAfterSecond
<1>5. rxSize' <= 2 * MaxSize
  BY <1>2, <1>3, <1>4
<1>6. CASE pc' = [pc EXCEPT ![c] = "ready"] /\ UNCHANGED <<lock, current, ready, answer, given>>
  BY <1>1, <1>3, <1>4, <1>5, <1>6 DEF Bounds, Bytes, Requests, Results, IInv, Types
<1>7. CASE Return(c, "TIMEOUT", NoData) /\ lock' = NoClient
  <2>1. DOMAIN NoData = {} /\ "TIMEOUT" \in Results
    BY DEF NoData, Cells, Results
  <2> QED
    BY <1>3, <1>4, <1>5, <1>7, <2>1, BoundsReturn DEF Bounds, Bytes, Requests, Results
<1> QED
  BY <1>3, <1>6, <1>7 DEF SecondBrought

LEMMA BoundsDeliver ==
  ASSUME IInv, Bounds, NEW c \in Clients, Deliver(c)
  PROVE  Bounds'
<1> DEFINE size == Size(Kind(current[c]))
           n == CopiedBytes(rxSize, size)
           data == [i \in Cells(size) |-> IF i < n THEN buf[i] ELSE Junk]
<1>1. current[c] \in Made /\ rxSize \in Nat
  BY DEF IInv, Types, Calls, Deliver
<1>2. size \in Nat /\ size <= MaxSize /\ MaxSize \in Nat
  BY <1>1, Numbers DEF MaxSize
<1>3. \A i \in DOMAIN data : data[i] \in Bytes
  <2>1. Junk \in Bytes
    BY <1>2 DEF Junk, Bytes
  <2>2. \A i \in Cells(size) : i \in Cells(2 * MaxSize)
    BY <1>2 DEF Cells
  <2> QED
    BY <2>1, <2>2 DEF Bounds
<1>4. \/ Return(c, "INVALID", NoData)
      \/ Return(c, "RXERR", NoData)
      \/ Return(c, "OK", data)
  <2> HIDE DEF data
  <2> QED
    BY Zenon DEF Deliver, data, n, size
<1>5. /\ lock' = NoClient /\ rxSize' = SizeAfterRead(rxSize, size)
      /\ UNCHANGED <<connected, connects, asked, refused, buf>>
  BY DEF Deliver, wire
<1>6. rxSize' <= 2 * MaxSize
  BY <1>1, <1>2, <1>5 DEF SizeAfterRead, Bounds
<1>7. DOMAIN NoData = {} /\ {"INVALID", "RXERR", "OK"} \subseteq Results
  BY DEF NoData, Cells, Results
<1>8. PICK r, d : /\ r \in Results /\ Return(c, r, d)
                  /\ \A i \in DOMAIN d : d[i] \in Bytes
  <2> HIDE DEF data
  <2> QED
    BY <1>3, <1>4, <1>7
<1> QED
  BY <1>5, <1>6, <1>8, BoundsReturn DEF Bounds, Bytes, Requests, Results

LEMMA BoundsStep ==
  ASSUME IInv, Bounds, [Next]_vars
  PROVE  Bounds'
<1>1. CASE \E c \in Clients : Client(c)
  BY <1>1, BoundsSmall, BoundsFirst, BoundsSecond, BoundsDeliver DEF Client
<1>2. CASE DeviceAnswers \/ DeviceIgnores
  <2>1. /\ UNCHANGED <<connected, connects, lock, asked, buf, rxSize, pc, ready, answer>>
        /\ refused' = refused \/ refused' = refused \cup {Head(commands)}
        /\ commands # <<>>
    BY <1>2 DEF DeviceAnswers, DeviceIgnores, shared, cache, caller
  <2>2. Head(commands) \in Made
    BY <2>1, TailPart DEF IInv, Types
  <2>3. Made \subseteq Requests
    BY Numbers, DriverAssumption DEF Made, Requests, Bounds, DriverAssumption
  <2> QED
    BY <2>1, <2>2, <2>3 DEF Bounds, Bytes, Requests, Results
<1>3. CASE Disconnect \/ Connect
  <2>1. /\ UNCHANGED <<lock, asked, refused, buf, rxSize, pc, ready, answer>>
        /\ connected' \in BOOLEAN
        /\ connects' = connects \/ (connects < MaxConnects /\ connects' = connects + 1)
    BY <1>3 DEF Disconnect, Connect, wire, cache, caller
  <2>2. connects' \in 0 .. MaxConnects
    BY <2>1, DriverAssumption DEF Bounds, DriverAssumption
  <2> QED
    BY <2>1, <2>2 DEF Bounds, Bytes, Requests, Results
<1>4. CASE UNCHANGED vars
  BY <1>4 DEF Bounds, Bytes, Requests, Results, vars, shared, wire, cache, caller
<1> QED
  BY <1>1, <1>2, <1>3, <1>4 DEF Next

\* Whatever is lost, late, refused or reconnected, however many callers share
\* the driver: _lock is held exactly by a caller that is inside write() or
\* _waitResponse(), and _rx_size stays within what a buffer of two of the longest answers holds.
THEOREM LockAndCacheAreKept == Spec => []TypeOK
<1>1. Init => Bounds
  <2> SUFFICES ASSUME Init PROVE Bounds
    OBVIOUS
  <2>1. NoClient \notin Clients /\ MaxRequests \in Nat /\ MaxConnects \in Nat \ {0}
    BY DriverAssumption DEF DriverAssumption
  <2>2. Len(asked) = 0 /\ DOMAIN NoData = {} /\ MaxSize = 5
    BY DEF Init, Quiet, NoData, Cells, MaxSize
  <2> QED
    BY <2>1, <2>2 DEF Init, Quiet, Bounds, Bytes, Junk, Results, Requests
<1>2. IInv /\ Bounds /\ [Next]_vars => Bounds'
  BY BoundsStep
<1>3. IInv /\ Bounds => TypeOK
  BY BoundsMakeTypes
<1> QED
  BY <1>1, <1>2, <1>3, DriverInvariant, PTL DEF Spec
-----------------------------------------------------------------------------
\* One caller, and a timeout that no answer outlasts.
SoleCaller == \A c, d \in Clients : c = d
Prompt == Faults \subseteq {"lost", "rxerr"}

\* Then nothing is under way but the caller's own request, nothing at all once
\* the caller has given up the first transfer or has the answer, and what it is
\* about to read is that answer.
Alone(c) ==
  LET r == current[c] IN
  /\ connected
  /\ answer[c].request \in 0 .. Len(asked)
  /\ answer[c].result = "OK" => answer[c].request > 0
  /\ pc[c] \in {"write", "sent", "first"} =>
       \/ commands = <<>> /\ endpoint = <<>>
       \/ commands = <<r>> /\ endpoint = <<>>
       \/ commands = <<>> /\ endpoint = <<r>>
  /\ pc[c] \notin {"write", "sent", "first"} => commands = <<>> /\ endpoint = <<>>
  /\ pc[c] # "idle" => r = Len(asked) /\ answer[c].request < r
  /\ pc[c] = "ready" => rxSize = Size(Kind(r)) /\ \A i \in Cells(Size(Kind(r))) : buf[i] = <<r, i>>

AloneInv == IInv /\ AnswerIsOwn /\ \A c \in Clients : Alone(c)

\* Answers that were returned stay the caller's own while requests are added.
LEMMA KeepsAnswers ==
  ASSUME AloneInv, NEW c \in Clients, answer' = answer,
         \/ asked' = asked
         \/ \E d \in Clients, kind \in Kinds : asked' = Append(asked, [client |-> d, kind |-> kind]),
         \/ refused' = refused
         \/ pc[c] # "idle" /\ refused' = refused \cup {current[c]},
         SoleCaller
  PROVE  AnswerIsOwn'
<1>1. \A r \in Made : Kind(r)' = Kind(r)
  <2>1. CASE asked' = asked
    BY <2>1 DEF Kind
  <2>2. CASE \E d \in Clients, kind \in Kinds : asked' = Append(asked, [client |-> d, kind |-> kind])
    BY <2>2, OneMore DEF AloneInv, IInv
  <2> QED
    BY <2>1, <2>2
<1>2. \A r \in Made : Answer(r)' = Answer(r)
  BY <1>1 DEF Answer
<1> SUFFICES ASSUME NEW d \in Clients
             PROVE  /\ answer[d].result = "OK" =>
                         answer[d].data = Answer(answer[d].request)' /\ answer[d].request \notin refused'
                    /\ answer[d].result = "RXERR" => answer[d].request \in refused'
                    /\ answer[d].result # "INVALID"
  BY DEF AnswerIsOwn
<1>3. d = c
  BY DEF SoleCaller
<1>4. /\ answer[c].result = "OK" => answer[c].data = Answer(answer[c].request) /\ answer[c].request \notin refused
      /\ answer[c].result = "RXERR" => answer[c].request \in refused
      /\ answer[c].result # "INVALID"
  BY DEF AloneInv, AnswerIsOwn
<1>5. /\ Len(asked) \in Nat /\ answer[c].request \in 0 .. Len(asked)
      /\ answer[c].result = "OK" => answer[c].request > 0
  BY Numbers DEF AloneInv, Alone
<1>6. answer[c].result = "OK" => answer[c].data = Answer(answer[c].request)'
  BY <1>2, <1>4, <1>5 DEF Made
<1>7. pc[c] # "idle" => current[c] \in Nat /\ answer[c].request < current[c]
  BY <1>5 DEF AloneInv, Alone
<1>8. answer[c].result = "OK" => answer[c].request \notin refused'
  BY <1>4, <1>5, <1>7
<1> QED
  BY <1>3, <1>4, <1>6, <1>8

\* One caller: what holds of it holds of all.
LEMMA OnlyOne ==
  ASSUME SoleCaller, NEW c \in Clients, Alone(c)'
  PROVE  (\A d \in Clients : Alone(d))'
BY DEF SoleCaller

LEMMA AloneSend ==
  ASSUME AloneInv, SoleCaller, NEW c \in Clients, NEW kind \in Kinds, SendCommand(c, kind)
  PROVE  AnswerIsOwn' /\ Alone(c)'
<1>1. /\ asked' = Append(asked, [client |-> c, kind |-> kind]) /\ answer' = answer
      /\ refused' = refused /\ connected' = connected /\ endpoint' = endpoint
      /\ current' = [current EXCEPT ![c] = Len(asked')] /\ pc' = [pc EXCEPT ![c] = "write"]
      /\ commands' = Append(commands, Len(asked')) \/ commands' = commands
      /\ pc[c] = "idle"
  BY DEF SendCommand
<1>2. Len(asked') = Len(asked) + 1 /\ Len(asked) \in Nat
  BY <1>1, OneMore DEF AloneInv, IInv
<1>3. AnswerIsOwn'
  BY <1>1, KeepsAnswers
<1>4. commands = <<>> /\ endpoint = <<>> /\ connected /\ answer[c].request \in 0 .. Len(asked)
      /\ (answer[c].result = "OK" => answer[c].request > 0)
  BY <1>1 DEF AloneInv, Alone
<1>5. commands' = <<Len(asked')>> \/ commands' = <<>>
  BY <1>1, <1>4
<1>6. current'[c] = Len(asked') /\ pc'[c] = "write"
  BY <1>1 DEF AloneInv, IInv, Types
<1>7. Alone(c)'
  BY <1>1, <1>2, <1>4, <1>5, <1>6 DEF Alone
<1> QED
  BY <1>3, <1>7

\* The first transfer brings the whole answer, or the timeout ends because none
\* comes.
LEMMA FirstAlone ==
  ASSUME AloneInv, Prompt, NEW c \in Clients, FirstTransfer(c)
  PROVE  /\ pc[c] = "first" /\ UNCHANGED <<asked, answer, connected, current, refused>>
         /\ commands' = <<>> /\ endpoint' = <<>>
         /\ \/ endpoint = <<>> /\ pc'[c] = "second"
            \/ /\ endpoint = <<current[c]>> /\ pc'[c] = "ready"
               /\ rxSize' = Size(Kind(current[c]))
               /\ \A i \in Cells(Size(Kind(current[c]))) : buf'[i] = <<current[c], i>>
<1> DEFINE r == current[c]
           size == Size(Kind(r))
<1>1. /\ r \in Made /\ pc[c] = "first" /\ r = Len(asked) /\ answer[c].request < r /\ connected
      /\ answer[c].request \in 0 .. Len(asked)
      /\ answer[c].result = "OK" => answer[c].request > 0
  BY DEF AloneInv, Alone, IInv, Calls, FirstTransfer
<1>2. size \in Nat /\ size >= 3 /\ size <= MaxSize /\ MaxSize \in Nat /\ Len(asked) \in Nat
  BY <1>1, Numbers DEF AloneInv, MaxSize
<1>3. CASE TimesOut /\ UNCHANGED buf /\ FirstBrought(c, 0)
  <2>1. endpoint = <<>> /\ commands = <<>> /\ endpoint' = <<>> /\ commands' = <<>> /\ refused' = refused
    BY <1>3 DEF TimesOut, Prompt, wire
  <2>2. /\ asked' = asked /\ answer' = answer /\ connected' = connected /\ current' = current
        /\ pc'[c] = "second"
    BY <1>2, <1>3 DEF FirstBrought, shared, AloneInv, IInv, Types
  <2> QED
    BY <1>1, <2>1, <2>2
<1>4. CASE \E n \in 0 .. MaxSize, done \in BOOLEAN :
          /\ Transfers(size, n, done)
          /\ buf' = Store(buf, 0, n, Answer(Head(endpoint)))
          /\ FirstBrought(c, n)
  <2>1. PICK n \in 0 .. MaxSize, done \in BOOLEAN :
          /\ Transfers(size, n, done)
          /\ buf' = Store(buf, 0, n, Answer(Head(endpoint)))
          /\ FirstBrought(c, n)
    BY <1>4
  <2>2. endpoint = <<r>> /\ commands = <<>>
    BY <1>1, <2>1 DEF AloneInv, Alone, Transfers
  <2>3. Head(endpoint) = r /\ Tail(endpoint) = <<>>
    BY <2>2
  <2>4. n = size /\ endpoint' = <<>> /\ commands' = <<>> /\ refused' = refused
    BY <1>2, <2>1, <2>2, <2>3 DEF Transfers
  <2>5. /\ asked' = asked /\ answer' = answer /\ connected' = connected /\ current' = current
        /\ pc'[c] = "ready" /\ rxSize' = size
    BY <2>1, <2>4 DEF FirstBrought, SizeAfterFirst, shared, AloneInv, IInv, Types
  <2>6. \A i \in Cells(size) : buf'[i] = <<r, i>>
    <3> SUFFICES ASSUME NEW i \in Cells(size)
                 PROVE  buf'[i] = <<r, i>>
      OBVIOUS
    <3>1. DOMAIN buf = Cells(2 * MaxSize)
      BY DEF AloneInv, IInv, Types
    <3>2. i \in Cells(2 * MaxSize) /\ i \in 0 .. 0 + size - 1 /\ i - 0 = i
      BY <1>2 DEF Cells
    <3> HIDE DEF size, r
    <3>3. buf' = Store(buf, 0, size, Answer(r))
      BY <2>1, <2>3, <2>4
    <3>4. buf'[i] = Answer(r)[i]
      BY <3>1, <3>2, <3>3 DEF Store
    <3> QED
      BY <3>4 DEF Answer, size
  <2> QED
    BY <1>1, <2>2, <2>4, <2>5, <2>6
<1> QED
  BY <1>3, <1>4 DEF FirstTransfer

LEMMA AloneFirst ==
  ASSUME AloneInv, SoleCaller, Prompt, NEW c \in Clients, FirstTransfer(c)
  PROVE  AnswerIsOwn' /\ Alone(c)'
<1>1. /\ pc[c] = "first" /\ UNCHANGED <<asked, answer, connected, current, refused>>
      /\ commands' = <<>> /\ endpoint' = <<>>
      /\ \/ pc'[c] = "second"
         \/ /\ pc'[c] = "ready" /\ rxSize' = Size(Kind(current[c]))
            /\ \A i \in Cells(Size(Kind(current[c]))) : buf'[i] = <<current[c], i>>
  BY FirstAlone
<1>2. AnswerIsOwn'
  BY <1>1, KeepsAnswers
<1>3. /\ current[c] = Len(asked) /\ answer[c].request < current[c] /\ connected
      /\ answer[c].request \in 0 .. Len(asked)
      /\ answer[c].result = "OK" => answer[c].request > 0
  BY <1>1 DEF AloneInv, Alone
<1>4. Alone(c)'
  BY <1>1, <1>3 DEF Alone, Kind
<1> QED
  BY <1>2, <1>4

\* The second one finds nothing: the answer has been fetched or never comes.
LEMMA SecondAlone ==
  ASSUME AloneInv, Prompt, NEW c \in Clients, SecondTransfer(c)
  PROVE  /\ pc[c] = "second" /\ connected /\ endpoint = <<>> /\ pc'[c] = "idle"
         /\ UNCHANGED <<asked, connected, endpoint, commands, refused, current>>
         /\ answer'[c] = [result |-> "TIMEOUT", request |-> current[c], data |-> NoData]
<1>1. pc[c] = "second" /\ endpoint = <<>> /\ commands = <<>> /\ connected
  BY DEF AloneInv, Alone, SecondTransfer
<1>2. TimesOut /\ SecondBrought(c, 0, FALSE)
  BY <1>1 DEF SecondTransfer, Transfers
<1>3. UNCHANGED <<asked, connected, endpoint, commands, refused>>
  BY <1>1, <1>2 DEF SecondBrought, TimesOut, wire
<1>4. /\ answer'[c] = [result |-> "TIMEOUT", request |-> current[c], data |-> NoData]
      /\ pc'[c] = "idle" /\ current' = current
  BY <1>2 DEF SecondBrought, Return, AloneInv, IInv, Types
<1> QED
  BY <1>1, <1>3, <1>4

LEMMA AloneSecond ==
  ASSUME AloneInv, SoleCaller, Prompt, NEW c \in Clients, SecondTransfer(c)
  PROVE  AnswerIsOwn' /\ Alone(c)'
<1>1. /\ pc[c] = "second" /\ connected /\ pc'[c] = "idle"
      /\ UNCHANGED <<asked, connected, endpoint, commands, refused, current>>
      /\ answer'[c] = [result |-> "TIMEOUT", request |-> current[c], data |-> NoData]
  BY SecondAlone
<1>2. AnswerIsOwn'
  <2> SUFFICES ASSUME NEW d \in Clients
               PROVE  answer'[d].result = "TIMEOUT"
    BY DEF AnswerIsOwn
  <2> QED
    BY <1>1 DEF SoleCaller
<1>3. endpoint = <<>> /\ commands = <<>> /\ current[c] = Len(asked) /\ Len(asked) \in Nat
  BY <1>1 DEF AloneInv, Alone, IInv, Types
<1>4. Alone(c)'
  BY <1>1, <1>3 DEF Alone
<1> QED
  BY <1>2, <1>4

\* What is read is the answer to the request.
LEMMA DeliverAlone ==
  ASSUME AloneInv, NEW c \in Clients, Deliver(c)
  PROVE  /\ current[c] \in Made /\ pc[c] = "ready" /\ connected /\ current[c] = Len(asked)
         /\ endpoint = <<>> /\ commands = <<>> /\ pc'[c] = "idle"
         /\ UNCHANGED <<asked, connected, endpoint, commands, refused, current>>
         /\ \/ /\ current[c] \in refused
               /\ answer'[c] = [result |-> "RXERR", request |-> current[c], data |-> NoData]
            \/ /\ current[c] \notin refused
               /\ answer'[c] = [result |-> "OK", request |-> current[c],
                                data |-> Answer(current[c])]
<1> DEFINE r == current[c]
           size == Size(Kind(r))
           n == CopiedBytes(rxSize, size)
           data == [i \in Cells(size) |-> IF i < n THEN buf[i] ELSE Junk]
<1>1. /\ r \in Made /\ pc[c] = "ready" /\ r = Len(asked) /\ connected
      /\ endpoint = <<>> /\ commands = <<>> /\ rxSize = size
      /\ \A i \in Cells(size) : buf[i] = <<r, i>>
  BY DEF AloneInv, Alone, IInv, Calls, Deliver
<1>2. size \in Nat /\ size >= 3 /\ r \in Nat /\ r > 0
  BY <1>1, Numbers DEF AloneInv, Made
<1>3. n = size
  BY <1>1, <1>2 DEF CopiedBytes
<1>4. \A i \in Cells(size) : i < n
  BY <1>2, <1>3 DEF Cells
<1>5. data = Answer(r)
  <2>1. \A i \in Cells(size) : (IF i < n THEN buf[i] ELSE Junk) = <<r, i>>
    <3> HIDE DEF n, size, r
    <3> SUFFICES ASSUME NEW i \in Cells(size)
                 PROVE  (IF i < n THEN buf[i] ELSE Junk) = <<r, i>>
      BY Zenon
    <3>1. i < n /\ buf[i] = <<r, i>>
      BY <1>1, <1>4
    <3> QED
      BY <3>1
  <2> QED
    BY <2>1 DEF Answer
<1>6. 0 \in Cells(size) /\ data[0] = <<r, 0>>
  BY <1>2, <1>5 DEF Answer, Cells
<1>7. data[0] # Junk /\ data[0][1] = r /\ data[0][2] = 0
  BY <1>2, <1>6 DEF Junk
<1>8. /\ asked' = asked /\ connected' = connected /\ endpoint' = <<>> /\ commands' = <<>>
      /\ refused' = refused
  BY <1>1 DEF Deliver, wire
<1>9. \/ r \in refused /\ Return(c, "RXERR", NoData)
      \/ r \notin refused /\ Return(c, "OK", data)
  <2> HIDE DEF data
  <2>1. \/ (data[0] = Junk \/ data[0][2] # 0) /\ Return(c, "INVALID", NoData)
        \/ (data[0] = Junk \/ data[0][1] \in refused) /\ Return(c, "RXERR", NoData)
        \/ data[0][2] = 0 /\ data[0][1] \notin refused /\ Return(c, "OK", data)
    BY Zenon DEF Deliver, data, n, size, r
  <2> QED
    BY <1>7, <2>1
<1>10. /\ \/ r \in refused /\ answer'[c] = [result |-> "RXERR", request |-> r, data |-> NoData]
          \/ r \notin refused /\ answer'[c] = [result |-> "OK", request |-> r, data |-> data]
       /\ pc'[c] = "idle" /\ current' = current
  <2> HIDE DEF data
  <2> QED
    BY <1>9 DEF Return, AloneInv, IInv, Types
<1> QED
  <2> HIDE DEF data
  <2> QED
    BY <1>1, <1>5, <1>8, <1>10

LEMMA AloneDeliver ==
  ASSUME AloneInv, SoleCaller, NEW c \in Clients, Deliver(c)
  PROVE  AnswerIsOwn' /\ Alone(c)'
<1> DEFINE r == current[c]
<1>1. /\ r \in Made /\ pc[c] = "ready" /\ connected /\ r = Len(asked)
      /\ endpoint = <<>> /\ commands = <<>> /\ pc'[c] = "idle"
      /\ UNCHANGED <<asked, connected, endpoint, commands, refused, current>>
      /\ \/ r \in refused /\ answer'[c] = [result |-> "RXERR", request |-> r, data |-> NoData]
         \/ r \notin refused /\ answer'[c] = [result |-> "OK", request |-> r, data |-> Answer(r)]
  BY DeliverAlone
<1>2. Answer(r)' = Answer(r)
  BY <1>1 DEF Answer, Kind
<1>3. AnswerIsOwn'
  <2> HIDE DEF r
  <2> SUFFICES /\ answer'[c].result = "OK" =>
                    answer'[c].data = Answer(answer[c].request)' /\ answer'[c].request \notin refused'
               /\ answer'[c].result = "RXERR" => answer'[c].request \in refused'
               /\ answer'[c].result # "INVALID"
    BY DEF AnswerIsOwn, SoleCaller
  <2>1. CASE r \in refused /\ answer'[c] = [result |-> "RXERR", request |-> r, data |-> NoData]
    BY <1>1, <2>1
  <2>2. CASE r \notin refused /\ answer'[c] = [result |-> "OK", request |-> r, data |-> Answer(r)]
    <3>1. answer'[c].data = Answer(r) /\ answer'[c].request = r /\ answer'[c].result = "OK"
      BY <2>2
    <3>2. Answer(answer[c].request)' = Answer(r)
      BY <1>1, <1>2, <3>1 DEF Answer, Kind
    <3> QED
      BY <1>1, <2>2, <3>1, <3>2
  <2> QED
    BY <1>1, <2>1, <2>2
<1>4. Alone(c)'
  <2>1. answer'[c].request = r /\ Len(asked) \in Nat /\ r > 0
    BY <1>1, Numbers DEF AloneInv, Made
  <2> QED
    BY <1>1, <2>1 DEF Alone
<1> QED
  BY <1>3, <1>4

LEMMA AloneDevice ==
  ASSUME AloneInv, SoleCaller, NEW c \in Clients, DeviceAnswers \/ DeviceIgnores
  PROVE  AnswerIsOwn' /\ Alone(c)'
<1>1. /\ asked' = asked /\ answer' = answer /\ connected' = connected /\ current' = current
      /\ pc' = pc /\ rxSize' = rxSize /\ buf' = buf
      /\ commands # <<>> /\ commands' = Tail(commands)
      /\ endpoint' = endpoint \/ endpoint' = Append(endpoint, Head(commands))
      /\ refused' = refused \/ refused' = refused \cup {Head(commands)}
  BY DEF DeviceAnswers, DeviceIgnores, shared, cache, caller
<1>2. commands = <<current[c]>> /\ endpoint = <<>> /\ pc[c] \in {"write", "sent", "first"}
  BY <1>1 DEF AloneInv, Alone
<1>3. /\ Head(commands) = current[c] /\ commands' = <<>>
      /\ endpoint' = <<>> \/ endpoint' = <<current[c]>>
  BY <1>1, <1>2
<1>4. AnswerIsOwn'
  BY <1>1, <1>2, <1>3, KeepsAnswers
<1>5. Alone(c)'
  BY <1>1, <1>2, <1>3 DEF AloneInv, Alone
<1> QED
  BY <1>4, <1>5

LEMMA AloneStep ==
  ASSUME AloneInv, SoleCaller, Prompt, [Next]_vars
  PROVE  AloneInv'
<1>1. IInv'
  BY OneStep DEF AloneInv
<1> SUFFICES AnswerIsOwn' /\ \A c \in Clients : Alone(c)'
  BY <1>1 DEF AloneInv
<1>2. CASE UNCHANGED vars
  BY <1>2 DEF AloneInv, Alone, AnswerIsOwn, Answer, Kind, vars, shared, wire, cache, caller
<1>3. CASE Clients = {} /\ Next
  BY <1>3 DEF AnswerIsOwn
<1>4. ASSUME NEW c \in Clients, Next
      PROVE  AnswerIsOwn' /\ Alone(c)'
  <2>1. connected
    BY DEF AloneInv, Alone
  <2>2. CASE \E d \in Clients : Client(d)
    <3>1. Client(c)
      BY <2>2 DEF SoleCaller
    <3>2. CASE WriteReturns(c) \/ WaitResponse(c)
      <4>1. /\ asked' = asked /\ answer' = answer /\ refused' = refused /\ connected' = connected
            /\ commands' = commands /\ endpoint' = endpoint /\ current' = current
            /\ pc[c] \in {"write", "sent"} /\ pc'[c] \in {"sent", "first"}
        BY <3>2 DEF WriteReturns, WaitResponse, wire, AloneInv, IInv, Types
      <4>2. AnswerIsOwn'
        BY <4>1, KeepsAnswers
      <4>3. Alone(c)'
        BY <4>1 DEF AloneInv, Alone
      <4> QED
        BY <4>2, <4>3
    <3>3. CASE \E kind \in Kinds : SendCommand(c, kind)
      BY <3>3, AloneSend
    <3> QED
      BY <2>1, <3>1, <3>2, <3>3, AloneFirst, AloneSecond, AloneDeliver
         DEF Client, SendRefused, WaitRefused
  <2>3. CASE DeviceAnswers \/ DeviceIgnores
    BY <2>3, AloneDevice
  <2>4. ~(Disconnect \/ Connect)
    BY <2>1 DEF Disconnect, Connect, Prompt
  <2> QED
    BY <1>4, <2>2, <2>3, <2>4 DEF Next
<1> QED
  <2>1. CASE Next
    BY <1>3, <1>4, <2>1 DEF AnswerIsOwn
  <2> QED
    BY <1>2, <2>1

\* A caller that has the driver for itself gets the answers to its own
\* requests and no others, whatever is lost or refused, as long as no answer
\* outlasts the timeout and nobody reconnects.
THEOREM SoleCallerGetsItsAnswers ==
  ASSUME SoleCaller, Prompt
  PROVE  Spec => []AnswerIsOwn
<1>1. Init => AloneInv
  <2> SUFFICES ASSUME Init PROVE AloneInv
    OBVIOUS
  <2>1. AnswerIsOwn /\ \A c \in Clients : Alone(c)
    BY DEF Init, Quiet, AnswerIsOwn, Alone
  <2> QED
    BY <2>1, InitialState DEF AloneInv
<1>2. AloneInv /\ [Next]_vars => AloneInv'
  BY AloneStep
<1>3. AloneInv => AnswerIsOwn
  BY DEF AloneInv
<1> QED
  BY <1>1, <1>2, <1>3, PTL DEF Spec
-----------------------------------------------------------------------------
\* The exchange a sole caller is in, as RequestSpec sees it: an answer is at
\* the endpoint or in the buffer, and of the outcome only the code and the
\* request count.
Told(c) ==
  [code |-> answer[c].result,
   of |-> IF answer[c].result = "OK" THEN answer[c].request ELSE 0]

LEMMA ServiceView ==
  ASSUME NEW c \in Clients
  PROVE  /\ AnswerIsOwn => OutcomeOf(c) = Told(c)
         /\ AnswerIsOwn' => OutcomeOf(c)' = Told(c)'
         /\ Alone(c) /\ pc[c] \in {"idle", "write", "sent", "first", "second", "ready"} =>
              (Served(c) <=> pc[c] = "ready" \/ endpoint # <<>>)
         /\ Alone(c)' /\ pc'[c] \in {"idle", "write", "sent", "first", "second", "ready"} =>
              (Served(c)' <=> pc'[c] = "ready" \/ endpoint' # <<>>)
<1>1. AnswerIsOwn => OutcomeOf(c) = Told(c)
  BY DEF AnswerIsOwn, OutcomeOf, Told
<1>2. AnswerIsOwn' => OutcomeOf(c)' = Told(c)'
  BY DEF AnswerIsOwn, OutcomeOf, Told
<1>3. ASSUME Alone(c), pc[c] \in {"idle", "write", "sent", "first", "second", "ready"}
      PROVE  Served(c) <=> pc[c] = "ready" \/ endpoint # <<>>
  BY <1>3 DEF Alone, Served
<1>4. ASSUME Alone(c)', pc'[c] \in {"idle", "write", "sent", "first", "second", "ready"}
      PROVE  Served(c)' <=> pc'[c] = "ready" \/ endpoint' # <<>>
  BY <1>4 DEF Alone, Served
<1> QED
  BY <1>1, <1>2, <1>3, <1>4

\* What a step does to the only caller it does to all of them.
LEMMA OneEntry ==
  ASSUME SoleCaller, NEW c \in Clients, NEW f, NEW g, NEW v,
         f = [d \in Clients |-> f[d]], g = [d \in Clients |-> g[d]], g[c] = v
  PROVE  g = [f EXCEPT ![c] = v]
BY DEF SoleCaller

LEMMA SameEntry ==
  ASSUME SoleCaller, NEW c \in Clients, NEW f, NEW g,
         f = [d \in Clients |-> f[d]], g = [d \in Clients |-> g[d]], g[c] = f[c]
  PROVE  g = f
BY DEF SoleCaller

\* The four ways in which a step of the driver may look.
LEMMA ServiceMoves ==
  ASSUME SoleCaller, NEW c \in Clients,
         \/ /\ PendingOf(c) = 0 /\ Len(asked') = Len(asked) + 1
            /\ PendingOf(c)' = Len(asked') /\ ReplyOf(c)' = ReplyOf(c)
            /\ OutcomeOf(c)' = OutcomeOf(c)
         \/ /\ PendingOf(c) # 0 /\ ReplyOf(c) = "none" /\ ReplyOf(c)' \in {"answer", "refusal"}
            /\ asked' = asked /\ PendingOf(c)' = PendingOf(c) /\ OutcomeOf(c)' = OutcomeOf(c)
         \/ /\ PendingOf(c) # 0 /\ PendingOf(c)' = 0 /\ ReplyOf(c)' = "none" /\ asked' = asked
            /\ \/ ReplyOf(c) = "answer" /\ OutcomeOf(c)' = [code |-> "OK", of |-> PendingOf(c)]
               \/ ReplyOf(c) = "refusal" /\ OutcomeOf(c)' = [code |-> "RXERR", of |-> 0]
               \/ ReplyOf(c) = "none" /\ OutcomeOf(c)' = [code |-> "TIMEOUT", of |-> 0]
         \/ /\ asked' = asked /\ PendingOf(c)' = PendingOf(c) /\ ReplyOf(c)' = ReplyOf(c)
            /\ OutcomeOf(c)' = OutcomeOf(c)
  PROVE  Service!Next \/ UNCHANGED Service!vars
<1> DEFINE P == [d \in Clients |-> PendingOf(d)]
           R == [d \in Clients |-> ReplyOf(d)]
           O == [d \in Clients |-> OutcomeOf(d)]
           P1 == [d \in Clients |-> PendingOf(d)']
           R1 == [d \in Clients |-> ReplyOf(d)']
           O1 == [d \in Clients |-> OutcomeOf(d)']
<1>1. /\ P = [d \in Clients |-> P[d]] /\ R = [d \in Clients |-> R[d]] /\ O = [d \in Clients |-> O[d]]
      /\ P1 = [d \in Clients |-> P1[d]] /\ R1 = [d \in Clients |-> R1[d]]
      /\ O1 = [d \in Clients |-> O1[d]]
  BY Zenon
<1>2. /\ P[c] = PendingOf(c) /\ R[c] = ReplyOf(c) /\ O[c] = OutcomeOf(c)
      /\ P1[c] = PendingOf(c)' /\ R1[c] = ReplyOf(c)' /\ O1[c] = OutcomeOf(c)'
  BY Zenon
<1>3. P' = P1 /\ R' = R1 /\ O' = O1
  BY Zenon
<1> HIDE DEF P, R, O, P1, R1, O1
<1>4. /\ P' = [P EXCEPT ![c] = PendingOf(c)'] /\ R' = [R EXCEPT ![c] = ReplyOf(c)']
      /\ O' = [O EXCEPT ![c] = OutcomeOf(c)']
  <2>1. P1 = [P EXCEPT ![c] = PendingOf(c)']
    BY <1>1, <1>2, OneEntry
  <2>2. R1 = [R EXCEPT ![c] = ReplyOf(c)']
    BY <1>1, <1>2, OneEntry
  <2>3. O1 = [O EXCEPT ![c] = OutcomeOf(c)']
    BY <1>1, <1>2, OneEntry
  <2> QED
    BY <1>3, <2>1, <2>2, <2>3
<1>5. /\ PendingOf(c)' = PendingOf(c) => P' = P
      /\ ReplyOf(c)' = ReplyOf(c) => R' = R
      /\ OutcomeOf(c)' = OutcomeOf(c) => O' = O
  <2>1. PendingOf(c)' = PendingOf(c) => P1 = P
    BY <1>1, <1>2, SameEntry
  <2>2. ReplyOf(c)' = ReplyOf(c) => R1 = R
    BY <1>1, <1>2, SameEntry
  <2>3. OutcomeOf(c)' = OutcomeOf(c) => O1 = O
    BY <1>1, <1>2, SameEntry
  <2> QED
    BY <1>3, <2>1, <2>2, <2>3
<1>6. CASE /\ PendingOf(c) = 0 /\ Len(asked') = Len(asked) + 1
           /\ PendingOf(c)' = Len(asked') /\ ReplyOf(c)' = ReplyOf(c)
           /\ OutcomeOf(c)' = OutcomeOf(c)
  <2>1. Service!Call(c)
    BY <1>2, <1>4, <1>5, <1>6, Zenon DEF Service!Call, P, R, O
  <2> QED
    BY <2>1 DEF Service!Next
<1>7. CASE /\ PendingOf(c) # 0 /\ ReplyOf(c) = "none" /\ ReplyOf(c)' \in {"answer", "refusal"}
           /\ asked' = asked /\ PendingOf(c)' = PendingOf(c) /\ OutcomeOf(c)' = OutcomeOf(c)
  <2>1. Service!Serve(c)
    BY <1>2, <1>4, <1>5, <1>7, Zenon DEF Service!Serve, P, R, O
  <2> QED
    BY <2>1 DEF Service!Next
<1>8. CASE /\ PendingOf(c) # 0 /\ PendingOf(c)' = 0 /\ ReplyOf(c)' = "none" /\ asked' = asked
           /\ \/ ReplyOf(c) = "answer" /\ OutcomeOf(c)' = [code |-> "OK", of |-> PendingOf(c)]
              \/ ReplyOf(c) = "refusal" /\ OutcomeOf(c)' = [code |-> "RXERR", of |-> 0]
              \/ ReplyOf(c) = "none" /\ OutcomeOf(c)' = [code |-> "TIMEOUT", of |-> 0]
  <2>1. Service!Return(c)
    BY <1>2, <1>4, <1>8, Zenon DEF Service!Return, Service!Ended, P, R, O
  <2> QED
    BY <2>1 DEF Service!Next
<1>9. CASE /\ asked' = asked /\ PendingOf(c)' = PendingOf(c) /\ ReplyOf(c)' = ReplyOf(c)
           /\ OutcomeOf(c)' = OutcomeOf(c)
  BY <1>5, <1>9, Zenon DEF Service!vars, P, R, O
<1> QED
  BY <1>6, <1>7, <1>8, <1>9

\* The steps of a driver with one caller are those of RequestSpec, or unseen.
LEMMA ServiceStep ==
  ASSUME AloneInv, AloneInv', SoleCaller, Prompt, NEW c \in Clients, Next
  PROVE  Service!Next \/ UNCHANGED Service!vars
<1>1. /\ Alone(c) /\ Alone(c)' /\ connected
      /\ pc[c] \in {"idle", "write", "sent", "first", "second", "ready"}
      /\ pc'[c] \in {"idle", "write", "sent", "first", "second", "ready"}
      /\ pc[c] # "idle" => current[c] # 0
  <2>1. Len(asked) \in Nat /\ 0 \notin Made
    BY DEF Made, AloneInv, IInv, Types
  <2> QED
    BY <2>1 DEF AloneInv, Alone, IInv, Types, Calls
<1>2. /\ OutcomeOf(c) = Told(c) /\ OutcomeOf(c)' = Told(c)'
      /\ Served(c) <=> pc[c] = "ready" \/ endpoint # <<>>
      /\ Served(c)' <=> pc'[c] = "ready" \/ endpoint' # <<>>
  BY <1>1, ServiceView DEF AloneInv
<1>3. CASE \E kind \in Kinds : SendCommand(c, kind)
  <2>1. /\ pc[c] = "idle" /\ pc'[c] = "write" /\ current'[c] = Len(asked')
        /\ Len(asked') = Len(asked) + 1 /\ UNCHANGED <<endpoint, answer>>
    BY <1>3, OneMore DEF SendCommand, AloneInv, IInv, Types
  <2>2. endpoint = <<>>
    BY <1>1, <2>1 DEF Alone
  <2> QED
    BY <1>2, <2>1, <2>2, ServiceMoves DEF PendingOf, ReplyOf, Told
<1>4. CASE WriteReturns(c) \/ WaitResponse(c)
  <2>1. /\ pc[c] \in {"write", "sent"} /\ pc'[c] \in {"sent", "first"}
        /\ UNCHANGED <<asked, endpoint, refused, current, answer>>
    BY <1>4 DEF WriteReturns, WaitResponse, wire, AloneInv, IInv, Types
  <2> QED
    BY <1>2, <2>1, ServiceMoves DEF PendingOf, ReplyOf, Told
<1>5. CASE FirstTransfer(c)
  <2>1. /\ pc[c] = "first" /\ pc'[c] # "idle"
        /\ UNCHANGED <<asked, answer, current, refused>>
        /\ endpoint' = <<>> /\ (endpoint # <<>> <=> pc'[c] = "ready")
    BY <1>5, FirstAlone
  <2> QED
    BY <1>2, <2>1, ServiceMoves DEF PendingOf, ReplyOf, Told
<1>6. CASE SecondTransfer(c)
  <2>1. /\ pc[c] = "second" /\ pc'[c] = "idle" /\ endpoint = <<>> /\ asked' = asked
        /\ endpoint' = <<>>
        /\ answer'[c] = [result |-> "TIMEOUT", request |-> current[c], data |-> NoData]
    BY <1>6, SecondAlone
  <2>2. Told(c)' = [code |-> "TIMEOUT", of |-> 0]
    BY <2>1 DEF Told
  <2> QED
    BY <1>1, <1>2, <2>1, <2>2, ServiceMoves DEF PendingOf, ReplyOf
<1>7. CASE Deliver(c)
  <2>1. /\ pc[c] = "ready" /\ pc'[c] = "idle" /\ asked' = asked /\ endpoint' = <<>>
        /\ \/ /\ current[c] \in refused
              /\ answer'[c] = [result |-> "RXERR", request |-> current[c], data |-> NoData]
           \/ /\ current[c] \notin refused
              /\ answer'[c] = [result |-> "OK", request |-> current[c], data |-> Answer(current[c])]
    BY <1>7, DeliverAlone
  <2>2. \/ current[c] \in refused /\ Told(c)' = [code |-> "RXERR", of |-> 0]
        \/ current[c] \notin refused /\ Told(c)' = [code |-> "OK", of |-> current[c]]
    BY <2>1 DEF Told
  <2> QED
    BY <1>1, <1>2, <2>1, <2>2, ServiceMoves DEF PendingOf, ReplyOf
<1>8. CASE DeviceAnswers \/ DeviceIgnores
  <2>1. /\ UNCHANGED <<asked, pc, current, answer>> /\ commands # <<>>
        /\ \/ endpoint' = endpoint /\ refused' = refused
           \/ endpoint' = Append(endpoint, Head(commands))
    BY <1>8 DEF DeviceAnswers, DeviceIgnores, caller
  <2>2. pc[c] \in {"write", "sent", "first"} /\ endpoint = <<>>
    BY <1>1, <2>1 DEF Alone
  <2>3. /\ PendingOf(c) # 0 /\ PendingOf(c)' = PendingOf(c) /\ Told(c)' = Told(c)
        /\ ReplyOf(c) = "none"
    BY <1>1, <1>2, <2>1, <2>2 DEF PendingOf, Told, ReplyOf
  <2>4. ReplyOf(c)' \in {"none", "answer", "refusal"}
    BY DEF ReplyOf
  <2> QED
    BY <1>2, <2>1, <2>3, <2>4, ServiceMoves
<1>9. ~(Disconnect \/ Connect \/ SendRefused(c) \/ WaitRefused(c))
  BY <1>1 DEF Disconnect, Connect, SendRefused, WaitRefused, Prompt
<1>10. (\E d \in Clients : Client(d)) => Client(c)
  BY DEF SoleCaller
<1> QED
  BY <1>3, <1>4, <1>5, <1>6, <1>7, <1>8, <1>9, <1>10 DEF Next, Client

\* Idle clients see nothing of what happens to the connection.
LEMMA ServiceRests ==
  ASSUME UNCHANGED <<asked, pc, current, answer>>,
         \/ endpoint' = endpoint /\ refused' = refused
         \/ \A c \in Clients : pc[c] = "idle"
  PROVE  UNCHANGED Service!vars
<1>1. \A c \in Clients : PendingOf(c)' = PendingOf(c)
  BY DEF PendingOf
<1>2. \A c \in Clients : ReplyOf(c)' = ReplyOf(c)
  BY DEF ReplyOf, Served
<1>3. \A c \in Clients : OutcomeOf(c)' = OutcomeOf(c)
  BY DEF OutcomeOf, Answer, Kind
<1> QED
  BY <1>1, <1>2, <1>3 DEF Service!vars

LEMMA ServiceBegins == Quiet => Service!Init
<1> SUFFICES ASSUME Quiet
             PROVE  Service!Init
  OBVIOUS
<1>1. Len(asked) = 0
  BY DEF Quiet
<1>2. ASSUME NEW c \in Clients
      PROVE  /\ PendingOf(c) = 0 /\ ReplyOf(c) = "none"
             /\ OutcomeOf(c) = [code |-> "none", of |-> 0]
  BY DEF Quiet, PendingOf, ReplyOf, Served, OutcomeOf
<1> QED
  BY <1>1, <1>2 DEF Service!Init

\* A caller that has the driver for itself is told what became of its request:
\* the answer that came in time, the device's refusal, or that neither came.  As
\* no answer outlasts the timeout, it is the first transfer that brings it.
THEOREM SoleCallerIsServed ==
  ASSUME SoleCaller, Prompt
  PROVE  Spec => ImplementsRequestSpec
<1>1. Init => AloneInv /\ Service!Init
  <2> SUFFICES ASSUME Init PROVE AloneInv /\ Service!Init
    OBVIOUS
  <2>1. AnswerIsOwn /\ \A c \in Clients : Alone(c)
    BY DEF Init, Quiet, AnswerIsOwn, Alone
  <2> QED
    BY <2>1, InitialState, ServiceBegins DEF AloneInv, Init
<1>2. AloneInv /\ [Next]_vars => AloneInv'
  BY AloneStep
<1>3. AloneInv /\ AloneInv' /\ [Next]_vars => [Service!Next]_(Service!vars)
  <2> SUFFICES ASSUME AloneInv, AloneInv', [Next]_vars
               PROVE  Service!Next \/ UNCHANGED Service!vars
    OBVIOUS
  <2>1. CASE UNCHANGED vars
    BY <2>1, ServiceRests DEF vars, wire, caller
  <2>2. CASE Next /\ Clients = {}
    BY <2>2, ServiceRests
       DEF Next, DeviceAnswers, DeviceIgnores, Disconnect, Connect, caller
  <2>3. CASE Next /\ Clients # {}
    BY <2>3, ServiceStep
  <2> QED
    BY <2>1, <2>2, <2>3
<1> QED
  BY <1>1, <1>2, <1>3, PTL DEF Spec, ImplementsRequestSpec, Service!Spec
=============================================================================
