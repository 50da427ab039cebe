---------------------------- MODULE UsbRxProofs ----------------------------
(***************************************************************************)
(* Theorems about UsbRx, for buffers, answers and packets of any size.     *)
(***************************************************************************)
EXTENDS UsbRx, SequenceTheorems, TLAPS

\* A transfer changes exactly the positions it covers (hal: libusb fills
\* _rx_buffer from the given position on).
LEMMA StoreEffect ==
  ASSUME NEW buf0, NEW N \in Nat, buf0 \in [Cells(N) -> Nat],
         NEW at \in Nat, NEW n \in Nat,
         NEW bytes, \A j \in Cells(n) : bytes[j] \in Nat
  PROVE  /\ Store(buf0, at, n, bytes) \in [Cells(N) -> Nat]
         /\ \A i \in Cells(N) :
               /\ i \in at .. at + n - 1 => Store(buf0, at, n, bytes)[i] = bytes[i - at]
               /\ i \notin at .. at + n - 1 => Store(buf0, at, n, bytes)[i] = buf0[i]
  <1>1. DOMAIN buf0 = Cells(N)
    OBVIOUS
  <1>2. ASSUME NEW i \in Cells(N), i \in at .. at + n - 1
        PROVE  bytes[i - at] \in Nat
    <2>1. i - at \in Cells(n)
      BY <1>2 DEF Cells
    <2>2. QED
      BY <2>1
  <1>3. QED
    BY <1>1, <1>2 DEF Store
-----------------------------------------------------------------------------
\* The part of the type invariant the theorems need.
RxTypes ==
  /\ buf \in [Cells(MaxRx) -> Nat]
  /\ rxSize \in Nat
  /\ queue \in Seq(1 .. MaxPacket)
  /\ taken \in Nat /\ base \in Nat /\ ready \in Nat /\ second \in Nat
  /\ phase \in {"idle", "first", "second", "ready", "failed", "read", "overrun"}
  /\ size \in Nat
  /\ phase \in {"first", "second", "ready"} => size \in Sizes /\ size <= MaxRx

\* The first n bytes of the buffer are the next n of the stream.
Prefix(n) == \A i \in Cells(n) : buf[i] = base + 1 + i

\* What each phase knows.  The buffer never holds a byte that has not left the
\* endpoint, so before the first transfer everything in it is old.
RxInv ==
  /\ \A i \in Cells(MaxRx) : buf[i] <= taken
  /\ phase = "first" => taken = base /\ ready = 0
  /\ phase = "second" =>
        /\ ready < size
        /\ ready > 0 => taken = base + ready /\ Prefix(ready)
        /\ ready = 0 => buf[0] <= base
  /\ phase = "ready" =>
        /\ ready > 0 => buf[0] = base + 1
        /\ ready = 0 => buf[0] <= base
        /\ ServedWhole => rxSize = size /\ Prefix(size)
  /\ WholeAnswerIsRead
  /\ FirstByteIsFresh

\* A size the caller asks for is a positive number.
LEMMA SizeFacts ==
  ASSUME NEW n \in Sizes
  PROVE  n \in Nat /\ n > 0 /\ MaxRx \in Nat
  BY RxAssumption DEF RxAssumption

\* A packet that waits at the endpoint has bytes.
LEMMA HeadFacts ==
  ASSUME RxTypes, queue # <<>>
  PROVE  Head(queue) \in Nat /\ Head(queue) > 0
  <1>1. Head(queue) \in 1 .. MaxPacket
    BY HeadTailProperties DEF RxTypes
  <1>2. QED
    BY <1>1, RxAssumption DEF RxAssumption

LEMMA FirstCell ==
  ASSUME NEW n \in Nat, n > 0
  PROVE  0 \in Cells(n)
  BY DEF Cells

\* What a transfer of n bytes of the packet at the head does to the buffer.
LEMMA PacketStored ==
  ASSUME RxTypes, NEW at \in Nat, NEW n \in Nat, queue # <<>>, n <= Head(queue)
  PROVE  /\ Head(queue) \in Nat /\ Head(queue) > 0
         /\ Tail(queue) \in Seq(1 .. MaxPacket)
         /\ Store(buf, at, n, Packet) \in [Cells(MaxRx) -> Nat]
         /\ \A i \in Cells(MaxRx) :
               /\ i \in at .. at + n - 1 =>
                     Store(buf, at, n, Packet)[i] = taken + 1 + (i - at)
               /\ i \notin at .. at + n - 1 => Store(buf, at, n, Packet)[i] = buf[i]
  <1>1. Head(queue) \in 1 .. MaxPacket /\ Tail(queue) \in Seq(1 .. MaxPacket)
    BY HeadTailProperties DEF RxTypes
  <1>2. Head(queue) \in Nat /\ Head(queue) > 0 /\ MaxRx \in Nat
    BY <1>1, RxAssumption DEF RxAssumption
  <1>3. \A j \in Cells(n) : Packet[j] = taken + 1 + j
    BY <1>2 DEF Packet, Cells
  <1>4. \A j \in Cells(n) : Packet[j] \in Nat
    BY <1>3 DEF RxTypes, Cells
  <1>5. \A i \in Cells(MaxRx) :
           /\ i \in at .. at + n - 1 => Store(buf, at, n, Packet)[i] = Packet[i - at]
           /\ i \notin at .. at + n - 1 => Store(buf, at, n, Packet)[i] = buf[i]
    BY <1>2, <1>4, StoreEffect DEF RxTypes
  <1>6. ASSUME NEW i \in Cells(MaxRx), i \in at .. at + n - 1
        PROVE  i - at \in Cells(n)
    BY <1>2, <1>6 DEF Cells
  <1>7. Store(buf, at, n, Packet) \in [Cells(MaxRx) -> Nat]
    BY <1>2, <1>4, StoreEffect DEF RxTypes
  <1>8. QED
    BY <1>1, <1>2, <1>3, <1>5, <1>6, <1>7

\* The first transfer of n bytes, of a packet or of an overflowing one.
LEMMA FirstStores ==
  ASSUME RxTypes, RxInv, phase = "first", NEW n \in Nat, n <= size, n <= Head(queue),
         queue # <<>>, n = Head(queue) \/ n = 0 \/ n = size,
         buf' = Store(buf, 0, n, Packet), taken' = taken + Head(queue),
         queue' = Tail(queue), FirstBrought(n)
  PROVE  RxTypes' /\ RxInv'
  <1>1. /\ Head(queue) \in Nat /\ Head(queue) > 0
        /\ queue' \in Seq(1 .. MaxPacket)
        /\ buf' \in [Cells(MaxRx) -> Nat]
        /\ \A i \in Cells(MaxRx) :
              /\ i \in 0 .. 0 + n - 1 => buf'[i] = taken + 1 + (i - 0)
              /\ i \notin 0 .. 0 + n - 1 => buf'[i] = buf[i]
    BY PacketStored
  <1>0. /\ base' = base /\ size' = size /\ second' = second /\ ready' = n
        /\ UNCHANGED <<copied, count, returned>>
        /\ phase' = IF n = size THEN "ready" ELSE "second"
        /\ rxSize' = IF n = size THEN size ELSE rxSize
    BY DEF FirstBrought, SizeAfterFirst, result
  <1>2. size \in Nat /\ size > 0 /\ size <= MaxRx /\ MaxRx \in Nat /\ size \in Sizes
    BY SizeFacts DEF RxTypes
  <1>3. taken = base /\ taken \in Nat /\ \A i \in Cells(MaxRx) : buf[i] <= taken
    BY DEF RxInv, RxTypes
  <1>4. RxTypes'
    BY <1>0, <1>1, <1>2 DEF RxTypes
  <1>5. \A i \in Cells(MaxRx) : buf'[i] <= taken'
    <2> TAKE i \in Cells(MaxRx)
    <2>1. i \in Nat /\ buf[i] \in Nat
      BY <1>2 DEF Cells, RxTypes
    <2>2. CASE i \in 0 .. 0 + n - 1
      <3>1. buf'[i] = taken + 1 + (i - 0)
        BY <1>1, <2>2
      <3>2. QED
        BY <1>1, <1>3, <2>1, <2>2, <3>1
    <2>3. CASE i \notin 0 .. 0 + n - 1
      <3>1. buf'[i] = buf[i]
        BY <1>1, <2>3
      <3>2. QED
        BY <1>1, <1>3, <2>1, <3>1
    <2>4. QED
      BY <2>2, <2>3
  <1>6. \A i \in Cells(n) : buf'[i] = base' + 1 + i
    <2> TAKE i \in Cells(n)
    <2>1. i \in Cells(MaxRx) /\ i \in 0 .. 0 + n - 1 /\ i \in Nat
      BY <1>2 DEF Cells
    <2>2. buf'[i] = taken + 1 + (i - 0)
      BY <1>1, <2>1
    <2>3. QED
      BY <1>0, <1>3, <2>1, <2>2
  <1>7. n = 0 => buf'[0] <= base'
    <2>1. n = 0 => 0 \notin 0 .. 0 + n - 1
      OBVIOUS
    <2>2. 0 \in Cells(MaxRx)
      BY <1>2 DEF Cells
    <2>3. QED
      BY <1>0, <1>1, <1>3, <2>1, <2>2
  <1>8. n > 0 => buf'[0] = base' + 1
    <2>1. n > 0 => 0 \in Cells(n)
      BY DEF Cells
    <2>2. base \in Nat => base + 1 + 0 = base + 1
      OBVIOUS
    <2>3. QED
      BY <1>0, <1>6, <2>1, <2>2 DEF RxTypes
  <1>9. CASE n = size
    <2>1. phase' = "ready" /\ ready' = size' /\ rxSize' = size'
      BY <1>0, <1>9
    <2>2. WholeAnswerIsRead' /\ FirstByteIsFresh'
      BY <2>1 DEF WholeAnswerIsRead, FirstByteIsFresh
    <2>3. Prefix(size)'
      BY <1>0, <1>6, <1>9 DEF Prefix
    <2>4. ready' # 0 /\ buf'[0] = base' + 1
      BY <1>0, <1>2, <1>8, <1>9
    <2>5. QED
      BY <1>4, <1>5, <2>1, <2>2, <2>3, <2>4 DEF RxInv
  <1>10. CASE n # size
    <2>1. phase' = "second" /\ ready' = n /\ n < size /\ (n > 0 => taken' = base' + n)
      BY <1>0, <1>1, <1>2, <1>3, <1>10
    <2>2. WholeAnswerIsRead' /\ FirstByteIsFresh'
      BY <2>1 DEF WholeAnswerIsRead, FirstByteIsFresh
    <2>3. Prefix(n)'
      BY <1>6 DEF Prefix
    <2>4. ready' < size' /\ (ready' > 0 => taken' = base' + ready' /\ Prefix(ready)')
      BY <1>0, <2>1, <1>6 DEF Prefix
    <2>5. QED
      BY <1>0, <1>4, <1>5, <1>7, <2>1, <2>2, <2>4 DEF RxInv
  <1>11. QED
    BY <1>4, <1>9, <1>10

\* The second transfer of n bytes.
LEMMA SecondStores ==
  ASSUME RxTypes, RxInv, phase = "second", NEW n \in Nat, NEW ok \in BOOLEAN,
         n <= Rest(size, ready), n <= Head(queue), queue # <<>>,
         ok => n = Head(queue),
         buf' = Store(buf, Rest(size, ready), n, Packet),
         taken' = taken + Head(queue), queue' = Tail(queue), SecondBrought(n, ok)
  PROVE  RxTypes' /\ RxInv'
  <1> DEFINE room == Rest(size, ready)
  <1>1. size \in Nat /\ size > 0 /\ size <= MaxRx /\ MaxRx \in Nat /\ size \in Sizes
    BY SizeFacts DEF RxTypes
  <1>2. /\ ready \in Nat /\ ready < size /\ taken \in Nat /\ base \in Nat
        /\ \A i \in Cells(MaxRx) : buf[i] <= taken
        /\ ready > 0 => taken = base + ready /\ \A i \in Cells(ready) : buf[i] = base + 1 + i
        /\ ready = 0 => buf[0] <= base
    BY DEF RxInv, RxTypes, Prefix
  <1>3. room \in Nat /\ room > 0 /\ room = size - ready
    BY <1>1, <1>2 DEF Rest
  <1>4. /\ Head(queue) \in Nat /\ Head(queue) > 0
        /\ queue' \in Seq(1 .. MaxPacket)
        /\ buf' \in [Cells(MaxRx) -> Nat]
        /\ \A i \in Cells(MaxRx) :
              /\ i \in room .. room + n - 1 => buf'[i] = taken + 1 + (i - room)
              /\ i \notin room .. room + n - 1 => buf'[i] = buf[i]
    BY <1>3, PacketStored
  <1>5. rxSize' = room + n /\ rxSize' \in Nat
    BY <1>3 DEF SecondBrought, SizeAfterSecond
  <1>12. /\ base' = base /\ size' = size /\ ready' = ready /\ second' = n
         /\ phase' = IF room + n > MaxRx THEN "overrun"
                     ELSE IF ok THEN "ready" ELSE "failed"
         /\ UNCHANGED <<copied, count, returned>>
    BY DEF SecondBrought, result
  <1> HIDE DEF room
  <1>6. RxTypes'
    BY <1>1, <1>2, <1>4, <1>5, <1>12 DEF RxTypes
  <1>7. \A i \in Cells(MaxRx) : buf'[i] <= taken'
    <2> TAKE i \in Cells(MaxRx)
    <2>1. i \in Nat /\ buf[i] \in Nat
      BY <1>1 DEF Cells, RxTypes
    <2>2. CASE i \in room .. room + n - 1
      <3>1. buf'[i] = taken + 1 + (i - room)
        BY <1>4, <2>2
      <3>2. QED
        <4>1. i - room < n
          BY <1>3, <2>1, <2>2
        <4>2. i - room \in Int /\ Head(queue) \in Nat
          BY <1>3, <1>4, <2>1
        <4>3. taken + 1 + (i - room) <= taken + Head(queue)
          BY <1>2, <4>1, <4>2
        <4>4. QED
          BY <3>1, <4>3
    <2>3. CASE i \notin room .. room + n - 1
      <3>1. buf'[i] = buf[i]
        BY <1>4, <2>3
      <3>2. QED
        BY <1>2, <1>4, <2>1, <3>1
    <2>4. QED
      BY <2>2, <2>3
  <1>8. buf'[0] = buf[0]
    BY <1>1, <1>3, <1>4 DEF Cells
  <1>9. ready > 0 => buf'[0] = base + 1
    BY <1>2, <1>8 DEF Cells
  <1>10. ASSUME ok, ServedWhole' PROVE rxSize' = size' /\ Prefix(size)'
    <2>1. n = ready /\ 2 * ready = size /\ ready > 0 /\ room = ready
      BY <1>1, <1>2, <1>3, <1>10, <1>12 DEF ServedWhole
    <2>2. ASSUME NEW i \in Cells(size) PROVE buf'[i] = base + 1 + i
      <3>1. i \in Cells(MaxRx) /\ i \in Nat
        BY <1>1 DEF Cells
      <3>2. CASE i \in Cells(ready)
        BY <1>2, <1>4, <2>1, <3>1, <3>2 DEF Cells
      <3>3. CASE i \notin Cells(ready)
        BY <1>1, <1>2, <1>4, <2>1, <3>1, <3>3 DEF Cells
      <3>4. QED
        BY <3>2, <3>3
    <2>3. QED
      BY <1>1, <1>5, <1>12, <2>1, <2>2 DEF Prefix
  <1>13. RxInv'
    BY <1>2, <1>7, <1>8, <1>9, <1>10, <1>12
    DEF RxInv, WholeAnswerIsRead, FirstByteIsFresh
  <1>14. QED
    BY <1>6, <1>13

\* A transfer that timed out brings nothing.
LEMMA NothingStored ==
  ASSUME RxTypes, RxInv, TimesOut,
         \/ phase = "first" /\ FirstBrought(0)
         \/ phase = "second" /\ SecondBrought(0, FALSE)
  PROVE  RxTypes' /\ RxInv'
  <1>0. size \in Sizes /\ size <= MaxRx
    BY DEF RxTypes
  <1>1. size \in Nat /\ size > 0 /\ size \in Sizes /\ size # 0 /\ size <= MaxRx
    BY <1>0, SizeFacts
  <1>2. UNCHANGED <<buf, taken, queue, base, size, copied, count, returned>>
    BY DEF TimesOut, device, FirstBrought, SecondBrought, result
  <1>3. CASE phase = "first" /\ FirstBrought(0)
    <2>1. phase' = "second" /\ ready' = 0 /\ UNCHANGED <<second, rxSize>>
      BY <1>1, <1>3 DEF FirstBrought
    <2>2. buf[0] <= base
      BY <1>1, <1>3, SizeFacts DEF RxInv, Cells
    <2>3. QED
      BY <1>1, <1>2, <2>1, <2>2
      DEF RxTypes, RxInv, Prefix, WholeAnswerIsRead, FirstByteIsFresh
  <1>4. CASE phase = "second" /\ SecondBrought(0, FALSE)
    <2>1. phase' \in {"failed", "overrun"} /\ ready' = ready /\ second' = 0
      BY <1>4 DEF SecondBrought
    <2>2. rxSize' \in Nat
      <3>1. ready \in Nat /\ ready < size
        BY <1>4 DEF RxInv, RxTypes
      <3>2. QED
        BY <1>1, <1>4, <3>1 DEF SecondBrought, SizeAfterSecond, Rest
    <2>3. QED
      BY <1>1, <1>2, <2>1, <2>2
      DEF RxTypes, RxInv, WholeAnswerIsRead, FirstByteIsFresh
  <1>5. QED
    BY <1>3, <1>4

LEMMA RxInvariant == Spec => [](RxTypes /\ RxInv)
  <1>1. Init => RxTypes /\ RxInv
    <2>1. MaxRx \in Nat
      BY RxAssumption DEF RxAssumption
    <2>2. QED
      BY <2>1 DEF Init, RxTypes, RxInv, WholeAnswerIsRead, FirstByteIsFresh
  <1>2. RxTypes /\ RxInv /\ [Next]_vars => RxTypes' /\ RxInv'
    <2> SUFFICES ASSUME RxTypes, RxInv, [Next]_vars PROVE RxTypes' /\ RxInv'
      OBVIOUS
    <2>1. ASSUME NEW n \in 1 .. MaxPacket, DeviceSends(n) PROVE RxTypes' /\ RxInv'
      <3>1. queue' \in Seq(1 .. MaxPacket)
        BY <2>1 DEF DeviceSends, RxTypes
      <3>2. UNCHANGED <<buf, rxSize, taken, phase, size, ready, second, base,
                        copied, count, returned>>
        BY <2>1 DEF DeviceSends, wait, result
      <3>3. QED
        BY <3>1, <3>2
        DEF RxTypes, RxInv, Prefix, ServedWhole, WholeAnswerIsRead, FirstByteIsFresh
    <2>2. CASE ClearReadCache
      BY <2>2 DEF ClearReadCache, device, wait, result,
                  RxTypes, RxInv, ServedWhole, WholeAnswerIsRead, FirstByteIsFresh
    <2>3. ASSUME NEW n \in Sizes, WaitForData(n) PROVE RxTypes' /\ RxInv'
      BY <2>3, SizeFacts DEF WaitForData, device, result,
                  RxTypes, RxInv, WholeAnswerIsRead, FirstByteIsFresh
    <2>4. CASE FirstTransfer
      <3>0. size \in Nat /\ phase = "first"
        BY <2>4 DEF FirstTransfer, RxTypes
      <3>1. ASSUME Receives(0, size), FirstBrought(Head(queue)) PROVE RxTypes' /\ RxInv'
        <4>1. Head(queue) \in Nat
          BY <3>1, HeadFacts DEF Receives
        <4>2. QED
          BY <3>0, <3>1, <4>1, FirstStores DEF Receives
      <3>2. ASSUME NEW n \in {0, size}, Overflows(0, size, n), FirstBrought(n)
            PROVE  RxTypes' /\ RxInv'
        <4>1. Head(queue) \in Nat /\ n \in Nat
          BY <3>0, <3>2, HeadFacts DEF Overflows
        <4>2. n <= size /\ n <= Head(queue)
          BY <3>0, <3>2, <4>1 DEF Overflows
        <4>3. QED
          BY <3>0, <3>2, <4>1, <4>2, FirstStores DEF Overflows
      <3>3. ASSUME TimesOut, FirstBrought(0) PROVE RxTypes' /\ RxInv'
        BY <3>0, <3>3, NothingStored
      <3>4. QED
        BY <2>4, <3>1, <3>2, <3>3 DEF FirstTransfer
    <2>5. CASE SecondTransfer
      <3> DEFINE room == Rest(size, ready)
      <3>0. phase = "second" /\ room \in Nat
        BY <2>5 DEF SecondTransfer, Rest, RxTypes, RxInv
      <3>1. ASSUME Receives(room, room), SecondBrought(Head(queue), TRUE)
            PROVE  RxTypes' /\ RxInv'
        <4>1. Head(queue) \in Nat
          BY <3>1, HeadFacts DEF Receives
        <4>2. TRUE \in BOOLEAN /\ Head(queue) <= room
          BY <3>1 DEF Receives
        <4>3. /\ queue # <<>> /\ buf' = Store(buf, room, Head(queue), Packet)
              /\ taken' = taken + Head(queue) /\ queue' = Tail(queue)
          BY <3>1 DEF Receives
        <4>4. Head(queue) <= Head(queue)
          BY <4>1
        <4>5. QED
          BY <3>0, <3>1, <4>1, <4>2, <4>3, <4>4, SecondStores, Zenon
      <3>2. ASSUME NEW n \in {0, room}, Overflows(room, room, n), SecondBrought(n, FALSE)
            PROVE  RxTypes' /\ RxInv'
        <4>1. Head(queue) \in Nat /\ n \in Nat
          BY <3>0, <3>2, HeadFacts DEF Overflows
        <4>2. n <= room /\ n <= Head(queue)
          BY <3>0, <3>2, <4>1 DEF Overflows
        <4>3. QED
          BY <3>0, <3>2, <4>1, <4>2, SecondStores DEF Overflows
      <3>3. ASSUME TimesOut, SecondBrought(0, FALSE) PROVE RxTypes' /\ RxInv'
        BY <3>0, <3>3, NothingStored
      <3>4. QED
        BY <2>5, <3>1, <3>2, <3>3 DEF SecondTransfer
    <2>6. CASE GiveUp
      BY <2>6 DEF GiveUp, device, result, RxTypes, RxInv, WholeAnswerIsRead, FirstByteIsFresh
    <2>7. CASE Read
      <3>1. size \in Nat /\ size > 0 /\ size <= MaxRx /\ size \in Sizes
        BY <2>7, SizeFacts DEF Read, RxTypes
      <3>2. phase' = "read" /\ UNCHANGED <<buf, taken, queue, base, size, ready, second>>
        BY <2>7 DEF Read, device
      <3>3. count' \in Nat /\ rxSize' \in Nat
        BY <2>7, <3>1 DEF Read, CopiedBytes, SizeAfterRead, RxTypes
      <3>4. \A i \in Cells(count') : copied'[i] = buf[i]
        BY <2>7 DEF Read
      <3>5. FirstByteIsFresh'
        <4>1. count' > 0 => 0 \in Cells(count')
          BY <3>3, FirstCell
        <4>2. (buf[0] = base + 1) <=> ready > 0
          <5>1. 0 \in Cells(MaxRx)
            BY <3>1, SizeFacts DEF Cells
          <5>2. buf[0] \in Nat /\ base \in Nat /\ ready \in Nat
            BY <5>1 DEF RxTypes
          <5>3. (ready > 0 => buf[0] = base + 1) /\ (ready = 0 => buf[0] <= base)
            BY <2>7 DEF Read, RxInv
          <5>4. QED
            BY <5>2, <5>3
        <4>3. QED
          BY <3>2, <3>4, <4>1, <4>2 DEF FirstByteIsFresh
      <3>6. WholeAnswerIsRead'
        <4>1. ASSUME ServedWhole
              PROVE  /\ count' = size /\ returned' = size
                     /\ \A i \in Cells(size) : copied'[i] = base + 1 + i
          <5>1. rxSize = size /\ \A i \in Cells(size) : buf[i] = base + 1 + i
            BY <2>7, <4>1 DEF Read, RxInv, Prefix
          <5>2. count' = size /\ returned' = size
            BY <2>7, <3>1, <5>1 DEF Read, CopiedBytes, ReadReturn
          <5>3. QED
            BY <3>4, <5>1, <5>2
        <4>2. QED
          BY <3>2, <4>1 DEF WholeAnswerIsRead, ServedWhole
      <3>7. QED
        BY <3>2, <3>3, <3>5, <3>6 DEF RxTypes, RxInv
    <2>8. CASE UNCHANGED vars
      BY <2>8 DEF vars, device, wait, result,
                  RxTypes, RxInv, Prefix, ServedWhole, WholeAnswerIsRead, FirstByteIsFresh
    <2>9. QED
      BY <2>1, <2>2, <2>3, <2>4, <2>5, <2>6, <2>7, <2>8 DEF Next
  <1>3. QED
    BY <1>1, <1>2, PTL DEF Spec

\* A wait that one transfer or two equal halves served gives the reader exactly
\* the next bytes of the stream, for answers, packets and buffers of any size.
THEOREM WholeAnswersAreRead == Spec => []WholeAnswerIsRead
  <1>1. RxInv => WholeAnswerIsRead
    BY DEF RxInv
  <1>2. QED
    BY <1>1, RxInvariant, PTL

\* The byte the driver checks for the sync byte is stale exactly if the first
\* transfer of the wait brought nothing.
THEOREM SyncByteIsFresh == Spec => []FirstByteIsFresh
  <1>1. RxInv => FirstByteIsFresh
    BY DEF RxInv
  <1>2. QED
    BY <1>1, RxInvariant, PTL
-----------------------------------------------------------------------------
\* Where in the stream the packets that wait at the endpoint begin and end: b[i]
\* bytes were sent up to the end of the i-th of them.
Ends(b) ==
  /\ b \in [0 .. Len(queue) -> Nat]
  /\ b[0] = taken /\ b[Len(queue)] = sent
  /\ \A i \in 1 .. Len(queue) : b[i] = b[i - 1] + queue[i]
  /\ \A i, j \in 0 .. Len(queue) : i <= j => b[i] <= b[j]
Waiting == \E b : Ends(b)

\* What RxTypes leaves open of TypeOK: the bounds.
Bounded ==
  /\ Waiting
  /\ rxSize <= 2 * MaxRx
  /\ phase = "overrun" => size <= MaxRx /\ 2 * size > MaxRx
  /\ rxSize > MaxRx <=> phase = "overrun"
  /\ sent <= MaxStream /\ base <= taken
  /\ size \in Sizes \cup {0} /\ ready \in 0 .. size /\ second \in 0 .. size
  /\ count \in 0 .. MaxRx /\ returned \in 0 .. MaxRx
  /\ copied \in [Cells(count) -> 0 .. MaxStream]

\* What waits was sent and has not been taken.
LEMMA NothingFromNowhere ==
  ASSUME RxTypes, Waiting
  PROVE  taken <= sent /\ sent \in Nat
  <1>1. PICK b : Ends(b)
    BY DEF Waiting
  <1>2. Len(queue) \in Nat /\ 0 \in 0 .. Len(queue) /\ Len(queue) \in 0 .. Len(queue)
    BY DEF RxTypes
  <1>3. QED
    BY <1>1, <1>2 DEF Ends

\* The device sends one more packet.
LEMMA PacketArrives ==
  ASSUME RxTypes, Waiting, NEW n \in 1 .. MaxPacket, DeviceSends(n)
  PROVE  Waiting'
  <1>1. PICK b : Ends(b)
    BY DEF Waiting
  <1> DEFINE L == Len(queue)
  <1>2. /\ L \in Nat /\ n \in Nat /\ sent \in Nat /\ taken' = taken /\ sent' = sent + n
        /\ queue' = Append(queue, n) /\ queue \in Seq(1 .. MaxPacket)
    BY NothingFromNowhere, RxAssumption DEF DeviceSends, RxTypes, RxAssumption
  <1>3. Len(queue') = L + 1 /\ queue'[L + 1] = n /\ \A i \in 1 .. L : queue'[i] = queue[i]
    BY <1>2, AppendProperties
  <1> HIDE DEF L
  <1>4. /\ b \in [0 .. L -> Nat] /\ b[0] = taken /\ b[L] = sent
        /\ \A i \in 1 .. L : b[i] = b[i - 1] + queue[i]
        /\ \A i, j \in 0 .. L : i <= j => b[i] <= b[j]
    BY <1>1 DEF Ends, L
  <1>5. PICK c : /\ c \in [0 .. L + 1 -> Nat] /\ c[0] = taken /\ c[L + 1] = sent + n
                 /\ \A i \in 0 .. L : c[i] = b[i]
    <2> DEFINE d == [i \in 0 .. L + 1 |-> IF i = L + 1 THEN sent + n ELSE b[i]]
    <2>1. d \in [0 .. L + 1 -> Nat] /\ d[0] = taken /\ d[L + 1] = sent + n
          /\ \A i \in 0 .. L : d[i] = b[i]
      BY <1>2, <1>4
    <2>2. QED
      BY <2>1
  <1>6. \A i \in 1 .. L + 1 : c[i] = c[i - 1] + queue'[i]
    <2> TAKE i \in 1 .. L + 1
    <2>1. CASE i = L + 1
      <3>1. L \in 0 .. L /\ i - 1 = L
        BY <1>2, <2>1
      <3>2. c[i - 1] = sent /\ c[i] = sent + n /\ queue'[i] = n
        BY <1>3, <1>4, <1>5, <2>1, <3>1
      <3>3. QED
        BY <3>2
    <2>2. CASE i \in 1 .. L
      <3>1. i \in 0 .. L /\ i - 1 \in 0 .. L
        BY <1>2, <2>2
      <3>2. c[i] = b[i] /\ c[i - 1] = b[i - 1] /\ queue'[i] = queue[i]
        BY <1>3, <1>5, <2>2, <3>1
      <3>3. QED
        BY <1>4, <2>2, <3>2
    <2>3. L \in Nat
      BY <1>2
    <2>4. QED
      BY <2>1, <2>2, <2>3
  <1>7. ASSUME NEW i \in 0 .. L + 1, NEW j \in 0 .. L + 1, i <= j
        PROVE  c[i] <= c[j]
    <2>1. L \in 0 .. L /\ \A k \in 0 .. L : c[k] \in Nat /\ c[k] <= sent
      BY <1>2, <1>4, <1>5
    <2>2. CASE j = L + 1
      BY <1>2, <1>5, <1>7, <2>1, <2>2
    <2>3. CASE j \in 0 .. L
      BY <1>2, <1>4, <1>5, <1>7, <2>3
    <2>4. QED
      BY <1>2, <2>2, <2>3
  <1>8. Ends(c)'
    BY <1>2, <1>3, <1>5, <1>6, <1>7 DEF Ends
  <1>9. QED
    BY <1>8 DEF Waiting

\* A transfer takes the packet at the head, whether it has room for it or not.
LEMMA PacketLeaves ==
  ASSUME RxTypes, Waiting, queue # <<>>,
         taken' = taken + Head(queue), queue' = Tail(queue), sent' = sent
  PROVE  Waiting'
  <1>1. PICK b : Ends(b)
    BY DEF Waiting
  <1> DEFINE L == Len(queue)
  <1>2. /\ L \in Nat /\ L >= 1 /\ Head(queue) = queue[1] /\ Len(queue') = L - 1
        /\ \A i \in 1 .. L - 1 : queue'[i] = queue[i + 1]
    BY HeadTailProperties, EmptySeq DEF RxTypes
  <1> HIDE DEF L
  <1>3. /\ b \in [0 .. L -> Nat] /\ b[0] = taken /\ b[L] = sent
        /\ \A i \in 1 .. L : b[i] = b[i - 1] + queue[i]
        /\ \A i, j \in 0 .. L : i <= j => b[i] <= b[j]
    BY <1>1 DEF Ends, L
  <1>4. PICK c : c \in [0 .. L - 1 -> Nat] /\ \A i \in 0 .. L - 1 : c[i] = b[i + 1]
    <2> DEFINE d == [i \in 0 .. L - 1 |-> b[i + 1]]
    <2>1. d \in [0 .. L - 1 -> Nat] /\ \A i \in 0 .. L - 1 : d[i] = b[i + 1]
      BY <1>2, <1>3
    <2>2. QED
      BY <2>1
  <1>5. c[0] = taken' /\ c[L - 1] = sent
    <2>1. 1 \in 1 .. L /\ 0 \in 0 .. L - 1 /\ L - 1 \in 0 .. L - 1 /\ L - 1 + 1 = L /\ 1 - 1 = 0
      BY <1>2
    <2>2. b[1] = b[0] + queue[1] /\ c[0] = b[0 + 1] /\ c[L - 1] = b[L]
      BY <1>3, <1>4, <2>1
    <2>3. QED
      BY <1>2, <1>3, <2>2
  <1>6. \A i \in 1 .. L - 1 : c[i] = c[i - 1] + queue'[i]
    BY <1>2, <1>3, <1>4
  <1>7. \A i, j \in 0 .. L - 1 : i <= j => c[i] <= c[j]
    BY <1>2, <1>3, <1>4
  <1>8. Ends(c)'
    BY <1>2, <1>4, <1>5, <1>6, <1>7 DEF Ends
  <1>9. QED
    BY <1>8 DEF Waiting

\* The bytes of the buffer were sent, all of them.
LEMMA BufferWasSent ==
  ASSUME RxTypes, RxInv, Bounded
  PROVE  \A i \in Cells(MaxRx) : buf[i] \in 0 .. MaxStream
  <1>1. taken <= sent /\ sent \in Nat /\ sent <= MaxStream /\ MaxStream \in Nat /\ taken \in Nat
    BY NothingFromNowhere, RxAssumption DEF Bounded, RxTypes, RxAssumption
  <1>2. \A i \in Cells(MaxRx) : buf[i] \in Nat /\ buf[i] <= taken
    BY DEF RxTypes, RxInv
  <1>3. ASSUME NEW n \in Nat, n <= taken
        PROVE  n \in 0 .. MaxStream
    BY <1>1, <1>3
  <1>4. QED
    BY <1>2, <1>3

LEMMA BoundedStep ==
  ASSUME RxTypes, RxInv, Bounded, [Next]_vars
  PROVE  Bounded'
  <1>1. /\ MaxRx \in Nat /\ MaxStream \in Nat /\ taken \in Nat /\ base \in Nat
        /\ sent \in Nat /\ rxSize \in Nat
        /\ \A n \in Sizes : n \in Nat /\ n > 0
    BY NothingFromNowhere, RxAssumption, SizeFacts DEF RxAssumption, RxTypes, Bounded
  <1>2. /\ size \in Nat /\ ready \in Nat
        /\ phase \in {"first", "second", "ready"} => size <= MaxRx
    BY DEF RxTypes
  <1>3. ASSUME NEW n \in 1 .. MaxPacket, DeviceSends(n) PROVE Bounded'
    <2>1. Waiting'
      BY <1>3, PacketArrives DEF Bounded
    <2>2. sent' <= MaxStream /\ UNCHANGED <<rxSize, phase, taken, size, ready, second, base,
                                             copied, count, returned>>
      BY <1>1, <1>3 DEF DeviceSends, wait, result
    <2>3. QED
      BY <2>1, <2>2 DEF Bounded
  <1>4. CASE ClearReadCache
    <2>1. Waiting' = Waiting
      BY <1>4 DEF ClearReadCache, device, Waiting, Ends
    <2>2. QED
      BY <1>1, <1>4, <2>1 DEF Bounded, ClearReadCache, device, wait, result
  <1>5. ASSUME NEW n \in Sizes, WaitForData(n) PROVE Bounded'
    <2>1. Waiting' = Waiting
      BY <1>5 DEF WaitForData, device, Waiting, Ends
    <2>2. QED
      BY <1>1, <1>5, <2>1 DEF Bounded, WaitForData, device, result
  \* What a transfer takes from the endpoint, if anything.
  <1>6. ASSUME NEW at, NEW room,
               Receives(at, room) \/ (\E n \in {0, room} : Overflows(at, room, n)) \/ TimesOut
        PROVE  Waiting' /\ sent' = sent /\ taken <= taken'
    <2>1. CASE TimesOut
      <3>1. Waiting' = Waiting
        BY <2>1 DEF TimesOut, device, Waiting, Ends
      <3>2. QED
        BY <1>1, <2>1, <3>1 DEF TimesOut, device, Bounded
    <2>2. CASE ~TimesOut
      <3>1. /\ queue # <<>> /\ taken' = taken + Head(queue) /\ queue' = Tail(queue)
            /\ sent' = sent
        BY <1>6, <2>2 DEF Receives, Overflows
      <3>2. QED
        BY <1>1, <3>1, PacketLeaves, HeadFacts DEF Bounded
    <2>3. QED
      BY <2>1, <2>2
  <1>7. CASE FirstTransfer
    <2>1. phase = "first" /\ Waiting' /\ sent' = sent /\ taken <= taken'
      BY <1>6, <1>7 DEF FirstTransfer
    <2>2. PICK n \in Nat : FirstBrought(n) /\ n <= size
      BY <1>2, <1>7, HeadFacts DEF FirstTransfer, Receives
    <2>3. taken' \in Nat
      BY <1>1, <1>7, HeadFacts DEF FirstTransfer, Receives, Overflows, TimesOut
    <2>4. QED
      BY <1>1, <1>2, <2>1, <2>2, <2>3 DEF Bounded, FirstBrought, SizeAfterFirst, result
  <1>8. CASE SecondTransfer
    <2> DEFINE room == Rest(size, ready)
    <2>1. /\ phase = "second" /\ ready \in Nat /\ ready < size
          /\ room \in Nat /\ room = size - ready /\ room <= size
      BY <1>2, <1>8 DEF SecondTransfer, RxInv, RxTypes, Rest
    <2>2. Waiting' /\ sent' = sent /\ taken <= taken'
      BY <1>6, <1>8 DEF SecondTransfer
    <2>3. PICK n \in Nat :
            /\ n <= room /\ second' = n /\ rxSize' = room + n
            /\ phase' = "overrun" <=> room + n > MaxRx
            /\ UNCHANGED <<size, ready, base, copied, count, returned>>
      <3>1. CASE Receives(room, room) /\ SecondBrought(Head(queue), TRUE)
        BY <3>1, HeadFacts DEF Receives, SecondBrought, SizeAfterSecond, result
      <3>2. CASE \E n \in {0, room} : Overflows(room, room, n) /\ SecondBrought(n, FALSE)
        BY <2>1, <3>2 DEF SecondBrought, SizeAfterSecond, result
      <3>3. CASE TimesOut /\ SecondBrought(0, FALSE)
        BY <2>1, <3>3 DEF SecondBrought, SizeAfterSecond, result
      <3> HIDE DEF room
      <3>4. QED
        BY <1>8, <3>1, <3>2, <3>3 DEF SecondTransfer, room
    <2>4. taken' \in Nat
      <3>1. taken' = taken \/ (taken' = taken + Head(queue) /\ queue # <<>>)
        BY <1>8 DEF SecondTransfer, Receives, Overflows, TimesOut
      <3>2. QED
        BY <1>1, <3>1, HeadFacts
    <2> HIDE DEF room
    <2>5. /\ rxSize' <= 2 * MaxRx /\ second' \in 0 .. size
          /\ phase' = "overrun" => size <= MaxRx /\ 2 * size > MaxRx
          /\ rxSize' > MaxRx <=> phase' = "overrun"
      BY <1>1, <1>2, <2>1, <2>3
    <2>6. base' <= taken' /\ sent' <= MaxStream
      BY <1>1, <2>2, <2>3, <2>4 DEF Bounded
    <2>7. QED
      BY <2>2, <2>3, <2>5, <2>6 DEF Bounded
  <1>9. CASE GiveUp
    <2>1. Waiting' = Waiting
      BY <1>9 DEF GiveUp, device, Waiting, Ends
    <2>2. QED
      BY <1>9, <2>1 DEF Bounded, GiveUp, device, result
  <1>10. CASE Read
    <2>1. /\ Waiting' = Waiting
          /\ UNCHANGED <<taken, sent, size, ready, second, base>>
      BY <1>10 DEF Read, device, Waiting, Ends
    <2>2. /\ count' = CopiedBytes(rxSize, size) /\ returned' = ReadReturn(rxSize, size)
          /\ rxSize' = SizeAfterRead(rxSize, size)
          /\ copied' = [i \in Cells(count') |-> buf[i]]
      BY <1>10 DEF Read
    <2>6. phase = "ready" /\ phase' = "read" /\ size <= MaxRx /\ rxSize <= MaxRx
      BY <1>1, <1>2, <1>10 DEF Read, Bounded
    <2>3. /\ rxSize' <= MaxRx /\ rxSize' \in Nat /\ count' \in 0 .. MaxRx /\ returned' \in 0 .. MaxRx
      BY <1>1, <1>2, <2>2, <2>6 DEF CopiedBytes, ReadReturn, SizeAfterRead
    <2>4. \A i \in Cells(count') : buf[i] \in 0 .. MaxStream
      <3>1. \A n \in 0 .. MaxRx : Cells(n) \subseteq Cells(MaxRx)
        BY <1>1 DEF Cells
      <3>2. QED
        BY <2>3, <3>1, BufferWasSent
    <2>5. QED
      BY <1>1, <2>1, <2>2, <2>3, <2>4, <2>6 DEF Bounded
  <1>11. CASE UNCHANGED vars
    <2>1. Waiting' = Waiting
      BY <1>11 DEF vars, device, Waiting, Ends
    <2>2. QED
      BY <1>11, <2>1 DEF Bounded, vars, device, wait, result
  <1>12. QED
    BY <1>3, <1>4, <1>5, <1>7, <1>8, <1>9, <1>10, <1>11 DEF Next

\* No byte leaves the endpoint that was not sent.  A wait for at most half of
\* _rx_buffer never writes beyond it, whatever the first transfer left of the
\* size to be read; the waits whose second transfer may go beyond it are those
\* for more than half (613 to 1224 bytes, which line 222 admits), and it is they
\* alone that leave _rx_size larger than the buffer.
THEOREM BufferIsNeverExceeded == Spec => []TypeOK
  <1>1. Init => Bounded
    <2> SUFFICES ASSUME Init PROVE Bounded
      OBVIOUS
    <2>1. MaxRx \in Nat /\ MaxStream \in Nat
      BY RxAssumption DEF RxAssumption
    <2>2. Waiting
      <3> DEFINE b == [i \in 0 .. 0 |-> 0]
      <3>1. Len(queue) = 0
        BY DEF Init
      <3>2. b \in [0 .. 0 -> Nat] /\ b[0] = 0 /\ \A i \in 0 .. 0 : i = 0
        OBVIOUS
      <3> HIDE DEF b
      <3>3. Ends(b)
        BY <3>1, <3>2 DEF Ends, Init
      <3>4. QED
        BY <3>3 DEF Waiting
    <2>3. QED
      BY <2>1, <2>2 DEF Init, Bounded
  <1>2. RxTypes /\ RxInv /\ Bounded /\ [Next]_vars => Bounded'
    BY BoundedStep
  <1>3. RxTypes /\ RxInv /\ Bounded => TypeOK
    <2> SUFFICES ASSUME RxTypes, RxInv, Bounded PROVE TypeOK
      OBVIOUS
    <2>1. taken <= sent /\ sent \in Nat /\ sent <= MaxStream /\ MaxStream \in Nat /\ MaxRx \in Nat
      BY NothingFromNowhere, RxAssumption DEF Bounded, RxAssumption
    <2>2. buf \in [Cells(MaxRx) -> 0 .. MaxStream]
      BY BufferWasSent DEF RxTypes
    <2>3. QED
      BY <2>1, <2>2 DEF RxTypes, Bounded, TypeOK
  <1>4. QED
    BY <1>1, <1>2, <1>3, RxInvariant, PTL DEF Spec
=============================================================================
