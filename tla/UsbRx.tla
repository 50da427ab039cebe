------------------------------- MODULE UsbRx -------------------------------
(***************************************************************************)
(* The receive side of USBChannel (sl_usb_channel.cpp): clearReadCache(),  *)
(* waitForData() with its two bulk transfers, and read(), by one caller    *)
(* (the driver holds its lock around them).  The device sends a stream of  *)
(* bytes in USB packets; byte k of the stream is the number k, so what the *)
(* buffer holds shows where it came from.  The byte 0 is a byte that was   *)
(* never received.                                                         *)
(***************************************************************************)
EXTENDS RxBuffer, Sequences

CONSTANTS Sizes,      \* the sizes the caller asks for
          MaxRx,      \* MAX_RX_BUFFER_SIZE
          MaxPacket,  \* bound: bytes in one packet of the device
          MaxStream   \* bound: bytes the device sends

ASSUME RxAssumption ==
  /\ MaxRx \in Nat /\ MaxPacket \in Nat \ {0} /\ MaxStream \in Nat
  /\ Sizes \subseteq Nat \ {0}

VARIABLES buf,      \* _rx_buffer
          rxSize,   \* _rx_size
          queue,    \* lengths of the packets waiting at the endpoint
          taken,    \* bytes of the stream that have left the endpoint
          sent,     \* bytes of the stream the device has sent
          phase,    \* "idle", "first", "second", "ready" (true),
                    \* "failed" (false), "read"; "overrun": a transfer has
                    \* written behind _rx_buffer, where _op_lock is, and what
                    \* the program does from there on is undefined
          size,     \* the size being waited for
          ready,    \* ready_size, the bytes of the first transfer
          second,   \* rsize, the bytes of the second transfer
          base,     \* history: bytes gone from the endpoint before the wait
          copied,   \* what the last read() copied: from 0.. to bytes
          count,    \* how many bytes that was
          returned  \* and what it returned

device == <<queue, sent>>
wait == <<phase, size, ready, second, base>>
result == <<copied, count, returned>>
vars == <<buf, rxSize, taken, device, wait, result>>

Init ==
  /\ buf = [i \in Cells(MaxRx) |-> 0] /\ rxSize = 0
  /\ queue = <<>> /\ taken = 0 /\ sent = 0
  /\ phase = "idle" /\ size = 0 /\ ready = 0 /\ second = 0 /\ base = 0
  /\ copied = [i \in Cells(0) |-> 0] /\ count = 0 /\ returned = 0

DeviceSends(n) ==
  /\ sent + n <= MaxStream
  /\ sent' = sent + n
  /\ queue' = Append(queue, n)
  /\ UNCHANGED <<buf, rxSize, taken, wait, result>>
-----------------------------------------------------------------------------
\* The bytes of the packet at the head of the queue.
Packet == [i \in Cells(Head(queue)) |-> taken + 1 + i]

\* Slips for the properties to notice; the specification uses none of them.
SecondAdds(n, ok) ==
  /\ second' = n
  /\ phase' = IF Rest(size, ready) + n > MaxRx THEN "overrun"
              ELSE IF ok THEN "ready" ELSE "failed"
  /\ rxSize' = rxSize + SizeAfterSecond(size, ready, n)
  /\ UNCHANGED <<size, ready, base, result>>

FirstRetries(n) ==
  /\ ready' = n
  /\ phase' = IF n = size THEN "ready" ELSE "first"
  /\ rxSize' = IF n = size THEN SizeAfterFirst(size) ELSE rxSize
  /\ UNCHANGED <<size, second, base, result>>

SecondForgetsFirst(n, ok) ==
  /\ second' = n
  /\ phase' = IF ok THEN "ready" ELSE "failed"
  /\ rxSize' = n
  /\ UNCHANGED <<size, ready, base, result>>

\* A packet that fits into the room of a bulk transfer ends it: a packet that
\* is shorter than the room is a short packet.
Receives(at, room) ==
  /\ queue # <<>>
  /\ Head(queue) <= room
  /\ buf' = Store(buf, at, Head(queue), Packet)
  /\ taken' = taken + Head(queue)
  /\ queue' = Tail(queue)
  /\ UNCHANGED sent

\* A longer packet overflows the transfer: an error, and the packet is gone.
\* libusb reports all of the room as filled, or nothing.
Overflows(at, room, n) ==
  /\ queue # <<>>
  /\ Head(queue) > room
  /\ n \in {0, room}
  /\ buf' = Store(buf, at, n, Packet)
  /\ taken' = taken + Head(queue)
  /\ queue' = Tail(queue)
  /\ UNCHANGED sent

\* The transfer's timeout is over and the endpoint is empty.
TimesOut ==
  /\ queue = <<>>
  /\ UNCHANGED <<buf, taken, device>>
-----------------------------------------------------------------------------
\* The first transfer is judged by its length alone; its error is printed.
FirstBrought(n) ==
  /\ ready' = n
  /\ phase' = IF n = size THEN "ready" ELSE "second"
  /\ rxSize' = IF n = size THEN SizeAfterFirst(size) ELSE rxSize
  /\ UNCHANGED <<size, second, base, result>>

\* The second one ends the wait; its error makes waitForData() return false.
\* Its bytes begin where Rest says and may go on beyond the buffer's end.
SecondBrought(n, ok) ==
  /\ second' = n
  /\ phase' = IF Rest(size, ready) + n > MaxRx THEN "overrun"
              ELSE IF ok THEN "ready" ELSE "failed"
  /\ rxSize' = SizeAfterSecond(size, ready, n)
  /\ UNCHANGED <<size, ready, base, result>>

ClearReadCache ==
  /\ phase \in {"idle", "read"}
  /\ rxSize' = 0
  /\ UNCHANGED <<buf, taken, device, wait, result>>

\* The call of waitForData(n); more than MAX_RX_BUFFER_SIZE is refused.
WaitForData(n) ==
  /\ phase \in {"idle", "read"}
  /\ phase' = IF n > MaxRx THEN "failed" ELSE "first"
  /\ size' = n
  /\ ready' = 0 /\ second' = 0
  /\ base' = taken
  /\ UNCHANGED <<buf, rxSize, taken, device, result>>

FirstTransfer ==
  /\ phase = "first"
  /\ \/ Receives(0, size) /\ FirstBrought(Head(queue))
     \/ \E n \in {0, size} : Overflows(0, size, n) /\ FirstBrought(n)
     \/ TimesOut /\ FirstBrought(0)

SecondAtStart ==
  /\ phase = "second"
  /\ LET room == Rest(size, ready) IN
       \/ Receives(0, room) /\ SecondBrought(Head(queue), TRUE)
       \/ \E n \in {0, room} : Overflows(0, room, n) /\ SecondBrought(n, FALSE)
       \/ TimesOut /\ SecondBrought(0, FALSE)

SecondTransfer ==
  /\ phase = "second"
  /\ LET room == Rest(size, ready) IN
       \/ Receives(room, room) /\ SecondBrought(Head(queue), TRUE)
       \/ \E n \in {0, room} : Overflows(room, room, n) /\ SecondBrought(n, FALSE)
       \/ TimesOut /\ SecondBrought(0, FALSE)

\* The caller gives up after waitForData() returned false ...
GiveUp ==
  /\ phase = "failed"
  /\ phase' = "idle"
  /\ UNCHANGED <<buf, rxSize, taken, device, size, ready, second, base, result>>

\* ... and reads what it waited for after it returned true.
Read ==
  /\ phase = "ready"
  /\ count' = CopiedBytes(rxSize, size)
  /\ copied' = [i \in Cells(count') |-> buf[i]]
  /\ returned' = ReadReturn(rxSize, size)
  /\ rxSize' = SizeAfterRead(rxSize, size)
  /\ phase' = "read"
  /\ UNCHANGED <<buf, taken, device, size, ready, second, base>>

Next ==
  \/ \E n \in 1 .. MaxPacket : DeviceSends(n)
  \/ ClearReadCache
  \/ \E n \in Sizes : WaitForData(n)
  \/ FirstTransfer
  \/ SecondTransfer
  \/ GiveUp
  \/ Read

Spec == Init /\ [][Next]_vars

\* A transfer with a timeout ends; the device need not send anything.
FairSpec == Spec /\ WF_vars(FirstTransfer) /\ WF_vars(SecondTransfer)
-----------------------------------------------------------------------------
\* The variables range over the values above; no more leaves the endpoint
\* than the device sent.  No transfer writes beyond _rx_buffer, nor does _rx_size
\* exceed it, unless a wait was for more than half of it (613 bytes and more,
\* which line 222 admits), and never by more than the buffer's size.
TypeOK ==
  /\ buf \in [Cells(MaxRx) -> 0 .. MaxStream]
  /\ rxSize \in 0 .. 2 * MaxRx
  /\ phase = "overrun" => size <= MaxRx /\ 2 * size > MaxRx
  /\ rxSize > MaxRx <=> phase = "overrun"
  /\ queue \in Seq(1 .. MaxPacket)
  /\ sent \in 0 .. MaxStream /\ taken \in 0 .. sent /\ base \in 0 .. taken
  /\ phase \in {"idle", "first", "second", "ready", "failed", "read", "overrun"}
  /\ size \in Sizes \cup {0} /\ ready \in 0 .. size /\ second \in 0 .. size
  /\ count \in 0 .. MaxRx /\ returned \in 0 .. MaxRx
  /\ copied \in [Cells(count) -> 0 .. MaxStream]

\* The wait was served by one transfer of everything, or by two halves.
ServedWhole == ready = size \/ (second = ready /\ 2 * ready = size)

\* A wait served by one transfer (the normal case) or in two halves (where the
\* wrong offset of line 248 happens to be the right one) gives the reader the
\* next size bytes of the stream, in order, and the right count.
WholeAnswerIsRead ==
  phase = "read" /\ ServedWhole =>
     /\ count = size /\ returned = size
     /\ \A i \in Cells(size) : copied[i] = base + 1 + i

\* The first byte that is read, the one the driver checks for the sync byte,
\* is the next byte of the stream exactly if the first transfer brought
\* something: after a first transfer that timed out, read() returns what an
\* earlier answer left at the start of the buffer (lines 248-249).
FirstByteIsFresh ==
  phase = "read" /\ count > 0 => (copied[0] = base + 1 <=> ready > 0)

\* waitForData() with a timeout ends, unless it has written beyond the buffer.
WaitEnds ==
  phase \in {"first", "second"} ~> phase \in {"ready", "failed", "overrun"}

\* sl_slamkit_driver.h line 96: waitForData() returns true for data ready,
\* that is, what read() then copies is what the device sent.
ReadyMeansReceived ==
  phase = "read" => \A i \in Cells(count) : copied[i] = base + 1 + i
=============================================================================
