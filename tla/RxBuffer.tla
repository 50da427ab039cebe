------------------------------ MODULE RxBuffer ------------------------------
(***************************************************************************)
(* What USBChannel::waitForData() and read() do to _rx_buffer and _rx_size *)
(* (sl_usb_channel.cpp 220-279 and 368-385).  A buffer is a function from  *)
(* positions 0.. to bytes; what a transfer brings is such a function too,  *)
(* from 0..n-1.  waitForData() makes one transfer of size bytes and, when  *)
(* it brings fewer, a second one for the rest.                             *)
(***************************************************************************)
EXTENDS Naturals

\* The first n positions.
Cells(n) == 0 .. n - 1

\* A transfer of n bytes into the buffer at position `at`.
Store(buf, at, n, bytes) ==
  [i \in DOMAIN buf |-> IF i \in at .. at + n - 1 THEN bytes[i - at] ELSE buf[i]]

\* Where the second transfer goes, and how long it may be: both are what is
\* missing of size, the position is not what the first transfer brought.
Rest(size, ready) == size - ready

\* _rx_size and *actualReady when waitForData() returns, without and with a
\* second transfer.
SizeAfterFirst(size) == size
SizeAfterSecond(size, ready, second) == Rest(size, ready) + second

\* read(size): how many bytes it copies from the start of the buffer, what
\* it returns, and what it leaves in _rx_size.
CopiedBytes(rxSize, size) == IF size <= rxSize THEN size ELSE rxSize
ReadReturn(rxSize, size) == IF size <= rxSize THEN size ELSE 0
SizeAfterRead(rxSize, size) == IF size <= rxSize THEN rxSize - size ELSE 0
=============================================================================
